----------------------------- MODULE BlockPush -----------------------------
(***************************************************************************)
(* One upload of BlockPusher.pushFile.  The file is announced in an index  *)
(* update; the peer asks for ranges of it and, when it has all the blocks, *)
(* publishes the record in its own index, which completes the upload.  So  *)
(* does a record with the same content from another device.                *)
(*                                                                         *)
(* Threads: the user's, which waits and then closes the upload; the pool   *)
(* thread of the connection that handles requests (the event bus calls the *)
(* listener for one event at a time); the sender of the connection; tasks  *)
(* of monitoringProcessExecutorService; the index processor.               *)
(***************************************************************************)
EXTENDS Naturals, Sequences, FiniteSets

CONSTANTS
  Block,        \* the blocks of the file, by hash
  Piece,        \* hashes of other ranges of the file, which are no blocks
  Foreign,      \* hashes of no range of the file
  MaxRequests,  \* bound: requests of the peer
  MaxRecords    \* bound: records of the path on their way

ASSUME BlockPushAssumption ==
  /\ Block # {} /\ Block \cap Piece = {} /\ (Block \cup Piece) \cap Foreign = {}
  /\ MaxRequests \in Nat /\ MaxRecords \in Nat

Request == 1..MaxRequests
Idle == 0
Held == Block \cup Piece
(* A record of the path: with another content, from any device; with the   *)
(* content of this file, from the peer; with that content, from another    *)
(* device.                                                                 *)
Record == {"old", "new", "copy"}
(* Calls of updateLock.notifyAll: by the task of a request, by the request *)
(* listener and by the index listener.                                     *)
Notifier == {<<"task", r>> : r \in Request} \cup {<<"listener", Idle>>, <<"index", Idle>>}

VARIABLES
  user,       \* where the user's thread is
  missed,     \* history: the wait began after the end of the upload was notified
  notifying,  \* threads between an assignment and the notifyAll after it
  online,     \* the connection is not closed
  listening,  \* listener and indexListener are registered
  monitorOn,  \* monitoringProcessExecutorService is not shut down
  asked,      \* the hash of each request of the peer, in order
  pool,       \* requests that the connection received and has not handled
  handling,   \* the request in handleRequestMessageReceivedEvent
  answered,   \* whether its response was accepted by sendMessage
  future,     \* the response of each request: none, pending, sent, failed
  errors,     \* history: GENERIC responses per request
  monitors,   \* tasks of monitoringProcessExecutorService
  sentBlocks,
  uploadError,
  isCompleted,
  elsewhere,  \* history: a record of another device completed the upload
  peerHas,    \* ranges of the file that the peer has
  records,    \* records of the path on their way to the index processor
  localIndex  \* the record was pushed to the local index

userVars == <<user, missed>>
requestVars == <<asked, pool, handling, answered, future, errors>>
uploadVars == <<sentBlocks, uploadError, isCompleted, elsewhere, notifying>>
peerVars == <<peerHas, records>>
vars == <<userVars, online, listening, monitorOn, requestVars, monitors, uploadVars,
          peerVars, localIndex>>

Init ==
  /\ user = "push" /\ missed = FALSE
  /\ online = TRUE /\ listening = FALSE /\ monitorOn = TRUE
  /\ asked = <<>> /\ pool = {} /\ handling = Idle /\ answered = FALSE
  /\ future = [r \in Request |-> "none"] /\ errors = [r \in Request |-> 0]
  /\ monitors = {} /\ sentBlocks = {} /\ uploadError = FALSE /\ isCompleted = FALSE
  /\ elsewhere = FALSE /\ notifying = {}
  /\ peerHas \in SUBSET Block /\ records = {} /\ localIndex = FALSE

(* synchronized (updateLock) { updateLock.notifyAll(); }, some time after  *)
(* the assignment that it tells of.                                        *)
NotifyNobody(t) ==
  /\ t \in notifying
  /\ notifying' = notifying \ {t}
  /\ UNCHANGED <<userVars, online, listening, monitorOn, requestVars, monitors, sentBlocks,
                 uploadError, isCompleted, elsewhere, peerVars, localIndex>>
Notify(t) ==
  /\ t \in notifying
  /\ notifying' = notifying \ {t}
  /\ user' = IF user = "waiting" THEN "woken" ELSE user
  /\ UNCHANGED <<missed, online, listening, monitorOn, requestVars, monitors, sentBlocks,
                 uploadError, isCompleted, elsewhere, peerVars, localIndex>>

(***************************************************************************)
(* The user's thread.                                                      *)
(***************************************************************************)

(* sendMessage throws on a closed connection.                              *)
sendIndexUpdate == user' = IF online THEN "test" ELSE "failed"

(* Both listeners are registered, then the index update is sent, which     *)
(* fails on a closed connection and leaves them registered.                *)
PushFile ==
  /\ user = "push"
  /\ listening' = TRUE
  /\ sendIndexUpdate
  /\ UNCHANGED <<missed, online, monitorOn, requestVars, monitors, uploadVars, peerVars,
                 localIndex>>

(* waitForComplete: while (!isCompleted()) waitForProgressUpdate();        *)
TestSent ==
  /\ user = "test"
  /\ user' = IF Block \subseteq sentBlocks THEN "completed" ELSE "enter"
  /\ UNCHANGED <<missed, online, listening, monitorOn, requestVars, monitors, uploadVars,
                 peerVars, localIndex>>
TestCompleted ==
  /\ user = "test"
  /\ user' = IF isCompleted THEN "completed" ELSE "enter"
  /\ UNCHANGED <<missed, online, listening, monitorOn, requestVars, monitors, uploadVars,
                 peerVars, localIndex>>

(* The wait is unconditional.  A thread that has assigned the end and not  *)
(* yet notified wakes it.                                                  *)
Wait ==
  /\ user = "enter"
  /\ user' = "waiting"
  /\ missed' = ((isCompleted \/ uploadError) /\ notifying = {})
  /\ UNCHANGED <<online, listening, monitorOn, requestVars, monitors, uploadVars, peerVars,
                 localIndex>>

ReturnFromWait ==
  /\ user = "woken"
  /\ user' = IF uploadError THEN "failed" ELSE "test"
  /\ UNCHANGED <<missed, online, listening, monitorOn, requestVars, monitors, uploadVars,
                 peerVars, localIndex>>

(* close(), of an upload that completed or failed.  A pushFile that threw  *)
(* has given nothing to close: its user stays in "failed".                 *)
StopUpload ==
  /\ user \in {"completed", "failed"} /\ monitorOn /\ (user = "failed" => uploadError)
  /\ listening' = FALSE /\ monitorOn' = FALSE
  /\ UNCHANGED <<userVars, online, requestVars, monitors, uploadVars, peerVars, localIndex>>

CloseConnection ==
  /\ ~monitorOn /\ online
  /\ online' = FALSE
  /\ UNCHANGED <<userVars, listening, monitorOn, requestVars, monitors, uploadVars, peerVars,
                 localIndex>>

PushRecord ==
  /\ ~monitorOn /\ ~online /\ ~localIndex
  /\ localIndex' = TRUE
  /\ UNCHANGED <<userVars, online, listening, monitorOn, requestVars, monitors, uploadVars,
                 peerVars>>

(***************************************************************************)
(* Requests of the peer.                                                   *)
(***************************************************************************)

(* External: the peer asks for a range of the path and names its hash, for *)
(* this file or for what was there before, whatever it has already.        *)
AskBlock ==
  /\ online /\ Len(asked) < MaxRequests
  /\ \E b \in Held \cup Foreign : asked' = Append(asked, b)
  /\ pool' = pool \cup {Len(asked) + 1}
  /\ UNCHANGED <<userVars, online, listening, monitorOn, handling, answered, future, errors,
                 monitors, uploadVars, peerVars, localIndex>>

TakeRequest(r) ==
  /\ r \in pool /\ handling = Idle /\ <<"listener", Idle>> \notin notifying
  /\ pool' = pool \ {r}
  /\ handling' = IF listening THEN r ELSE Idle
  /\ UNCHANGED <<userVars, online, listening, monitorOn, asked, answered, future, errors,
                 monitors, uploadVars, peerVars, localIndex>>

(* The data at the offset and of the size of the request, if it has the    *)
(* hash asked for: it need not be a block.                                 *)
getBlock(hash) == hash \in Held

(* getBlock finds the data and sendMessage accepts the response.           *)
AnswerRequest ==
  /\ handling # Idle /\ ~answered
  /\ online /\ getBlock(asked[handling])
  /\ answered' = TRUE
  /\ future' = [future EXCEPT ![handling] = "pending"]
  /\ UNCHANGED <<userVars, online, listening, monitorOn, asked, pool, handling, errors,
                 monitors, uploadVars, peerVars, localIndex>>

(* catch (Exception): a GENERIC response, then uploadError.  On a closed   *)
(* connection sendMessage throws again, out of the listener.               *)
HandleError ==
  /\ IF online
     THEN /\ errors' = [errors EXCEPT ![handling] = @ + 1]
          /\ uploadError' = TRUE /\ notifying' = notifying \cup {<<"listener", Idle>>}
     ELSE UNCHANGED <<errors, uploadError, notifying>>
  /\ handling' = Idle /\ answered' = FALSE

RefuseRequest ==
  /\ handling # Idle /\ ~answered
  /\ ~online \/ ~getBlock(asked[handling])
  /\ HandleError
  /\ UNCHANGED <<userVars, online, listening, monitorOn, asked, pool, future, monitors,
                 sentBlocks, isCompleted, elsewhere, peerVars, localIndex>>

MonitorOne ==
  /\ handling # Idle /\ answered
  /\ IF monitorOn /\ monitors = {}
     THEN /\ monitors' = {handling}
          /\ handling' = Idle /\ answered' = FALSE
          /\ UNCHANGED <<errors, uploadError, notifying>>
     ELSE HandleError /\ UNCHANGED monitors
  /\ UNCHANGED <<userVars, online, listening, monitorOn, asked, pool, future, sentBlocks,
                 isCompleted, elsewhere, peerVars, localIndex>>
(* The executor rejects the task after close(): the request is answered a  *)
(* second time.                                                            *)
MonitorResponse ==
  /\ handling # Idle /\ answered
  /\ IF monitorOn
     THEN /\ monitors' = monitors \cup {handling}
          /\ handling' = Idle /\ answered' = FALSE
          /\ UNCHANGED <<errors, uploadError, notifying>>
     ELSE HandleError /\ UNCHANGED monitors
  /\ UNCHANGED <<userVars, online, listening, monitorOn, asked, pool, future, sentBlocks,
                 isCompleted, elsewhere, peerVars, localIndex>>

(***************************************************************************)
(* The sender of the connection (see Connection), and the monitor.         *)
(***************************************************************************)
SendResponse(r) ==
  /\ future[r] = "pending"
  /\ \/ /\ online
        /\ future' = [future EXCEPT ![r] = "sent"]
        /\ peerHas' = peerHas \cup {asked[r]}
        /\ UNCHANGED online
     \/ /\ future' = [future EXCEPT ![r] = "failed"]
        /\ online' = FALSE
        /\ UNCHANGED peerHas
  /\ UNCHANGED <<userVars, listening, monitorOn, asked, pool, handling, answered, errors,
                 monitors, uploadVars, records, localIndex>>

EarlyMonitorDone(r) ==
  /\ r \in monitors
  /\ monitors' = monitors \ {r}
  /\ sentBlocks' = sentBlocks \cup {asked[r]}
  /\ notifying' = notifying \cup {<<"task", r>>}
  /\ UNCHANGED <<userVars, online, listening, monitorOn, requestVars, uploadError,
                 isCompleted, elsewhere, peerVars, localIndex>>
MonitorDone(r) ==
  /\ r \in monitors /\ future[r] \in {"sent", "failed"}
  /\ monitors' = monitors \ {r}
  /\ IF future[r] = "sent"
     THEN sentBlocks' = sentBlocks \cup {asked[r]} /\ UNCHANGED uploadError
     ELSE uploadError' = TRUE /\ UNCHANGED sentBlocks
  /\ notifying' = notifying \cup {<<"task", r>>}
  /\ UNCHANGED <<userVars, online, listening, monitorOn, requestVars, isCompleted,
                 elsewhere, peerVars, localIndex>>

(* The connection is lost: nothing tells the upload.                       *)
LoseConnection ==
  /\ online
  /\ online' = FALSE
  /\ UNCHANGED <<userVars, listening, monitorOn, requestVars, monitors, uploadVars, peerVars,
                 localIndex>>

(***************************************************************************)
(* Index records of the path.  The index handler, its event bus and its    *)
(* processor serve all the connections of the client.                      *)
(***************************************************************************)

(* External: the peer publishes this file when it has all its blocks,      *)
(* another device whenever it has a file with the same content.            *)
PublishRecord(record) ==
  /\ record \notin records /\ Cardinality(records) < MaxRecords
  /\ record = "new" => online /\ Block \subseteq peerHas
  /\ records' = records \cup {record}
  /\ UNCHANGED <<userVars, online, listening, monitorOn, requestVars, monitors, uploadVars,
                 peerHas, localIndex>>

(* The folder, the path and the hash are compared, not the device.         *)
Completes(record) == listening /\ record \in {"new", "copy"}
AquireRecordIf(completes, record) ==
  /\ record \in records /\ <<"index", Idle>> \notin notifying
  /\ records' = records \ {record}
  /\ IF completes
     THEN /\ isCompleted' = TRUE
          /\ elsewhere' = (elsewhere \/ (~isCompleted /\ record = "copy"))
          /\ notifying' = notifying \cup {<<"index", Idle>>}
     ELSE UNCHANGED <<isCompleted, elsewhere, notifying>>
  /\ UNCHANGED <<userVars, online, listening, monitorOn, requestVars, monitors, sentBlocks,
                 uploadError, peerHas, localIndex>>
AquireAnyRecord(record) == AquireRecordIf(listening, record)
AquireRecord(record) == AquireRecordIf(Completes(record), record)

User == PushFile \/ TestCompleted \/ Wait \/ ReturnFromWait
Close == StopUpload \/ CloseConnection \/ PushRecord
Handle == AnswerRequest \/ RefuseRequest \/ MonitorResponse

Next ==
  \/ User \/ Close \/ AskBlock \/ Handle \/ LoseConnection
  \/ \E r \in Request : TakeRequest(r) \/ SendResponse(r) \/ MonitorDone(r)
  \/ \E record \in Record : PublishRecord(record) \/ AquireRecord(record)
  \/ \E t \in Notifier : Notify(t)

Spec == Init /\ [][Next]_vars

(* The threads of the program run; nothing is assumed of the peer.         *)
Fairness ==
  /\ WF_vars(User) /\ WF_vars(Close) /\ WF_vars(Handle)
  /\ \A r \in Request : WF_vars(TakeRequest(r)) /\ WF_vars(SendResponse(r))
                          /\ WF_vars(MonitorDone(r))
  /\ \A record \in Record : WF_vars(AquireRecord(record))
  /\ \A t \in Notifier : WF_vars(Notify(t))

FairSpec == Spec /\ Fairness

(***************************************************************************)
(* Properties.                                                             *)
(***************************************************************************)

(* The variables keep their types: the progress counts ranges of the file, *)
(* which may be more than its blocks.                                      *)
TypeOK ==
  /\ user \in {"push", "test", "enter", "waiting", "woken", "completed", "failed"}
  /\ missed \in BOOLEAN /\ online \in BOOLEAN /\ listening \in BOOLEAN
  /\ monitorOn \in BOOLEAN /\ answered \in BOOLEAN /\ uploadError \in BOOLEAN
  /\ isCompleted \in BOOLEAN /\ elsewhere \in BOOLEAN /\ localIndex \in BOOLEAN
  /\ asked \in Seq(Held \cup Foreign) /\ pool \subseteq Request
  /\ handling \in Request \cup {Idle} /\ notifying \subseteq Notifier
  /\ future \in [Request -> {"none", "pending", "sent", "failed"}]
  /\ errors \in [Request -> Nat] /\ monitors \subseteq Request
  /\ sentBlocks \subseteq Held /\ peerHas \subseteq Held /\ records \subseteq Record

(* An upload that ended well is held by the peer, block by block, whatever *)
(* the peer asked for and whatever records with other contents arrived,    *)
(* unless it was completed by the record of another device with the same   *)
(* content: nobody tests that the peer took any of it.                     *)
UploadedIsHeld ==
  user = "completed" => isCompleted /\ (Block \subseteq peerHas \/ elsewhere)

(* The progress counts ranges that the peer was sent.                      *)
ProgressIsSent == sentBlocks \subseteq peerHas

(* A request gets one response, unless the upload is being closed: then a  *)
(* data response may be followed by a GENERIC one.                         *)
OneResponse ==
  \A r \in Request :
    monitorOn => errors[r] + (IF future[r] = "none" THEN 0 ELSE 1) <= 1

(* The thread in waitForProgressUpdate comes to its end when the upload    *)
(* does: one notifyAll at least comes after the assignment and finds it    *)
(* asleep, unless the last notifyAll came before it began to wait.         *)
SleeperWoken ==
  user = "waiting" /\ (isCompleted \/ uploadError) /\ ~missed
    ~> user \in {"completed", "failed"}
=============================================================================
