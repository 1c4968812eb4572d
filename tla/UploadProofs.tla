---------------------------- MODULE UploadProofs ----------------------------
(***************************************************************************)
(* Theorems about an upload: BlockPush, which gives the blocks of a file   *)
(* to a peer, and Sequencer, from which the record of the file takes its   *)
(* number.                                                                 *)
(*                                                                         *)
(* BlockPush, for every file, any number of requests and any order of the  *)
(* threads: what ends well is held by the peer, unless another device      *)
(* completed it, the progress counts what was sent, and a request is       *)
(* answered once.                                                          *)
(*                                                                         *)
(* Sequencer, for any uploads, starting sequences and bounds: the numbers  *)
(* of an index id grow, and an announced maximum covers them, across       *)
(* clears, restarts and sequencer objects that were replaced.              *)
(***************************************************************************)
EXTENDS BlockPush, Sequencer, SequenceTheorems, TLAPS

(***************************************************************************)
(* BlockPush.                                                              *)
(***************************************************************************)
(* A request is where the handling of it left it: in the pool, in the      *)
(* listener before its response, in the listener after it, or gone.        *)
Fresh(r) == errors[r] = 0 /\ future[r] = "none"

RequestsOK ==
  /\ pool \subseteq 1..Len(asked) /\ handling \in 1..Len(asked) \cup {Idle}
  /\ handling \notin pool
  /\ \A r \in Request : Len(asked) < r \/ r \in pool => Fresh(r)
  /\ handling # Idle /\ ~answered => Fresh(handling)
  /\ handling # Idle /\ answered => errors[handling] = 0
  /\ handling = Idle => ~answered

AnswersOK ==
  monitorOn => \A r \in Request : errors[r] = 0 \/ (errors[r] = 1 /\ future[r] = "none")

(* A response carries a range of the file, and the peer has it once it is  *)
(* sent.                                                                   *)
FuturesOK ==
  \A r \in Request :
    /\ future[r] # "none" => r \in 1..Len(asked) /\ asked[r] \in Held
    /\ future[r] = "sent" => asked[r] \in peerHas

(* The peer's record of the file says that it has all the blocks; another  *)
(* device's record says nothing of the peer.                               *)
RecordsOK ==
  /\ "new" \in records => Block \subseteq peerHas
  /\ isCompleted => Block \subseteq peerHas \/ elsewhere
  /\ user = "completed" => isCompleted

IInv == TypeOK /\ RequestsOK /\ FuturesOK /\ RecordsOK /\ ProgressIsSent /\ AnswersOK

LEMMA InitIInv == Init => IInv
<1> SUFFICES ASSUME Init PROVE IInv
  OBVIOUS
<1>1. asked = <<>> /\ Len(asked) = 0 /\ asked \in Seq(Held \cup Foreign)
  BY DEF Init
<1>2. /\ future = [r \in Request |-> "none"] /\ errors = [r \in Request |-> 0]
      /\ pool = {} /\ handling = Idle /\ ~answered
  BY DEF Init
<1>3. TypeOK
  BY <1>1 DEF Init, TypeOK, Held
<1>4. RequestsOK /\ AnswersOK
  BY <1>1, <1>2 DEF RequestsOK, AnswersOK, Fresh
<1>5. FuturesOK
  BY <1>2 DEF FuturesOK
<1>6. RecordsOK /\ ProgressIsSent
  BY DEF Init, RecordsOK, ProgressIsSent
<1> QED  BY <1>3, <1>4, <1>5, <1>6 DEF IInv

(* A step of the user's thread, of close() or of the connection moves none *)
(* of the requests, of the responses and of the records.                   *)
Places == {"push", "test", "enter", "waiting", "woken", "completed", "failed"}

LEMMA QuietIInv ==
  ASSUME IInv, UNCHANGED <<requestVars, monitors, uploadVars, peerVars>>,
         user' \in Places, missed' \in BOOLEAN, online' \in BOOLEAN,
         listening' \in BOOLEAN, monitorOn' \in BOOLEAN, localIndex' \in BOOLEAN,
         monitorOn' => monitorOn, user' = "completed" => isCompleted
  PROVE  IInv'
<1>1. /\ UNCHANGED <<asked, pool, handling, answered, future, errors>>
      /\ UNCHANGED <<monitors, sentBlocks, uploadError, isCompleted, elsewhere, notifying>>
      /\ UNCHANGED <<peerHas, records>>
  BY DEF requestVars, uploadVars, peerVars
<1>2. TypeOK'
  <2>1. TypeOK
    BY DEF IInv
  <2> QED  BY <1>1, <2>1 DEF TypeOK, Places
<1>3. RequestsOK'
  <2>1. RequestsOK
    BY DEF IInv
  <2> QED  BY <1>1, <2>1 DEF RequestsOK, Fresh
<1>4. FuturesOK'
  <2>1. FuturesOK
    BY DEF IInv
  <2> QED  BY <1>1, <2>1 DEF FuturesOK
<1>5. RecordsOK' /\ ProgressIsSent'
  <2>1. RecordsOK /\ ProgressIsSent
    BY DEF IInv
  <2> QED  BY <1>1, <2>1 DEF RecordsOK, ProgressIsSent
<1>6. AnswersOK'
  <2>1. AnswersOK
    BY DEF IInv
  <2> QED  BY <1>1, <2>1 DEF AnswersOK
<1> QED  BY <1>2, <1>3, <1>4, <1>5, <1>6 DEF IInv

(* The user's thread and close().                                          *)
LEMMA UserIInv ==
  IInv /\ (User \/ Close \/ LoseConnection) => IInv'
<1> SUFFICES ASSUME IInv, User \/ Close \/ LoseConnection PROVE IInv'
  OBVIOUS
<1>t. /\ user \in Places /\ missed \in BOOLEAN /\ online \in BOOLEAN
      /\ listening \in BOOLEAN /\ monitorOn \in BOOLEAN /\ localIndex \in BOOLEAN
      /\ uploadError \in BOOLEAN /\ isCompleted \in BOOLEAN
      /\ (user = "completed" => isCompleted)
  BY DEF IInv, TypeOK, RecordsOK, Places
<1>1. CASE PushFile
  <2>1. user' \in {"test", "failed"} /\ listening' = TRUE
        /\ UNCHANGED <<missed, online, monitorOn, requestVars, monitors, uploadVars,
                       peerVars, localIndex>>
    BY <1>1 DEF PushFile, sendIndexUpdate
  <2>2. user' \in Places /\ user' # "completed"
    BY <2>1 DEF Places
  <2> QED  BY <2>1, <2>2, <1>t, QuietIInv
<1>2. CASE TestCompleted
  <2>1. user' = (IF isCompleted THEN "completed" ELSE "enter")
        /\ UNCHANGED <<missed, online, listening, monitorOn, requestVars, monitors,
                       uploadVars, peerVars, localIndex>>
    BY <1>2 DEF TestCompleted
  <2>2. user' \in Places /\ (user' = "completed" => isCompleted)
    BY <2>1 DEF Places
  <2> QED  BY <2>1, <2>2, <1>t, QuietIInv
<1>3. CASE Wait
  <2>1. user' = "waiting" /\ missed' = ((isCompleted \/ uploadError) /\ notifying = {})
        /\ UNCHANGED <<online, listening, monitorOn, requestVars, monitors, uploadVars,
                       peerVars, localIndex>>
    BY <1>3 DEF Wait
  <2>2. user' \in Places /\ user' # "completed" /\ missed' \in BOOLEAN
    BY <2>1, <1>t DEF Places
  <2> QED  BY <2>1, <2>2, <1>t, QuietIInv
<1>4. CASE ReturnFromWait
  <2>1. user' = (IF uploadError THEN "failed" ELSE "test")
        /\ UNCHANGED <<missed, online, listening, monitorOn, requestVars, monitors,
                       uploadVars, peerVars, localIndex>>
    BY <1>4 DEF ReturnFromWait
  <2>2. user' \in Places /\ user' # "completed"
    BY <2>1 DEF Places
  <2> QED  BY <2>1, <2>2, <1>t, QuietIInv
<1>5. CASE StopUpload
  <2>1. listening' = FALSE /\ monitorOn' = FALSE
        /\ UNCHANGED <<user, missed, online, requestVars, monitors, uploadVars, peerVars,
                       localIndex>>
    BY <1>5 DEF StopUpload, userVars
  <2> QED  BY <2>1, <1>t, QuietIInv
<1>6. CASE CloseConnection
  <2>1. online' = FALSE
        /\ UNCHANGED <<user, missed, listening, monitorOn, requestVars, monitors,
                       uploadVars, peerVars, localIndex>>
    BY <1>6 DEF CloseConnection, userVars
  <2> QED  BY <2>1, <1>t, QuietIInv
<1>7. CASE PushRecord
  <2>1. localIndex' = TRUE
        /\ UNCHANGED <<user, missed, online, listening, monitorOn, requestVars, monitors,
                       uploadVars, peerVars>>
    BY <1>7 DEF PushRecord, userVars
  <2> QED  BY <2>1, <1>t, QuietIInv
<1>8. CASE LoseConnection
  <2>1. online' = FALSE
        /\ UNCHANGED <<user, missed, listening, monitorOn, requestVars, monitors,
                       uploadVars, peerVars, localIndex>>
    BY <1>8 DEF LoseConnection, userVars
  <2> QED  BY <2>1, <1>t, QuietIInv
<1> QED  BY <1>1, <1>2, <1>3, <1>4, <1>5, <1>6, <1>7, <1>8 DEF User, Close

(* A new request is fresh.                                                 *)
LEMMA AskIInv == IInv /\ AskBlock => IInv'
<1> SUFFICES ASSUME IInv, AskBlock PROVE IInv'
  OBVIOUS
<1>1. PICK b \in Held \cup Foreign : asked' = Append(asked, b)
  BY DEF AskBlock
<1>2. /\ asked \in Seq(Held \cup Foreign) /\ b \in Held \cup Foreign
      /\ Len(asked) \in Nat /\ MaxRequests \in Nat /\ Len(asked) < MaxRequests
  BY <1>1, BlockPushAssumption DEF IInv, TypeOK, AskBlock
<1>3. /\ asked' \in Seq(Held \cup Foreign) /\ Len(asked') = Len(asked) + 1
      /\ \A r \in 1..Len(asked) : asked'[r] = asked[r]
  BY <1>1, <1>2
<1>4. Len(asked) + 1 \in Request
  BY <1>2 DEF Request
<1>5. /\ pool' = pool \cup {Len(asked) + 1}
      /\ UNCHANGED <<userVars, online, listening, monitorOn, handling, answered, future,
                     errors, monitors, uploadVars, peerVars, localIndex>>
  BY DEF AskBlock
<1> HIDE DEF AskBlock
<1>6. TypeOK'
  <2>1. pool' \subseteq Request
    BY <1>4, <1>5 DEF IInv, TypeOK
  <2> QED  BY <2>1, <1>3, <1>5 DEF IInv, TypeOK, userVars, uploadVars, peerVars
<1>7. RequestsOK'
  <2>1. /\ pool \subseteq 1..Len(asked) /\ handling \in 1..Len(asked) \cup {Idle}
        /\ handling \notin pool
    BY DEF IInv, RequestsOK
  <2>2. 1..Len(asked) \cup {Len(asked) + 1} = 1..Len(asked')
    BY <1>2, <1>3
  <2>3. /\ pool' \subseteq 1..Len(asked') /\ handling' \in 1..Len(asked') \cup {Idle}
    BY <2>1, <2>2, <1>5
  <2>4. handling' \notin pool'
    BY <2>1, <1>2, <1>5 DEF Idle
  <2>5. ASSUME NEW r \in Request, Len(asked') < r \/ r \in pool' PROVE Fresh(r)'
    <3>1. Len(asked) < r \/ r \in pool
      BY <2>5, <1>2, <1>3, <1>5 DEF Request
    <3> QED  BY <3>1, <1>5 DEF IInv, RequestsOK, Fresh
  <2> QED  BY <2>3, <2>4, <2>5, <1>5 DEF IInv, RequestsOK, Fresh
<1>8. FuturesOK'
  <2> SUFFICES ASSUME NEW r \in Request
               PROVE  /\ future[r] # "none" => r \in 1..Len(asked') /\ asked'[r] \in Held
                      /\ future[r] = "sent" => asked'[r] \in peerHas
    BY <1>5 DEF FuturesOK, peerVars
  <2>1. CASE future[r] = "none"  BY <2>1
  <2>2. CASE future[r] # "none"
    <3>1. r \in 1..Len(asked) /\ asked[r] \in Held
          /\ (future[r] = "sent" => asked[r] \in peerHas)
      BY <2>2 DEF IInv, FuturesOK
    <3> QED  BY <3>1, <1>2, <1>3
  <2> QED  BY <2>1, <2>2
<1>9. RecordsOK' /\ ProgressIsSent' /\ AnswersOK'
  BY <1>5 DEF IInv, RecordsOK, ProgressIsSent, AnswersOK, userVars, uploadVars, peerVars
<1> QED  BY <1>6, <1>7, <1>8, <1>9 DEF IInv

(* The listener.                                                           *)
LEMMA TakeIInv == ASSUME NEW r \in Request PROVE IInv /\ TakeRequest(r) => IInv'
<1> SUFFICES ASSUME IInv, TakeRequest(r) PROVE IInv'
  OBVIOUS
<1>1. /\ r \in pool /\ handling = Idle /\ pool' = pool \ {r}
      /\ handling' = r \/ handling' = Idle
      /\ UNCHANGED <<user, missed, online, listening, monitorOn, asked, answered, future,
                     errors, monitors, sentBlocks, uploadError, isCompleted, elsewhere,
                     notifying, peerHas, records, localIndex>>
  BY DEF TakeRequest, userVars, uploadVars, peerVars
<1>2. TypeOK'
  <2>1. TypeOK
    BY DEF IInv
  <2> QED  BY <1>1, <2>1 DEF TypeOK
<1>3. RequestsOK'
  <2>1. RequestsOK /\ r # Idle /\ Idle \notin pool
    BY DEF IInv, TypeOK, Request, Idle
  <2>2. Fresh(r) /\ ~answered /\ r \in 1..Len(asked)
    BY <1>1, <2>1 DEF RequestsOK
  <2>3. /\ pool' \subseteq 1..Len(asked') /\ handling' \in 1..Len(asked') \cup {Idle}
        /\ handling' \notin pool'
    BY <1>1, <2>1, <2>2 DEF RequestsOK
  <2>4. ASSUME NEW q \in Request, Len(asked') < q \/ q \in pool' PROVE Fresh(q)'
    BY <1>1, <2>1, <2>4 DEF RequestsOK, Fresh
  <2>5. Fresh(r)' /\ ~answered'
    BY <1>1, <2>2 DEF Fresh
  <2> QED  BY <1>1, <2>3, <2>4, <2>5 DEF RequestsOK, Fresh
<1>4. FuturesOK' /\ RecordsOK' /\ ProgressIsSent'
  BY <1>1 DEF IInv, FuturesOK, RecordsOK, ProgressIsSent
<1>5. AnswersOK'
  BY <1>1 DEF IInv, AnswersOK
<1> QED  BY <1>2, <1>3, <1>4, <1>5 DEF IInv

(* catch (Exception): the request was fresh, or the upload is closed.      *)
LEMMA ErrorIInv ==
  ASSUME IInv, handling # Idle, HandleError, ~answered \/ ~monitorOn,
         UNCHANGED <<userVars, online, listening, monitorOn, asked, pool, future, monitors,
                     sentBlocks, isCompleted, elsewhere, peerVars, localIndex>>
  PROVE  IInv'
<1>1. handling \in Request /\ handling \in 1..Len(asked) /\ handling \notin pool
  BY DEF IInv, TypeOK, RequestsOK
<1>2. handling' = Idle /\ answered' = FALSE
  BY DEF HandleError
<1>3. errors' = errors \/ errors' = [errors EXCEPT ![handling] = @ + 1]
  BY DEF HandleError
<1>4. /\ uploadError' \in BOOLEAN /\ notifying' \subseteq Notifier
      /\ UNCHANGED <<user, missed>>
  BY DEF HandleError, Notifier, IInv, TypeOK, userVars
<1>5. /\ errors' \in [Request -> Nat]
      /\ \A r \in Request : r # handling => errors'[r] = errors[r]
      /\ errors'[handling] = errors[handling] \/ errors'[handling] = errors[handling] + 1
  BY <1>1, <1>3 DEF IInv, TypeOK
<1> HIDE DEF HandleError
<1>6. TypeOK'
  BY <1>2, <1>4, <1>5 DEF IInv, TypeOK, peerVars
<1>7. RequestsOK'
  <2>1. ASSUME NEW r \in Request, Len(asked) < r \/ r \in pool PROVE Fresh(r)'
    <3>1. r # handling /\ Fresh(r)
      BY <2>1, <1>1 DEF IInv, TypeOK, RequestsOK, Request
    <3> QED  BY <3>1, <1>5 DEF Fresh
  <2>2. Idle \notin pool
    BY DEF IInv, TypeOK, Idle, Request
  <2> QED  BY <2>1, <2>2, <1>2 DEF IInv, RequestsOK
<1>8. FuturesOK' /\ ProgressIsSent'
  BY DEF IInv, FuturesOK, ProgressIsSent, peerVars
<1>9. RecordsOK'
  BY <1>4 DEF IInv, RecordsOK, peerVars
<1>10. AnswersOK'
  <2> SUFFICES ASSUME monitorOn, NEW r \in Request
               PROVE  errors'[r] = 0 \/ (errors'[r] = 1 /\ future[r] = "none")
    BY DEF AnswersOK
  <2>1. CASE r = handling
    <3>1. errors[handling] = 0 /\ future[handling] = "none"
      BY <1>1 DEF IInv, RequestsOK, Fresh
    <3> QED  BY <2>1, <3>1, <1>5
  <2>2. CASE r # handling
    BY <2>2, <1>5 DEF IInv, AnswersOK
  <2> QED  BY <2>1, <2>2
<1> QED  BY <1>6, <1>7, <1>8, <1>9, <1>10 DEF IInv

LEMMA HandleIInv == IInv /\ Handle => IInv'
<1> SUFFICES ASSUME IInv, Handle PROVE IInv'
  OBVIOUS
<1>1. CASE AnswerRequest
  <2>1. /\ handling # Idle /\ ~answered /\ asked[handling] \in Held
        /\ answered' = TRUE /\ future' = [future EXCEPT ![handling] = "pending"]
        /\ UNCHANGED <<user, missed, online, listening, monitorOn, asked, pool, handling,
                       errors, monitors, sentBlocks, uploadError, isCompleted, elsewhere,
                       notifying, peerHas, records, localIndex>>
    BY <1>1 DEF AnswerRequest, getBlock, userVars, uploadVars, peerVars
  <2>2. /\ handling \in Request /\ handling \in 1..Len(asked) /\ handling \notin pool
        /\ Fresh(handling)
    BY <2>1 DEF IInv, TypeOK, RequestsOK
  <2>3. /\ future' \in [Request -> {"none", "pending", "sent", "failed"}]
        /\ future'[handling] = "pending"
        /\ \A r \in Request : r # handling => future'[r] = future[r]
    BY <2>1, <2>2 DEF IInv, TypeOK
  <2>4. TypeOK'
    <3>1. TypeOK
      BY DEF IInv
    <3> QED  BY <2>1, <2>3, <3>1 DEF TypeOK
  <2>5. RequestsOK'
    <3>1. RequestsOK /\ asked \in Seq(Held \cup Foreign) /\ Len(asked) \in Nat
      BY DEF IInv, TypeOK
    <3>2. ASSUME NEW r \in Request, Len(asked) < r \/ r \in pool PROVE Fresh(r)'
      <4>1. r # handling /\ Fresh(r)
        BY <3>1, <3>2, <2>2 DEF RequestsOK, Request
      <4> QED  BY <4>1, <2>1, <2>3 DEF Fresh
    <3>3. errors'[handling] = 0
      BY <2>1, <2>2 DEF Fresh
    <3> QED  BY <3>1, <3>2, <3>3, <2>1 DEF RequestsOK
  <2>6. FuturesOK'
    <3>1. FuturesOK
      BY DEF IInv
    <3> SUFFICES ASSUME NEW r \in Request
                 PROVE  /\ future'[r] # "none" => r \in 1..Len(asked) /\ asked[r] \in Held
                        /\ future'[r] = "sent" => asked[r] \in peerHas
      BY <2>1 DEF FuturesOK
    <3>2. CASE r = handling  BY <3>2, <2>1, <2>2, <2>3
    <3>3. CASE r # handling  BY <3>1, <3>3, <2>3 DEF FuturesOK
    <3> QED  BY <3>2, <3>3
  <2>7. RecordsOK' /\ ProgressIsSent'
    BY <2>1 DEF IInv, RecordsOK, ProgressIsSent
  <2>8. AnswersOK'
    <3>1. AnswersOK /\ errors[handling] = 0
      BY <2>2 DEF IInv, Fresh
    <3>2. ASSUME monitorOn, NEW r \in Request
          PROVE  errors[r] = 0 \/ (errors[r] = 1 /\ future'[r] = "none")
      BY <3>1, <3>2, <2>3 DEF AnswersOK
    <3> QED  BY <3>2, <2>1 DEF AnswersOK
  <2> QED  BY <2>4, <2>5, <2>6, <2>7, <2>8 DEF IInv
<1>2. CASE RefuseRequest
  BY <1>2, ErrorIInv DEF RefuseRequest
<1>3. CASE MonitorResponse
  <2>1. CASE monitorOn
    <3>1. /\ handling \in Request /\ monitors' = monitors \cup {handling}
          /\ handling' = Idle /\ answered' = FALSE
          /\ UNCHANGED <<user, missed, online, listening, monitorOn, asked, pool, future,
                         errors, sentBlocks, uploadError, isCompleted, elsewhere, notifying,
                         peerVars, localIndex>>
      BY <1>3, <2>1 DEF MonitorResponse, IInv, TypeOK, userVars
    <3>2. TypeOK'
      BY <3>1 DEF IInv, TypeOK, peerVars
    <3>3. Idle \notin pool
      BY DEF IInv, TypeOK, Idle, Request
    <3>4. RequestsOK'
      BY <3>1, <3>3 DEF IInv, RequestsOK, Fresh
    <3>5. FuturesOK' /\ RecordsOK' /\ ProgressIsSent' /\ AnswersOK'
      BY <3>1 DEF IInv, FuturesOK, RecordsOK, ProgressIsSent, AnswersOK, peerVars
    <3> QED  BY <3>2, <3>4, <3>5 DEF IInv
  <2>2. CASE ~monitorOn
    BY <1>3, <2>2, ErrorIInv DEF MonitorResponse
  <2> QED  BY <2>1, <2>2
<1> QED  BY <1>1, <1>2, <1>3 DEF Handle

(* The sender and the monitor.                                             *)
LEMMA SendIInv == ASSUME NEW r \in Request PROVE IInv /\ SendResponse(r) => IInv'
<1> SUFFICES ASSUME IInv, SendResponse(r) PROVE IInv'
  OBVIOUS
<1>1. /\ future[r] = "pending" /\ online' \in BOOLEAN
      /\ \/ future' = [future EXCEPT ![r] = "sent"] /\ peerHas' = peerHas \cup {asked[r]}
         \/ future' = [future EXCEPT ![r] = "failed"] /\ peerHas' = peerHas
      /\ UNCHANGED <<userVars, listening, monitorOn, asked, pool, handling, answered, errors,
                     monitors, uploadVars, records, localIndex>>
  BY DEF SendResponse, IInv, TypeOK
<1>2. /\ asked[r] \in Held /\ r \in 1..Len(asked) /\ ~Fresh(r)
      /\ peerHas \subseteq Held
  BY <1>1 DEF IInv, FuturesOK, Fresh, TypeOK
<1>3. /\ future' \in [Request -> {"none", "pending", "sent", "failed"}]
      /\ peerHas \subseteq peerHas' /\ peerHas' \subseteq Held
      /\ \A q \in Request : q # r => future'[q] = future[q]
      /\ future'[r] # "none" /\ (future'[r] = "sent" => asked[r] \in peerHas')
  BY <1>1, <1>2 DEF IInv, TypeOK
<1> HIDE DEF SendResponse
<1>4. TypeOK'
  BY <1>1, <1>3 DEF IInv, TypeOK, userVars, uploadVars
<1>5. RequestsOK'
  <2>1. \A q \in Request : Fresh(q) => Fresh(q)'
    BY <1>1, <1>2, <1>3 DEF Fresh
  <2> QED  BY <2>1, <1>1 DEF IInv, TypeOK, RequestsOK
<1>6. FuturesOK'
  BY <1>1, <1>2, <1>3 DEF IInv, FuturesOK
<1>7. RecordsOK' /\ ProgressIsSent'
  BY <1>1, <1>3 DEF IInv, RecordsOK, ProgressIsSent, userVars, uploadVars
<1>8. AnswersOK'
  BY <1>1, <1>3 DEF IInv, AnswersOK
<1> QED  BY <1>4, <1>5, <1>6, <1>7, <1>8 DEF IInv

LEMMA MonitorIInv == ASSUME NEW r \in Request PROVE IInv /\ MonitorDone(r) => IInv'
<1> SUFFICES ASSUME IInv, MonitorDone(r) PROVE IInv'
  OBVIOUS
<1>1. /\ monitors' \subseteq Request /\ uploadError' \in BOOLEAN
      /\ \/ future[r] = "sent" /\ sentBlocks' = sentBlocks \cup {asked[r]}
         \/ sentBlocks' = sentBlocks
      /\ notifying' \subseteq Notifier
      /\ UNCHANGED <<user, missed, online, listening, monitorOn, requestVars, isCompleted,
                     elsewhere, peerVars, localIndex>>
  BY DEF MonitorDone, Notifier, IInv, TypeOK, userVars
<1>2. sentBlocks' \subseteq peerHas /\ peerHas \subseteq Held
  BY <1>1 DEF IInv, TypeOK, FuturesOK, ProgressIsSent
<1> HIDE DEF MonitorDone
<1>3. TypeOK'
  BY <1>1, <1>2 DEF IInv, TypeOK, requestVars, peerVars
<1>4. RequestsOK' /\ FuturesOK' /\ AnswersOK'
  BY <1>1 DEF IInv, RequestsOK, FuturesOK, AnswersOK, Fresh, requestVars, peerVars
<1>5. RecordsOK' /\ ProgressIsSent'
  BY <1>1, <1>2 DEF IInv, RecordsOK, ProgressIsSent, peerVars
<1> QED  BY <1>3, <1>4, <1>5 DEF IInv

(* A notifyAll moves the user's thread out of its wait and nothing else.   *)
LEMMA NotifyIInv == ASSUME NEW t \in Notifier PROVE IInv /\ Notify(t) => IInv'
<1> SUFFICES ASSUME IInv, Notify(t) PROVE IInv'
  OBVIOUS
<1>1. /\ notifying' \subseteq notifying
      /\ user' = user \/ user' = "woken"
      /\ UNCHANGED <<missed, online, listening, monitorOn, asked, pool, handling, answered,
                     future, errors, monitors, sentBlocks, uploadError, isCompleted,
                     elsewhere, peerHas, records, localIndex>>
  BY DEF Notify, requestVars, peerVars
<1>2. TypeOK'
  <2>1. TypeOK /\ user' \in {"push", "test", "enter", "waiting", "woken", "completed", "failed"}
    BY <1>1 DEF IInv, TypeOK
  <2> QED  BY <1>1, <2>1 DEF TypeOK
<1>3. RequestsOK' /\ AnswersOK'
  BY <1>1 DEF IInv, RequestsOK, AnswersOK, Fresh
<1>4. FuturesOK' /\ RecordsOK' /\ ProgressIsSent'
  BY <1>1 DEF IInv, FuturesOK, RecordsOK, ProgressIsSent
<1> QED  BY <1>2, <1>3, <1>4 DEF IInv

(* Records of the path: only one with the hash of this file completes the  *)
(* upload, and of the peer it says something only when the peer sent it.   *)
LEMMA PublishIInv ==
  ASSUME NEW record \in Record PROVE IInv /\ PublishRecord(record) => IInv'
<1> SUFFICES ASSUME IInv, PublishRecord(record) PROVE IInv'
  OBVIOUS
<1>1. /\ records' = records \cup {record} /\ (record = "new" => Block \subseteq peerHas)
      /\ UNCHANGED <<user, missed, online, listening, monitorOn, asked, pool, handling,
                     answered, future, errors, monitors, sentBlocks, uploadError,
                     isCompleted, elsewhere, notifying, peerHas, localIndex>>
  BY DEF PublishRecord, userVars, requestVars, uploadVars
<1>2. TypeOK'
  <2>1. TypeOK /\ records' \subseteq Record
    BY <1>1 DEF IInv, TypeOK
  <2> QED  BY <1>1, <2>1 DEF TypeOK
<1>3. RequestsOK'
  BY <1>1 DEF IInv, RequestsOK, Fresh
<1>4. FuturesOK' /\ ProgressIsSent' /\ AnswersOK'
  BY <1>1 DEF IInv, FuturesOK, ProgressIsSent, AnswersOK
<1>5. RecordsOK'
  BY <1>1 DEF IInv, RecordsOK
<1> QED  BY <1>2, <1>3, <1>4, <1>5 DEF IInv

LEMMA AquireIInv ==
  ASSUME NEW record \in Record PROVE IInv /\ AquireRecord(record) => IInv'
<1> SUFFICES ASSUME IInv, AquireRecord(record) PROVE IInv'
  OBVIOUS
<1>1. /\ record \in records /\ records' = records \ {record}
      /\ \/ /\ record \in {"new", "copy"} /\ isCompleted' = TRUE
            /\ elsewhere' = (elsewhere \/ (~isCompleted /\ record = "copy"))
         \/ isCompleted' = isCompleted /\ elsewhere' = elsewhere
      /\ notifying' \subseteq notifying \cup {<<"index", Idle>>}
      /\ UNCHANGED <<user, missed, online, listening, monitorOn, requestVars, monitors,
                     sentBlocks, uploadError, peerHas, localIndex>>
  BY DEF AquireRecord, AquireRecordIf, Completes, userVars
<1> HIDE DEF AquireRecord
<1>2. /\ isCompleted' \in BOOLEAN /\ elsewhere' \in BOOLEAN /\ notifying' \subseteq Notifier
  BY <1>1 DEF IInv, TypeOK, Notifier
<1>3. TypeOK'
  <2>1. TypeOK /\ records' \subseteq Record
    BY <1>1 DEF IInv, TypeOK
  <2> QED  BY <1>1, <1>2, <2>1 DEF TypeOK, requestVars
<1>4. RequestsOK' /\ FuturesOK' /\ AnswersOK' /\ ProgressIsSent'
  BY <1>1 DEF IInv, RequestsOK, FuturesOK, AnswersOK, ProgressIsSent, Fresh, requestVars
<1>5. RecordsOK'
  <2>1. RecordsOK /\ isCompleted \in BOOLEAN /\ elsewhere \in BOOLEAN
    BY DEF IInv, TypeOK
  <2>2. "new" \in records' => Block \subseteq peerHas
    BY <1>1, <2>1 DEF RecordsOK
  <2>3. isCompleted' => isCompleted \/ elsewhere' \/ record = "new"
    BY <1>1, Zenon
  <2>4. elsewhere => elsewhere'
    <3>1. CASE elsewhere' = elsewhere
      BY <3>1
    <3>2. CASE elsewhere' = (elsewhere \/ (~isCompleted /\ record = "copy"))
      BY <3>2
    <3> QED  BY <1>1, <3>1, <3>2
  <2>5. record = "new" => Block \subseteq peerHas
    BY <1>1, <2>1 DEF RecordsOK
  <2>6. isCompleted' => Block \subseteq peerHas \/ elsewhere'
    BY <2>1, <2>3, <2>4, <2>5 DEF RecordsOK
  <2>7. isCompleted => isCompleted'
    BY <1>1, <2>1
  <2> QED  BY <1>1, <2>1, <2>2, <2>6, <2>7 DEF RecordsOK
<1> QED  BY <1>3, <1>4, <1>5 DEF IInv

LEMMA StutterIInv == IInv /\ UNCHANGED vars => IInv'
<1> SUFFICES ASSUME IInv, UNCHANGED vars PROVE IInv'
  OBVIOUS
<1>1. /\ UNCHANGED <<user, missed, online, listening, monitorOn, localIndex>>
      /\ UNCHANGED <<requestVars, monitors, uploadVars, peerVars>>
  BY DEF vars, userVars
<1>2. /\ user \in Places /\ missed \in BOOLEAN /\ online \in BOOLEAN
      /\ listening \in BOOLEAN /\ monitorOn \in BOOLEAN /\ localIndex \in BOOLEAN
      /\ (user = "completed" => isCompleted)
  BY DEF IInv, TypeOK, RecordsOK, Places
<1> QED  BY <1>1, <1>2, QuietIInv

(* The inductive invariant of an upload: where each request is and what    *)
(* its response is, and what each record of the path says of the peer:     *)
(* only its own says that it has the file.                                 *)
THEOREM Invariance == Spec => []IInv
<1>1. IInv /\ [Next]_vars => IInv'
  BY UserIInv, AskIInv, TakeIInv, HandleIInv, SendIInv, MonitorIInv, PublishIInv, AquireIInv,
     NotifyIInv, StutterIInv DEF Next
<1> QED  BY InitIInv, <1>1, PTL DEF Spec

(* The variables keep their types; in particular the progress counts only  *)
(* ranges of the file, its blocks or others, whatever hashes the peer asks *)
(* for, and the peer is given nothing else.                                *)
THEOREM TypeCorrect == Spec => []TypeOK
BY Invariance, PTL DEF IInv

(* An upload that ended well is held by the peer, whatever the peer asked  *)
(* for, whatever records with other contents arrived and whenever the      *)
(* connection was lost; or the record of another device completed it.      *)
THEOREM UploadIsHeld == Spec => []UploadedIsHeld
<1>1. IInv => UploadedIsHeld
  BY DEF IInv, RecordsOK, UploadedIsHeld
<1> QED  BY Invariance, <1>1, PTL

(* Until an upload is closed, no request is answered twice.                *)
THEOREM AnsweredOnce == Spec => []OneResponse
<1>1. IInv => OneResponse
  BY DEF IInv, TypeOK, AnswersOK, OneResponse
<1> QED  BY Invariance, <1>1, PTL

(* The progress of an upload counts ranges that were sent to the peer.     *)
THEOREM ProgressIsTrue == Spec => []ProgressIsSent
BY Invariance, PTL DEF IInv

(***************************************************************************)
(* Sequencer: types.                                                       *)
(***************************************************************************)
LEMMA NoRowType == NoRow \in Row /\ NoRow.id = 0
BY DEF NoRow, Row

LEMMA InitTypeOK == SequencerInit => SequencerTypeOK
<1> SUFFICES ASSUME SequencerInit PROVE SequencerTypeOK
  OBVIOUS
<1>1. loaded = <<NoRow>> /\ loaded \in Seq(Row) /\ Len(loaded) = 1 /\ row \in Row
      /\ announced \in Row
  BY NoRowType DEF SequencerInit
<1>2. taken = <<>> /\ taken \in Seq(Row) /\ crossed = {}
  BY DEF SequencerInit
<1>3. /\ sequencer = 1 /\ oldest = 1 /\ announcing \in [object : Nat, id : Nat]
      /\ upload \in [Upload -> Nat] /\ \A u \in Upload : upload[u] = 0
      /\ version \in BOOLEAN /\ inits \in Nat /\ stops \in Nat /\ making = "check"
  BY DEF SequencerInit, NotAnnouncing
<1> QED  BY <1>1, <1>2, <1>3 DEF SequencerTypeOK

LEMMA NewObjectType ==
  ASSUME SequencerTypeOK, NewObject
  PROVE  /\ loaded' \in Seq(Row) /\ Len(loaded') = sequencer' /\ sequencer' = sequencer + 1
         /\ loaded'[sequencer'] = NoRow /\ \A o \in 1..sequencer : loaded'[o] = loaded[o]
<1>1. loaded \in Seq(Row) /\ Len(loaded) = sequencer /\ NoRow \in Row
  BY NoRowType DEF SequencerTypeOK
<1>2. loaded' = Append(loaded, NoRow) /\ sequencer' = sequencer + 1
  BY DEF NewObject
<1> HIDE DEF NoRow
<1> QED  BY <1>1, <1>2, AppendProperties

LEMMA TablesTypeOK ==
  ASSUME SequencerTypeOK,
         CheckDb \/ ClearIndex \/ MakeTables \/ ReplaceSequencer \/ ClearFails \/ Stop
  PROVE  SequencerTypeOK'
<1>1. CASE CheckDb \/ ClearIndex \/ ClearFails
  <2>1. /\ making' \in {"idle", "start", "clear"}
        /\ UNCHANGED <<dbVars, stops, objectVars, upload, announceVars, historyVars>>
    BY <1>1 DEF CheckDb, ClearIndex, ClearFails
  <2> QED  BY <2>1 DEF SequencerTypeOK, Objects, dbVars, objectVars, announceVars, historyVars
<1>2. CASE DropTables
  BY <1>2, NoRowType DEF DropTables, SequencerTypeOK, Objects, objectVars, announceVars,
     historyVars
<1>3. CASE InsertRow
  <2>1. row' \in Row /\ inits' \in Nat
    BY <1>3, SequencerAssumption DEF InsertRow, Row, SequencerTypeOK
  <2> QED  BY <1>3, <2>1 DEF InsertRow, SequencerTypeOK, Objects, objectVars, announceVars,
              historyVars
<1>4. CASE InsertVersion
  BY <1>4 DEF InsertVersion, SequencerTypeOK, Objects, objectVars, announceVars, historyVars
<1>5. CASE ReplaceSequencer
  <2>1. NewObject /\ making' = "idle"
        /\ UNCHANGED <<dbVars, stops, oldest, upload, announceVars, historyVars>>
    BY <1>5 DEF ReplaceSequencer
  <2>2. oldest \in 1..sequencer' /\ oldest..sequencer \subseteq oldest..sequencer'
        /\ sequencer' \in Nat \ {0}
    BY <2>1, NewObjectType DEF SequencerTypeOK
  <2> QED  BY <2>1, <2>2, NewObjectType DEF SequencerTypeOK, Objects, dbVars, announceVars,
              historyVars
<1>6. CASE Stop
  <2>1. NewObject /\ oldest' = sequencer + 1 /\ stops' \in Nat /\ making' = "check"
        /\ upload' = [u \in Upload |-> 0] /\ announcing' = NotAnnouncing
        /\ UNCHANGED <<dbVars, announced, historyVars>>
    BY <1>6 DEF Stop, SequencerTypeOK
  <2>2. oldest' \in 1..sequencer' /\ sequencer' \in Nat \ {0}
    BY <2>1, NewObjectType DEF SequencerTypeOK
  <2> QED  BY <2>1, <2>2, NewObjectType DEF SequencerTypeOK, NotAnnouncing, dbVars, historyVars
<1> QED  BY <1>1, <1>2, <1>3, <1>4, <1>5, <1>6 DEF MakeTables

LEMMA NextSequenceEffect ==
  ASSUME SequencerTypeOK, NEW u \in Upload, NextSequence(u)
  PROVE  /\ upload[u] \in Objects /\ upload[u] \in 1..sequencer
         /\ loaded' \in Seq(Row) /\ Len(loaded') = sequencer
         /\ loaded'[upload[u]].id = loaded[upload[u]].id
         /\ loaded'[upload[u]].sequence = loaded[upload[u]].sequence + 1
         /\ \A o \in 1..sequencer : o # upload[u] => loaded'[o] = loaded[o]
         /\ row'.id = row.id /\ row'.sequence = loaded[upload[u]].sequence + 1
         /\ loaded[upload[u]] \in Row /\ loaded'[upload[u]] \in Row /\ row' \in Row
         /\ taken' = Append(taken, loaded'[upload[u]])
<1> DEFINE o == upload[u]
<1>1. o \in Objects /\ o \in 1..sequencer
  BY DEF NextSequence, SequencerTypeOK, Objects
<1>2. loaded[o] \in Row /\ loaded \in Seq(Row) /\ Len(loaded) = sequencer /\ row \in Row
  BY <1>1 DEF SequencerTypeOK
<1>3. /\ loaded' = [loaded EXCEPT ![o].sequence = @ + 1]
      /\ row' = [row EXCEPT !.sequence = loaded[o].sequence + 1]
      /\ taken' = Append(taken, loaded'[o])
  BY DEF NextSequence, Count
<1> DEFINE r == [id |-> loaded[o].id, sequence |-> loaded[o].sequence + 1]
<1>4. r \in Row /\ r = [loaded[o] EXCEPT !.sequence = @ + 1]
  <2> DEFINE q == loaded[o]
  <2>1. q \in Row
    BY <1>2
  <2> HIDE DEF q
  <2>2. q.id \in Nat /\ q.sequence + 1 \in Nat
        /\ [q EXCEPT !.sequence = @ + 1] = [id |-> q.id, sequence |-> q.sequence + 1]
    BY <2>1 DEF Row
  <2> QED  BY <2>2 DEF q, Row
<1>5. loaded' = [loaded EXCEPT ![o] = r]
  BY <1>3, <1>4
<1>6. row' = [id |-> row.id, sequence |-> loaded[o].sequence + 1] /\ row' \in Row
  <2>1. row.id \in Nat /\ loaded[o].sequence + 1 \in Nat
        /\ row = [id |-> row.id, sequence |-> row.sequence]
    BY <1>2 DEF Row
  <2> DEFINE n == loaded[o].sequence + 1
  <2>2. row' = [row EXCEPT !.sequence = n] /\ n \in Nat
    BY <1>3, <2>1
  <2> HIDE DEF o, n
  <2>3. row' = [id |-> row.id, sequence |-> n]
    BY <2>1, <2>2
  <2>4. row' \in Row
    BY <2>1, <2>2, <2>3 DEF Row
  <2> QED  BY <2>3, <2>4 DEF n
<1>7. r.id = loaded[o].id /\ r.sequence = loaded[o].sequence + 1
      /\ row'.id = row.id /\ row'.sequence = loaded[o].sequence + 1
  BY <1>6
<1> HIDE DEF r
<1>8. loaded' \in Seq(Row) /\ Len(loaded') = sequencer /\ loaded'[o] = r
      /\ \A p \in 1..sequencer : p # o => loaded'[p] = loaded[p]
  BY <1>1, <1>2, <1>4, <1>5
<1> QED  BY <1>1, <1>2, <1>3, <1>4, <1>6, <1>7, <1>8

LEMMA ThreadsTypeOK ==
  ASSUME SequencerTypeOK,
         \/ \E o \in Objects : LoadFromDb(o) \/ ReadSequence(o)
         \/ \E u \in Upload : GetSequencer(u) \/ NextSequence(u) \/ UploadFails(u)
         \/ ReadIndexId \/ AnnounceFails
  PROVE  SequencerTypeOK'
<1>1. CASE \E o \in Objects : LoadFromDb(o)
  <2>1. PICK o \in Objects : LoadFromDb(o)
    BY <1>1
  <2>2. loaded' \in Seq(Row) /\ Len(loaded') = sequencer
    BY <2>1 DEF LoadFromDb, SequencerTypeOK, Objects
  <2> QED  BY <2>1, <2>2 DEF LoadFromDb, SequencerTypeOK, Objects, dbVars, announceVars,
              historyVars
<1>2. CASE \E o \in Objects : ReadSequence(o)
  <2>1. PICK o \in Objects : ReadSequence(o)
    BY <1>2
  <2>2. loaded[o] \in Row
    BY DEF SequencerTypeOK, Objects
  <2>3. announced' \in Row /\ announcing' \in [object : Nat, id : Nat]
    BY <2>1, <2>2 DEF ReadSequence, SequencerTypeOK, Row, NotAnnouncing
  <2> QED  BY <2>1, <2>3 DEF ReadSequence, SequencerTypeOK, Objects, dbVars, objectVars,
              historyVars
<1>3. CASE \E u \in Upload : GetSequencer(u) \/ UploadFails(u)
  <2>1. PICK u \in Upload : GetSequencer(u) \/ UploadFails(u)
    BY <1>3
  <2>2. PICK o \in {0} \cup Objects : upload' = [upload EXCEPT ![u] = o]
    BY <2>1 DEF GetSequencer, UploadFails
  <2>3. UNCHANGED <<dbVars, stops, making, objectVars, announceVars, historyVars>>
    BY <2>1 DEF GetSequencer, UploadFails
  <2>4. o \in Nat
    BY DEF Objects, SequencerTypeOK
  <2> QED  BY <2>2, <2>3, <2>4 DEF SequencerTypeOK, Objects, dbVars, objectVars, announceVars,
              historyVars
<1>4. CASE \E u \in Upload : NextSequence(u)
  <2>1. PICK u \in Upload : NextSequence(u)
    BY <1>4
  <2>2. taken' \in Seq(Row)
    <3>1. loaded'[upload[u]] \in Row /\ taken' = Append(taken, loaded'[upload[u]])
      BY <2>1, NextSequenceEffect
    <3> QED  BY <3>1, AppendProperties DEF SequencerTypeOK
  <2>3. crossed' \subseteq Nat
    <3>1. upload[u] \in 1..sequencer
      BY <2>1, NextSequenceEffect
    <3>2. loaded[upload[u]] \in Row /\ row \in Row
      BY <3>1 DEF SequencerTypeOK
    <3>3. loaded[upload[u]].id \in Nat /\ row.id \in Nat
      BY <3>2 DEF Row
    <3>4. crossed' \in {crossed, crossed \cup {loaded[upload[u]].id, row.id}}
      BY <2>1 DEF NextSequence
    <3> QED  BY <3>3, <3>4 DEF SequencerTypeOK
  <2>4. /\ upload' = [upload EXCEPT ![u] = 0]
        /\ UNCHANGED <<version, inits, stops, making, sequencer, oldest, announceVars>>
    BY <2>1 DEF NextSequence
  <2> QED  BY <2>1, <2>2, <2>3, <2>4, NextSequenceEffect DEF SequencerTypeOK, Objects,
              announceVars
<1>5. CASE ReadIndexId
  <2>1. PICK o \in Objects : announcing' = [object |-> o, id |-> loaded[o].id]
    BY <1>5 DEF ReadIndexId
  <2>2. o \in Nat /\ loaded[o].id \in Nat
    <3>1. o \in 1..sequencer
      BY DEF SequencerTypeOK, Objects
    <3>2. loaded[o] \in Row
      BY <3>1 DEF SequencerTypeOK
    <3> QED  BY <3>1, <3>2 DEF SequencerTypeOK, Row
  <2> QED  BY <1>5, <2>1, <2>2 DEF ReadIndexId, SequencerTypeOK, Objects, dbVars, objectVars,
              historyVars
<1>6. CASE AnnounceFails
  BY <1>6 DEF AnnounceFails, NotAnnouncing, SequencerTypeOK, Objects, dbVars, objectVars,
     historyVars
<1> QED  BY <1>1, <1>2, <1>3, <1>4, <1>5, <1>6

LEMMA StutterTypeOK == SequencerTypeOK /\ UNCHANGED sequencerVars => SequencerTypeOK'
BY DEF SequencerTypeOK, Objects, sequencerVars, dbVars, objectVars, announceVars, historyVars

(* The variables keep their types.                                         *)
THEOREM SequencerTypeCorrect == SequencerSpec => []SequencerTypeOK
<1>1. SequencerTypeOK /\ SequencerNext => SequencerTypeOK'
  BY TablesTypeOK, ThreadsTypeOK DEF SequencerNext
<1> QED  BY InitTypeOK, <1>1, StutterTypeOK, PTL DEF SequencerSpec

(***************************************************************************)
(* Numbers.  Of an index id that nobody counted with an obsolete object,   *)
(* the numbers taken are at most the one in the row, and at most the one   *)
(* in the memory of the object in use; an id is not used again.            *)
(***************************************************************************)
Covered(r) ==
  r # NoRow /\ r.id \notin crossed
    => \A i \in 1..Len(taken) : taken[i].id = r.id => taken[i].sequence <= r.sequence

OldIds ==
  /\ row.id <= inits
  /\ \A o \in 1..sequencer : loaded[o].id <= inits
  /\ \A i \in 1..Len(taken) : taken[i].id <= inits

(* The id of a ClusterConfig in the making is that of its object.          *)
AnnouncingOK ==
  announcing # NotAnnouncing =>
    /\ announcing.object \in 1..sequencer
    /\ loaded[announcing.object] # NoRow
    /\ announcing.id = loaded[announcing.object].id

NumbersInv ==
  /\ Covered(row) /\ Covered(loaded[sequencer])
  /\ OldIds /\ AnnouncingOK /\ SequencesGrow

LEMMA InitNumbersInv == SequencerInit => NumbersInv
<1> SUFFICES ASSUME SequencerInit PROVE NumbersInv
  OBVIOUS
<1>1. row = NoRow /\ sequencer = 1 /\ loaded = <<NoRow>> /\ loaded[1] = NoRow
      /\ taken = <<>> /\ Len(taken) = 0 /\ inits = 0 /\ announcing = NotAnnouncing
  BY DEF SequencerInit
<1> QED  BY <1>1, NoRowType DEF NumbersInv, Covered, OldIds, AnnouncingOK, SequencesGrow

(* The tables.                                                             *)
LEMMA TablesNumbersInv ==
  ASSUME SequencerTypeOK, NumbersInv,
         CheckDb \/ ClearIndex \/ MakeTables \/ ReplaceSequencer \/ ClearFails \/ Stop
  PROVE  NumbersInv'
<1>0. taken' = taken /\ crossed' = crossed
  BY DEF CheckDb, ClearIndex, MakeTables, DropTables, InsertRow, InsertVersion, ReplaceSequencer,
     ClearFails, Stop, historyVars
<1>1. SequencesGrow'
  BY <1>0 DEF NumbersInv, SequencesGrow
<1>2. CASE CheckDb \/ ClearIndex \/ InsertVersion \/ ClearFails
  <2>1. UNCHANGED <<row, inits, objectVars, announcing>>
    BY <1>2 DEF CheckDb, ClearIndex, InsertVersion, ClearFails, dbVars, announceVars
  <2> QED  BY <1>0, <1>1, <2>1 DEF NumbersInv, Covered, OldIds, AnnouncingOK, objectVars
<1>3. CASE DropTables
  <2>1. row' = NoRow /\ UNCHANGED <<inits, objectVars, announcing>>
    BY <1>3 DEF DropTables, announceVars
  <2>2. row'.id <= inits
    BY <2>1, NoRowType DEF SequencerTypeOK
  <2> QED  BY <1>0, <1>1, <2>1, <2>2 DEF NumbersInv, Covered, OldIds, AnnouncingOK, objectVars
<1>4. CASE InsertRow
  <2>1. row'.id = inits + 1 /\ inits' = inits + 1 /\ UNCHANGED <<objectVars, announcing>>
    BY <1>4 DEF InsertRow, announceVars
  <2>2. inits \in Nat /\ \A i \in 1..Len(taken) : taken[i].id \in Nat
    <3>1. \A i \in 1..Len(taken) : taken[i] \in Row
      BY DEF SequencerTypeOK
    <3> QED  BY <3>1 DEF SequencerTypeOK, Row
  <2>3. Covered(row)'
    BY <1>0, <2>1, <2>2 DEF Covered, NumbersInv, OldIds
  <2>4. \A o \in 1..sequencer : loaded[o].id \in Nat
    <3>1. \A o \in 1..sequencer : loaded[o] \in Row
      BY DEF SequencerTypeOK
    <3> QED  BY <3>1 DEF Row
  <2>5. OldIds'
    BY <1>0, <2>1, <2>2, <2>4 DEF NumbersInv, OldIds, objectVars
  <2> QED  BY <1>0, <1>1, <2>1, <2>3, <2>5 DEF NumbersInv, Covered, AnnouncingOK, objectVars
<1>5. CASE ReplaceSequencer \/ Stop
  <2>1. NewObject /\ UNCHANGED <<row, inits>>
        /\ announcing' \in {announcing, NotAnnouncing}
    BY <1>5 DEF ReplaceSequencer, Stop, dbVars, announceVars
  <2>2. /\ sequencer' = sequencer + 1 /\ sequencer \in Nat /\ loaded'[sequencer'] = NoRow
        /\ \A o \in 1..sequencer : loaded'[o] = loaded[o] /\ o \in 1..sequencer'
        /\ \A o \in 1..sequencer' : o \in 1..sequencer \/ o = sequencer'
    BY <2>1, NewObjectType DEF SequencerTypeOK
  <2>3. OldIds'
    <3>1. loaded'[sequencer'].id <= inits
      BY <2>2, NoRowType DEF SequencerTypeOK
    <3> QED  BY <1>0, <2>1, <2>2, <3>1 DEF NumbersInv, OldIds
  <2>4. AnnouncingOK'
    BY <2>1, <2>2 DEF NumbersInv, AnnouncingOK
  <2>5. Covered(row)' /\ Covered(loaded[sequencer])'
    BY <1>0, <2>1, <2>2 DEF NumbersInv, Covered
  <2> QED  BY <1>1, <2>3, <2>4, <2>5 DEF NumbersInv
<1> QED  BY <1>2, <1>3, <1>4, <1>5 DEF MakeTables

(* A number is taken.                                                      *)
LEMMA CountNumbersInv ==
  ASSUME SequencerTypeOK, NumbersInv, NEW u \in Upload, NextSequence(u)
  PROVE  NumbersInv'
<1> DEFINE o == upload[u]
           n == Len(taken) + 1
           r == loaded'[o]
<1>0. loaded[o] # NoRow /\ row # NoRow /\ row \in Row
  BY DEF NextSequence, SequencerTypeOK
<1>1. /\ o \in 1..sequencer /\ loaded[o] \in Row
      /\ r.id = loaded[o].id /\ r.sequence = loaded[o].sequence + 1
      /\ \A p \in 1..sequencer : p # o => loaded'[p] = loaded[p]
      /\ row'.id = row.id /\ row'.sequence = loaded[o].sequence + 1
      /\ taken' = Append(taken, r) /\ r \in Row /\ row' \in Row
  BY NextSequenceEffect
<1>2. taken \in Seq(Row) /\ \A i \in 1..Len(taken) : taken[i] \in Row
  BY DEF SequencerTypeOK
<1>3. Len(taken') = n /\ taken'[n] = r /\ \A i \in 1..Len(taken) : taken'[i] = taken[i]
  BY <1>1, <1>2, AppendProperties
<1>4. /\ inits' = inits /\ sequencer' = sequencer /\ announcing' = announcing
      /\ crossed' = IF o = sequencer /\ loaded[o].id = row.id THEN crossed
                    ELSE crossed \cup {loaded[o].id, row.id}
  BY DEF NextSequence, announceVars
<1>5. Len(taken) \in Nat /\ \A i \in 1..n : i \in 1..Len(taken) \/ i = n
  BY <1>2
<1>6. loaded[o].sequence \in Nat /\ loaded[o].id \in Nat
      /\ \A i \in 1..Len(taken) : taken[i].sequence \in Nat
  BY <1>1, <1>2 DEF Row
<1>t. sequencer \in Nat \ {0} /\ sequencer \in 1..sequencer
  BY DEF SequencerTypeOK
<1>r. r = loaded'[o]
  OBVIOUS
<1> HIDE DEF o, n, r
<1>7. ASSUME loaded[o].id \notin crossed'
      PROVE  /\ o = sequencer /\ loaded[o].id = row.id
             /\ \A i \in 1..Len(taken) :
                  taken[i].id = loaded[o].id => taken[i].sequence <= loaded[o].sequence
  <2>1. o = sequencer /\ loaded[o].id = row.id /\ crossed' = crossed
    BY <1>4, <1>7
  <2> QED  BY <1>0, <1>1, <1>7, <2>1 DEF NumbersInv, Covered
<1>8. SequencesGrow'
  <2> SUFFICES ASSUME NEW i \in 1..n, NEW j \in 1..n, i < j, taken'[i].id = taken'[j].id,
                      taken'[i].id \notin crossed'
               PROVE  taken'[i].sequence < taken'[j].sequence
    BY <1>3 DEF SequencesGrow
  <2>1. i \in 1..Len(taken) /\ taken'[i] = taken[i] /\ crossed \subseteq crossed'
    BY <1>3, <1>4, <1>5 DEF n
  <2>2. CASE j \in 1..Len(taken)
    BY <1>3, <2>1, <2>2 DEF NumbersInv, SequencesGrow
  <2>3. CASE j = n
    <3>1. taken'[j] = r /\ loaded[o].id \notin crossed' /\ taken[i].id = loaded[o].id
      BY <1>1, <1>3, <2>1, <2>3
    <3>2. taken[i].sequence <= loaded[o].sequence
      BY <1>7, <2>1, <3>1
    <3> QED  BY <1>1, <1>6, <2>1, <3>1, <3>2
  <2> QED  BY <1>5, <2>2, <2>3
<1>9. ASSUME NEW q, q \in {row', loaded'[sequencer]}, q # NoRow, q.id \notin crossed',
             NEW i \in 1..n, taken'[i].id = q.id
      PROVE  taken'[i].sequence <= q.sequence
  <2>1. CASE loaded[o].id \notin crossed' /\ q.id = loaded[o].id
    <3>1. o = sequencer /\ q.sequence = loaded[o].sequence + 1
      BY <1>1, <1>7, <1>9, <1>r, <2>1
    <3>2. CASE i = n
      BY <1>1, <1>3, <1>6, <3>1, <3>2
    <3>3. CASE i \in 1..Len(taken)
      <4>1. taken[i].sequence <= loaded[o].sequence /\ taken'[i] = taken[i]
        BY <1>3, <1>7, <1>9, <2>1, <3>3
      <4> QED  BY <1>6, <3>1, <3>3, <4>1
    <3> QED  BY <1>5, <3>2, <3>3
  <2>2. CASE ~(loaded[o].id \notin crossed' /\ q.id = loaded[o].id)
    <3>1. q.id # loaded[o].id
      BY <1>9, <2>2
    <3>2. q # row' /\ o # sequencer /\ q = loaded[sequencer] /\ crossed \subseteq crossed'
      <4>1. q # row' /\ o # sequencer
        BY <1>1, <1>4, <1>9, <1>r, <3>1
      <4>2. loaded'[sequencer] = loaded[sequencer]
        BY <1>1, <1>t, <4>1
      <4> QED  BY <1>4, <1>9, <4>1, <4>2
    <3>3. i \in 1..Len(taken) /\ taken'[i] = taken[i]
      BY <1>1, <1>3, <1>5, <1>9, <3>1
    <3> QED  BY <1>9, <3>2, <3>3 DEF NumbersInv, Covered
  <2> QED  BY <2>1, <2>2
<1>10. Covered(row)' /\ Covered(loaded[sequencer])'
  BY <1>3, <1>4, <1>9 DEF Covered
<1>11. OldIds'
  <2>1. row'.id <= inits
    BY <1>1 DEF NumbersInv, OldIds
  <2>2. \A p \in 1..sequencer : loaded'[p].id <= inits
    BY <1>1, <1>r DEF NumbersInv, OldIds
  <2>3. r.id <= inits
    BY <1>1 DEF NumbersInv, OldIds
  <2>4. \A i \in 1..n : taken'[i].id <= inits
    BY <1>3, <1>5, <2>3 DEF NumbersInv, OldIds
  <2> QED  BY <1>3, <1>4, <2>1, <2>2, <2>4 DEF OldIds
<1>12. AnnouncingOK'
  <2>1. loaded'[o] # NoRow
    <3>1. NoRow.sequence = 0 /\ loaded'[o].sequence = loaded[o].sequence + 1
      BY <1>1, <1>r DEF NoRow
    <3> QED  BY <1>6, <3>1
  <2> QED  BY <1>1, <1>4, <1>r, <2>1 DEF NumbersInv, AnnouncingOK
<1> QED  BY <1>8, <1>10, <1>11, <1>12 DEF NumbersInv

(* The other steps of the threads.                                         *)
LEMMA ThreadsNumbersInv ==
  ASSUME SequencerTypeOK, NumbersInv,
         \/ \E o \in Objects : LoadFromDb(o) \/ ReadSequence(o)
         \/ \E u \in Upload : GetSequencer(u) \/ UploadFails(u)
         \/ ReadIndexId \/ AnnounceFails
  PROVE  NumbersInv'
<1>0. taken' = taken /\ crossed' = crossed /\ row' = row /\ inits' = inits
      /\ sequencer' = sequencer
  BY DEF LoadFromDb, ReadSequence, GetSequencer, UploadFails, ReadIndexId, AnnounceFails,
     dbVars, objectVars, historyVars
<1>1. SequencesGrow' /\ Covered(row)'
  BY <1>0 DEF NumbersInv, SequencesGrow, Covered
<1>2. CASE \E o \in Objects : LoadFromDb(o)
  <2>1. PICK o \in Objects : LoadFromDb(o)
    BY <1>2
  <2>2. o \in 1..sequencer
    BY DEF Objects, SequencerTypeOK
  <2>3. /\ loaded[o] = NoRow /\ row # NoRow /\ loaded'[o] = row /\ announcing' = announcing
        /\ \A p \in 1..sequencer : p # o => loaded'[p] = loaded[p]
    BY <2>1, <2>2 DEF LoadFromDb, SequencerTypeOK, announceVars
  <2>4. sequencer \in 1..sequencer
    BY DEF SequencerTypeOK
  <2>5. Covered(loaded[sequencer])'
    <3>1. CASE o = sequencer
      BY <1>0, <2>3, <3>1 DEF NumbersInv, Covered
    <3>2. CASE o # sequencer
      BY <1>0, <2>3, <2>4, <3>2 DEF NumbersInv, Covered
    <3> QED  BY <3>1, <3>2
  <2>6. OldIds'
    BY <1>0, <2>3 DEF NumbersInv, OldIds
  <2>7. AnnouncingOK'
    BY <1>0, <2>3 DEF NumbersInv, AnnouncingOK
  <2> QED  BY <1>1, <2>5, <2>6, <2>7 DEF NumbersInv
<1>3. CASE \/ \E u \in Upload : GetSequencer(u) \/ UploadFails(u)
           \/ AnnounceFails \/ \E o \in Objects : ReadSequence(o)
  <2>1. loaded' = loaded /\ announcing' \in {announcing, NotAnnouncing}
    BY <1>3 DEF GetSequencer, UploadFails, AnnounceFails, ReadSequence, objectVars, announceVars
  <2> QED  BY <1>0, <1>1, <2>1 DEF NumbersInv, Covered, OldIds, AnnouncingOK
<1>4. CASE ReadIndexId
  <2>1. PICK o \in Objects : loaded[o] # NoRow /\ announcing' = [object |-> o, id |-> loaded[o].id]
    BY <1>4 DEF ReadIndexId
  <2>2. loaded' = loaded /\ o \in 1..sequencer
    BY <1>4 DEF ReadIndexId, objectVars, Objects, SequencerTypeOK
  <2>3. AnnouncingOK'
    BY <1>0, <2>1, <2>2 DEF AnnouncingOK
  <2> QED  BY <1>0, <1>1, <2>2, <2>3 DEF NumbersInv, Covered, OldIds
<1> QED  BY <1>2, <1>3, <1>4

LEMMA NextNumbersInv ==
  ASSUME SequencerTypeOK, NumbersInv, [SequencerNext]_sequencerVars
  PROVE  NumbersInv'
<1>1. CASE UNCHANGED sequencerVars
  BY <1>1 DEF NumbersInv, Covered, OldIds, AnnouncingOK, SequencesGrow, sequencerVars, dbVars,
     objectVars,
     announceVars, historyVars
<1> QED  BY <1>1, TablesNumbersInv, CountNumbersInv, ThreadsNumbersInv DEF SequencerNext

LEMMA AlwaysNumbersInv == SequencerSpec => []NumbersInv
<1>1. SequencerTypeOK /\ NumbersInv /\ [SequencerNext]_sequencerVars => NumbersInv'
  BY NextNumbersInv
<1> QED  BY SequencerTypeCorrect, InitNumbersInv, <1>1, PTL DEF SequencerSpec

(* The numbers taken under an index id grow, across restarts and however   *)
(* clearIndex runs beside the uploads, unless one counted with an object   *)
(* that clearIndex had replaced or made obsolete.                          *)
THEOREM NumbersGrow == SequencerSpec => []SequencesGrow
<1>1. NumbersInv => SequencesGrow
  BY DEF NumbersInv
<1> QED  BY AlwaysNumbersInv, <1>1, PTL

(* The max sequence of a ClusterConfig, read in a second call from the     *)
(* object in use, covers every number taken under the index id beside it.  *)
THEOREM AnnouncementCovers == SequencerSpec => AnnouncedCovers
<1> DEFINE Step ==
      ReadSequence(sequencer) /\ announcing.object = sequencer /\ announcing.id \notin crossed
        => \A i \in 1..Len(taken) :
             taken[i].id = announcing.id => taken[i].sequence <= announced'.sequence
<1>1. ASSUME NumbersInv PROVE Step
  <2> SUFFICES ASSUME ReadSequence(sequencer), announcing.object = sequencer,
                      announcing.id \notin crossed,
                      NEW i \in 1..Len(taken), taken[i].id = announcing.id
               PROVE  taken[i].sequence <= announced'.sequence
    OBVIOUS
  <2>1. announced'.sequence = loaded[sequencer].sequence /\ loaded[sequencer] # NoRow
        /\ announcing # NotAnnouncing
    BY DEF ReadSequence
  <2>2. announcing.id = loaded[sequencer].id
    BY <1>1, <2>1 DEF NumbersInv, AnnouncingOK
  <2> QED  BY <1>1, <2>1, <2>2 DEF NumbersInv, Covered
<1>2. NumbersInv => [Step]_sequencerVars
  BY <1>1
<1>3. SequencerSpec => [][Step]_sequencerVars
  BY AlwaysNumbersInv, <1>2, PTL
<1> QED  BY <1>3 DEF AnnouncedCovers
=============================================================================
