----------------------------- MODULE BlockPull -----------------------------
(***************************************************************************)
(* BlockPuller: the download of the blocks of one file over a connection.  *)
(* pullBlocks takes what the block cache has and sends a request for every *)
(* other block; responses are handled in threads of the message pool, in   *)
(* any order; client threads wait in waitForComplete and read the result.  *)
(* A block is its hash; a request is the index of its block in the file.   *)
(* The peer and the block cache are as the code sees them: any answer, any *)
(* cached subset (a cached block is only used when its hash matches).      *)
(***************************************************************************)
EXTENDS Naturals, Sequences, FiniteSets

CONSTANTS
  Hash,            \* hashes of the data a peer may send
  HashList,        \* hashes of the blocks of the file, in order
  Waiter,          \* threads that wait for the download
  CloseConnection, \* closeConnection: close() closes the connection too
  None             \* no block

ASSUME BlockPullAssumption ==
  /\ HashList \in Seq(Hash)
  /\ CloseConnection \in BOOLEAN
  /\ None \notin Hash

VARIABLES
  phase,        \* of the download: idle, pulling, closed or failed
  missing,      \* missingHashes
  blocks,       \* keys of blocksByHash
  moving,       \* the block that a listener holding the lock moves, or None
  inFlight,     \* requests whose response was not handled yet
  error,        \* error.get() # null
  online,       \* the connection is open
  pc,           \* where each waiting thread is
  misanswered   \* history: a response without error had another block's data

vars == <<phase, missing, blocks, moving, inFlight, error, online, pc, misanswered>>

Request == DOMAIN HashList
FileHashes == {HashList[i] : i \in Request}

Init ==
  /\ phase = "idle"
  /\ missing = {} /\ blocks = {} /\ moving = None
  /\ inFlight = {}
  /\ error = FALSE /\ online = TRUE
  /\ pc = [w \in Waiter |-> "idle"]
  /\ misanswered = FALSE

(* Requests for the missing blocks: one per block of the file, so two for  *)
(* a hash that occurs twice.                                               *)
RequestsCounted(hashes) ==
  {i \in Request : HashList[i] \in hashes /\ i <= Cardinality(hashes)}
Requests(hashes) == {i \in Request : HashList[i] \in hashes}

(* pullBlocks, under the lock that the listener needs, takes what the      *)
(* block cache has and requests the rest, ...                              *)
PullBlocksKeepMissing(cached) ==
  /\ phase = "idle"
  /\ online \/ cached = FileHashes
  /\ phase' = "pulling"
  /\ missing' = FileHashes
  /\ blocks' = cached
  /\ inFlight' = Requests(FileHashes \ cached)
  /\ UNCHANGED <<moving, error, online, pc, misanswered>>
PullBlocks(cached) ==
  /\ phase = "idle"
  /\ online \/ cached = FileHashes
  /\ phase' = "pulling"
  /\ missing' = FileHashes \ cached
  /\ blocks' = cached
  /\ inFlight' = Requests(FileHashes \ cached)
  /\ UNCHANGED <<moving, error, online, pc, misanswered>>

(* ... or fails in sendMessage, on a connection that is closed by then,    *)
(* after any number of requests: the observer is closed, not returned.     *)
PullFails ==
  /\ phase = "idle" /\ FileHashes # {}
  /\ phase' = "failed" /\ online' = FALSE
  /\ UNCHANGED <<missing, blocks, moving, inFlight, error, pc, misanswered>>

LockFree == moving = None

(* lock.notify(): one of the threads in lock.wait().                       *)
NotifyNobody == UNCHANGED pc
Notify ==
  IF \E w \in Waiter : pc[w] = "waiting"
  THEN \E w \in Waiter :
         /\ pc[w] = "waiting"
         /\ pc' = [pc EXCEPT ![w] = "notified"]
  ELSE UNCHANGED pc

(* handleResponseMessageReceivedEvent, data with hash h: the code does not *)
(* compare h with the block requested.  A response dispatched before       *)
(* close() unregisters the listener may be handled after it.               *)
TakeResponse(i) ==
  /\ phase \in {"pulling", "closed"} /\ LockFree
  /\ i \in inFlight
  /\ inFlight' = inFlight \ {i}

HandleResponse(i, h) ==
  /\ TakeResponse(i)
  /\ misanswered' = (misanswered \/ h # HashList[i])
  /\ IF h \in missing
     THEN missing' = missing \ {h} /\ moving' = h
     ELSE UNCHANGED <<missing, moving>>          \* "received not-needed block"
  /\ UNCHANGED <<phase, blocks, error, online, pc>>

(* The second half of the listener: threads that do not take the lock may  *)
(* run between missingHashes.remove and blocksByHash.put.                  *)
StoreBlock ==
  /\ moving # None
  /\ blocks' = blocks \cup {moving}
  /\ moving' = None
  /\ Notify
  /\ UNCHANGED <<phase, missing, inFlight, error, online, misanswered>>

(* An error response.                                                      *)
HandleError(i) ==
  /\ TakeResponse(i)
  /\ error' = TRUE
  /\ Notify
  /\ UNCHANGED <<phase, missing, blocks, moving, online, misanswered>>

(* The connection is closed: no listener reacts to ConnectionClosedEvent.  *)
(* Responses already in the message pool are still handled.                *)
Disconnect(arrived) ==
  /\ online
  /\ online' = FALSE
  /\ inFlight' = inFlight \cap arrived
  /\ UNCHANGED <<phase, missing, blocks, moving, error, pc, misanswered>>

(* close() of the observer, by any thread, without the lock.               *)
Close ==
  /\ phase = "pulling"
  /\ phase' = "closed"
  /\ missing' = {} /\ blocks' = {}
  /\ online' = (online /\ ~CloseConnection)
  /\ UNCHANGED <<moving, inFlight, error, pc, misanswered>>

(***************************************************************************)
(* waitForComplete and getInputStream.                                     *)
(***************************************************************************)
isCompleted == missing = {}

Goto(w, label) == pc' = [pc EXCEPT ![w] = label]

Data == <<phase, missing, blocks, moving, inFlight, error, online, misanswered>>

WaitForComplete(w) ==
  /\ phase \in {"pulling", "closed"} /\ pc[w] = "idle"
  /\ Goto(w, "test")
  /\ UNCHANGED Data

(* The test is made without the lock, ...                                  *)
Test(w) ==
  /\ pc[w] = "test"
  /\ Goto(w, IF isCompleted THEN "complete" ELSE "enter")
  /\ UNCHANGED Data

(* ... and not repeated with it: checkError, then lock.wait().             *)
Enter(w) ==
  /\ pc[w] = "enter" /\ LockFree
  /\ Goto(w, IF error THEN "thrown" ELSE "waiting")
  /\ UNCHANGED Data

WakeUp(w) ==
  /\ pc[w] = "notified" /\ LockFree
  /\ Goto(w, IF error THEN "thrown" ELSE "test")
  /\ UNCHANGED Data

(* getInputStream: every hash of hashList, empty after close(), is looked  *)
(* up in blocksByHash.                                                     *)
GetInputStream(w) ==
  /\ pc[w] = "complete"
  /\ Goto(w, IF ~isCompleted THEN "thrown"
             ELSE IF phase = "closed" THEN "emptyStream"
             ELSE IF FileHashes \subseteq blocks THEN "stream" ELSE "brokenStream")
  /\ UNCHANGED Data

Next ==
  \/ \E cached \in SUBSET FileHashes : PullBlocks(cached)
  \/ PullFails
  \/ \E i \in Request, h \in Hash : HandleResponse(i, h)
  \/ \E i \in Request : HandleError(i)
  \/ StoreBlock
  \/ \E arrived \in SUBSET Request : Disconnect(arrived)
  \/ Close
  \/ \E w \in Waiter : \/ WaitForComplete(w) \/ Test(w) \/ Enter(w) \/ WakeUp(w)
                       \/ GetInputStream(w)

Spec == Init /\ [][Next]_vars

(* The peer answers, the threads of the pool and the waiting threads run.  *)
Fairness ==
  /\ WF_vars(\E i \in Request : HandleError(i) \/ \E h \in Hash : HandleResponse(i, h))
  /\ WF_vars(StoreBlock)
  /\ \A w \in Waiter : WF_vars(Test(w) \/ Enter(w) \/ WakeUp(w) \/ GetInputStream(w))

FairSpec == Spec /\ Fairness

(***************************************************************************)
(* Properties.                                                             *)
(***************************************************************************)

(* The variables keep their types.                                         *)
TypeOK ==
  /\ phase \in {"idle", "pulling", "closed", "failed"}
  /\ missing \subseteq FileHashes
  /\ blocks \subseteq FileHashes
  /\ moving \in FileHashes \cup {None}
  /\ inFlight \subseteq Request
  /\ error \in BOOLEAN /\ online \in BOOLEAN /\ misanswered \in BOOLEAN
  /\ pc \in [Waiter -> {"idle", "test", "enter", "waiting", "notified", "thrown",
                        "complete", "stream", "emptyStream", "brokenStream"}]

(* While a file is pulled each of its blocks is missing, being moved or    *)
(* present, and in one of these states only.                               *)
BlocksPartitioned ==
  phase = "pulling" =>
    /\ missing \cup blocks \cup ({moving} \ {None}) = FileHashes
    /\ missing \cap blocks = {}
    /\ moving \notin missing \cup blocks

(* No missing block is forgotten: its request is still to be answered, or  *)
(* the connection was lost, or the peer answered a request with an error   *)
(* or with other data.  Repeated blocks and out-of-order responses do not  *)
(* break this.                                                             *)
MissingIsRequested ==
  phase = "pulling" /\ online /\ ~error /\ ~misanswered =>
    \A h \in missing : \E i \in inFlight : HashList[i] = h

(* A thread that is asleep while blocks are missing is woken by the next   *)
(* block or by an error, as long as the peer answers what it is asked.     *)
SleeperWoken ==
  \A w \in Waiter :
    pc[w] = "waiting" /\ missing # {} ~> \/ pc[w] # "waiting" \/ misanswered
                                         \/ ~online \/ phase = "closed"
=============================================================================
