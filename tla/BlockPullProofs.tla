-------------------------- MODULE BlockPullProofs --------------------------
(***************************************************************************)
(* Theorems about BlockPull, for every file, with any repetitions, any     *)
(* number of waiting threads and any answers of the peer: the blocks of a  *)
(* file that is pulled are partitioned, and a missing one is requested.    *)
(***************************************************************************)
EXTENDS BlockPull, TLAPS

(* Before pullBlocks nothing is held and nothing was asked for.            *)
IdleOK == phase = "idle" => moving = None /\ inFlight = {}

IInv == TypeOK /\ IdleOK /\ BlocksPartitioned /\ MissingIsRequested

LEMMA FileHashesOK == FileHashes \subseteq Hash /\ None \notin FileHashes
<1>1. \A i \in DOMAIN HashList : HashList[i] \in Hash
  BY BlockPullAssumption
<1> QED  BY <1>1, BlockPullAssumption DEF FileHashes, Request

LEMMA InitIInv == Init => IInv
BY DEF Init, IInv, TypeOK, IdleOK, BlocksPartitioned, MissingIsRequested

(* The listener and close() only wake threads, or leave them alone.        *)
LEMMA NotifyOK ==
  ASSUME TypeOK, Notify \/ UNCHANGED pc
  PROVE  pc' \in [Waiter -> {"idle", "test", "enter", "waiting", "notified", "thrown",
                             "complete", "stream", "emptyStream", "brokenStream"}]
BY DEF TypeOK, Notify

LEMMA PullIInv ==
  ASSUME IInv, NEW cached \in SUBSET FileHashes, PullBlocks(cached)
  PROVE  IInv'
<1>1. TypeOK'
  BY DEF PullBlocks, IInv, TypeOK, Requests
<1>2. moving' = None
  BY DEF PullBlocks, IInv, IdleOK
<1>3. BlocksPartitioned'
  BY <1>2, FileHashesOK DEF PullBlocks, BlocksPartitioned
<1>4. MissingIsRequested'
  BY DEF PullBlocks, MissingIsRequested, Requests, FileHashes
<1>5. IdleOK'
  BY DEF PullBlocks, IdleOK
<1> QED  BY <1>1, <1>3, <1>4, <1>5 DEF IInv

(* A response takes one request, and the block of its data, if missing:    *)
(* a request remains for every other missing block.                        *)
LEMMA ResponseIInv ==
  ASSUME IInv, NEW i \in Request, NEW h \in Hash, HandleResponse(i, h)
  PROVE  IInv'
<1>1. /\ phase' = phase /\ phase # "idle" /\ moving = None /\ i \in inFlight
      /\ inFlight' = inFlight \ {i} /\ misanswered' = (misanswered \/ h # HashList[i])
      /\ UNCHANGED <<blocks, error, online, pc>>
  BY DEF HandleResponse, TakeResponse, LockFree
<1>2. \/ h \in missing /\ missing' = missing \ {h} /\ moving' = h
      \/ h \notin missing /\ missing' = missing /\ moving' = None
  BY <1>1 DEF HandleResponse
<1>3. TypeOK'
  BY <1>1, <1>2 DEF IInv, TypeOK
<1>4. BlocksPartitioned'
  BY <1>1, <1>2, FileHashesOK DEF IInv, TypeOK, BlocksPartitioned
<1>5. MissingIsRequested'
  <2> SUFFICES ASSUME phase' = "pulling", online', ~error', ~misanswered', NEW g \in missing'
               PROVE  \E j \in inFlight' : HashList[j] = g
    BY DEF MissingIsRequested
  <2>1. HashList[i] = h /\ ~misanswered /\ phase = "pulling" /\ online /\ ~error
    BY <1>1
  <2>2. g \in missing /\ g # h
    BY <1>2
  <2>3. PICK j \in inFlight : HashList[j] = g
    BY <2>1, <2>2 DEF IInv, MissingIsRequested
  <2> QED  BY <1>1, <2>1, <2>2, <2>3
<1>6. IdleOK'
  BY <1>1 DEF IdleOK
<1> QED  BY <1>3, <1>4, <1>5, <1>6 DEF IInv

LEMMA StoreIInv == ASSUME IInv, StoreBlock PROVE IInv'
<1>1. /\ moving # None /\ blocks' = blocks \cup {moving} /\ moving' = None
      /\ UNCHANGED <<phase, missing, inFlight, error, online, misanswered>>
  BY DEF StoreBlock
<1>2. TypeOK'
  <2>1. TypeOK /\ (Notify \/ UNCHANGED pc)
    BY DEF IInv, StoreBlock
  <2> QED  BY <1>1, <2>1, NotifyOK DEF TypeOK
<1>3. BlocksPartitioned'
  BY <1>1, FileHashesOK DEF IInv, TypeOK, BlocksPartitioned
<1>4. MissingIsRequested' /\ IdleOK'
  BY <1>1 DEF IInv, MissingIsRequested, IdleOK
<1> QED  BY <1>2, <1>3, <1>4 DEF IInv

LEMMA ErrorIInv ==
  ASSUME IInv, NEW i \in Request, HandleError(i)
  PROVE  IInv'
<1>1. /\ phase # "idle" /\ inFlight' = inFlight \ {i} /\ error' = TRUE
      /\ UNCHANGED <<phase, missing, blocks, moving, online, misanswered>>
  BY DEF HandleError, TakeResponse
<1>2. TypeOK'
  <2>1. TypeOK /\ (Notify \/ UNCHANGED pc)
    BY DEF IInv, HandleError
  <2> QED  BY <1>1, <2>1, NotifyOK DEF TypeOK
<1>3. BlocksPartitioned' /\ MissingIsRequested' /\ IdleOK'
  BY <1>1 DEF IInv, BlocksPartitioned, MissingIsRequested, IdleOK
<1> QED  BY <1>2, <1>3 DEF IInv

(* The download fails, is closed, or loses its connection.                 *)
LEMMA EndIInv ==
  ASSUME IInv, PullFails \/ Close \/ \E arrived \in SUBSET Request : Disconnect(arrived)
  PROVE  IInv'
<1>1. CASE PullFails
  BY <1>1 DEF PullFails, IInv, TypeOK, IdleOK, BlocksPartitioned, MissingIsRequested
<1>2. CASE Close
  BY <1>2 DEF Close, IInv, TypeOK, IdleOK, BlocksPartitioned, MissingIsRequested
<1>3. CASE \E arrived \in SUBSET Request : Disconnect(arrived)
  <2>1. PICK arrived \in SUBSET Request : Disconnect(arrived)
    BY <1>3
  <2> QED
    BY <2>1 DEF Disconnect, IInv, TypeOK, IdleOK, BlocksPartitioned, MissingIsRequested
<1> QED  BY <1>1, <1>2, <1>3

(* A waiting thread changes nothing but where it is.                       *)
LEMMA WaiterIInv ==
  ASSUME IInv, NEW w \in Waiter,
         WaitForComplete(w) \/ Test(w) \/ Enter(w) \/ WakeUp(w) \/ GetInputStream(w)
  PROVE  IInv'
<1>1. UNCHANGED <<phase, missing, blocks, moving, inFlight, error, online, misanswered>>
  BY DEF WaitForComplete, Test, Enter, WakeUp, GetInputStream, Data
<1>2. \E label \in {"test", "enter", "waiting", "thrown", "complete", "stream",
                    "emptyStream", "brokenStream"} : pc' = [pc EXCEPT ![w] = label]
  BY DEF WaitForComplete, Test, Enter, WakeUp, GetInputStream, Goto
<1>3. TypeOK'
  BY <1>1, <1>2 DEF IInv, TypeOK
<1> QED  BY <1>1, <1>3 DEF IInv, IdleOK, BlocksPartitioned, MissingIsRequested

(* The inductive invariant of a download.                                  *)
THEOREM Invariance == Spec => []IInv
<1>1. IInv /\ Next => IInv'
  BY PullIInv, ResponseIInv, StoreIInv, ErrorIInv, EndIInv, WaiterIInv DEF Next
<1>2. IInv /\ UNCHANGED vars => IInv'
  BY DEF vars, IInv, TypeOK, IdleOK, BlocksPartitioned, MissingIsRequested
<1> QED  BY InitIInv, <1>1, <1>2, PTL DEF Spec

(* While a file is pulled each of its blocks is missing, on its way from   *)
(* missingHashes to blocksByHash, or present, and in one state only.       *)
THEOREM Partitioned == Spec => []BlocksPartitioned
BY Invariance, PTL DEF IInv

(* No missing block is forgotten: pullBlocks asked for it and the answer   *)
(* is still to come, unless the peer failed or gave other data.            *)
THEOREM NoneForgotten == Spec => []MissingIsRequested
BY Invariance, PTL DEF IInv
=============================================================================
