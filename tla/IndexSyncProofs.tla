-------------------------- MODULE IndexSyncProofs --------------------------
(***************************************************************************)
(* Proofs about IndexSync for every value of its constants: the types, the *)
(* completeness of the delta index, from the inductive invariant IInv, the *)
(* stored times of the records, and the sequences that are not forgotten.  *)
(***************************************************************************)
EXTENDS IndexSync, TLAPS

USE DEF peerVars, taskVars, dbVars, waitVars, historyVars

(* Queues of tasks and the messages in them.                               *)
LEMMA TailMessages ==
  ASSUME NEW q \in Seq(Task), q # <<>>
  PROVE  /\ Tail(q) \in Seq(Task) /\ q[1] \in Task /\ q[1].msg \in Message
         /\ MessagesOf(q) = {q[1].msg} \cup MessagesOf(Tail(q))
<1>1. Tail(q) \in Seq(Task) /\ q[1] \in Task /\ Len(q) \in Nat \ {0}
      /\ Len(Tail(q)) = Len(q) - 1
      /\ \A i \in 1..Len(Tail(q)) : Tail(q)[i] = q[i + 1]
  OBVIOUS
<1>2. ASSUME NEW i \in 1..Len(q), i # 1 PROVE q[i].msg \in MessagesOf(Tail(q))
  <2>1. i - 1 \in 1..Len(Tail(q)) /\ Tail(q)[i - 1] = q[i]
    BY <1>1, <1>2
  <2>2. QED BY <2>1 DEF MessagesOf
<1>3. ASSUME NEW i \in 1..Len(Tail(q)) PROVE Tail(q)[i].msg \in MessagesOf(q)
  <2>1. i + 1 \in 1..Len(q) /\ Tail(q)[i] = q[i + 1]
    BY <1>1, <1>3
  <2>2. QED BY <2>1 DEF MessagesOf
<1>4. q[1].msg \in Message
  BY <1>1 DEF Task
<1>5. q[1].msg \in MessagesOf(q)
  BY <1>1 DEF MessagesOf
<1>6. MessagesOf(q) \subseteq {q[1].msg} \cup MessagesOf(Tail(q))
  BY <1>2 DEF MessagesOf
<1>7. MessagesOf(Tail(q)) \subseteq MessagesOf(q)
  BY <1>3 DEF MessagesOf
<1>8. QED BY <1>1, <1>4, <1>5, <1>6, <1>7

LEMMA AppendMessages ==
  ASSUME NEW q \in Seq(Task), NEW e \in Task
  PROVE  /\ Append(q, e) \in Seq(Task)
         /\ q # <<>> => Append(q, e)[1] = q[1]
         /\ Append(q, e) # <<>>
         /\ MessagesOf(Append(q, e)) = MessagesOf(q) \cup {e.msg}
<1> DEFINE n == Len(q)
<1>1. Append(q, e) \in Seq(Task) /\ Len(Append(q, e)) = n + 1 /\ n \in Nat
      /\ Append(q, e)[n + 1] = e
      /\ \A i \in 1..n : Append(q, e)[i] = q[i]
  OBVIOUS
<1>2. 1..(n + 1) = 1..n \cup {n + 1}
  BY <1>1
<1>3. MessagesOf(Append(q, e)) = MessagesOf(q) \cup {e.msg}
  BY <1>1, <1>2 DEF MessagesOf
<1>4. q # <<>> => Append(q, e)[1] = q[1]
  OBVIOUS
<1>5. Append(q, e) # <<>>
  <2>1. Len(<<>>) = 0
    OBVIOUS
  <2>2. QED BY <1>1, <2>1
<1>6. QED BY <1>1, <1>3, <1>4, <1>5

LEMMA MessagesType ==
  ASSUME NEW q \in Seq(Task)
  PROVE  MessagesOf(q) \subseteq Message
<1>1. \A i \in 1..Len(q) : q[i] \in Task
  OBVIOUS
<1>2. QED BY <1>1 DEF MessagesOf, Task

LEMMA RecordsType ==
  ASSUME NEW m \in Message
  PROVE  RecordsOf(m) \subseteq RecordId
BY ConstantsAssumption DEF RecordsOf, RecordAt, RecordId, Message, IndexOf

(* What the helpers on IndexInfo return.                                   *)
LEMMA WithAnnouncedType ==
  ASSUME NEW i \in IndexInfo \cup {NoInfo}, NEW id \in Index, NEW n \in Nat
  PROVE  WithAnnounced(i, id, n) \in IndexInfo
BY DEF WithAnnounced, IndexInfo

LEMMA WithAnnouncedKeeps ==
  ASSUME NEW i \in IndexInfo, i # NoInfo, NEW id \in Index, NEW n \in Nat
  PROVE  WithAnnounced(i, id, n).local = i.local
BY DEF WithAnnounced, IndexInfo

LEMMA DeltaStartType ==
  ASSUME NEW i \in IndexInfo \cup {NoInfo}, NEW id \in Index
  PROVE  DeltaStart(i, id) \in Nat
BY DEF DeltaStart, IndexInfo

LEMMA WithLocalType ==
  ASSUME NEW i \in IndexInfo, NEW l \in Nat \cup {-1}
  PROVE  WithLocal(i, l) \in IndexInfo
BY DEF WithLocal, IndexInfo

(* The processor's task, when it has one.                                  *)
LEMMA TaskType ==
  ASSUME TypeOK, QueueOK, stage # "idle"
  PROVE  /\ queue # <<>> /\ Head1 \in Message /\ Head1 \in Queued
         /\ Tail(queue) \in Seq(Task)
         /\ Queued = {Head1} \cup MessagesOf(Tail(queue))
         /\ Head1.hi <= Len(Log[IndexOf(Head1.conn)][Head1.folder])
         /\ pos \in Head1.lo..Head1.hi
         /\ Head1.lo \in Nat /\ Head1.hi \in Nat
<1>1. queue \in Seq(Task) /\ queue # <<>>
  BY DEF TypeOK, QueueOK
<1>2. Head1 \in Message /\ Tail(queue) \in Seq(Task)
      /\ Queued = {Head1} \cup MessagesOf(Tail(queue))
  BY <1>1, TailMessages DEF Head1, Queued
<1>3. QED BY <1>1, <1>2 DEF QueueOK, Message

(* The record at the processor's position is one of its log.               *)
LEMMA NextRecord ==
  ASSUME TypeOK, QueueOK, stage = "records", pos < Head1.hi
  PROVE  LET r == RecordAt(Head1, pos + 1)
         IN  r \in RecordId /\ r \in RecordsOf(Head1) /\ Record(r) \in LogRecord
<1> DEFINE r == RecordAt(Head1, pos + 1)
<1>1. Head1 \in Message /\ pos + 1 \in (Head1.lo + 1)..Head1.hi
      /\ pos + 1 \in 1..Len(Log[IndexOf(Head1.conn)][Head1.folder])
  BY TaskType, ConstantsAssumption DEF Message, IndexOf
<1>2. r \in RecordsOf(Head1)
  BY <1>1 DEF RecordsOf
<1>3. r \in RecordId
  BY <1>1, <1>2, RecordsType
<1>4. Log[IndexOf(Head1.conn)][Head1.folder] \in Seq(LogRecord)
  BY <1>1, ConstantsAssumption DEF Message, IndexOf
<1>5. Log[IndexOf(Head1.conn)][Head1.folder][pos + 1] \in LogRecord
  BY <1>1, <1>4
<1>6. Record(r) \in LogRecord
  BY <1>5 DEF Record, RecordAt
<1>7. QED BY <1>2, <1>3, <1>6

(* One step keeps the types; those of the processor need QueueOK.          *)
LEMMA TypeStep ==
  ASSUME TypeOK, QueueOK, [Next]_vars
  PROVE  TypeOK'
<1>1. ASSUME NEW c \in Conn, Connect(c) PROVE TypeOK'
  <2>1. DeviceOf[c] \in Device /\ IndexOf(c) \in Index
    BY ConstantsAssumption DEF IndexOf
  <2>2. \A f \in Folder : DeltaStart(info[DeviceOf[c]][f], IndexOf(c)) \in Nat
    BY <2>1, DeltaStartType DEF TypeOK
  <2>3. QED BY <1>1, <2>2 DEF Connect, TypeOK
<1>2. ASSUME NEW c \in Conn, PublishClusterConfig(c) PROVE TypeOK'
  BY <1>2 DEF PublishClusterConfig, TypeOK
<1>3. ASSUME NEW c \in Conn, NEW f \in Folder, PutFolderInfo(c, f) PROVE TypeOK'
  BY <1>3 DEF PutFolderInfo, TypeOK
<1>4. ASSUME NEW c \in Conn, HandleClusterConfig(c) PROVE TypeOK'
  <2>1. ASSUME NEW d \in Device, NEW f \in Folder, Announced[c][d][f] # -1
        PROVE  WithAnnounced(info[d][f], IndexSeen[c][d], Announced[c][d][f]) \in IndexInfo
    <3>1. IndexSeen[c][d] \in Index /\ Announced[c][d][f] \in Nat
      BY <2>1, ConstantsAssumption
    <3>2. info[d][f] \in IndexInfo \cup {NoInfo}
      BY DEF TypeOK
    <3>3. QED BY <3>1, <3>2, WithAnnouncedType
  <2>2. info' \in [Device -> [Folder -> IndexInfo \cup {NoInfo}]]
    BY <1>4, <2>1 DEF HandleClusterConfig, TypeOK
  <2>3. QED BY <1>4, <2>2 DEF HandleClusterConfig, TypeOK
<1>5. ASSUME NEW c \in Conn, NEW f \in Folder,
             NEW hi \in 0..Len(Log[IndexOf(c)][f]), ReceiveIndex(c, f, hi)
      PROVE  TypeOK'
  <2>1. hi \in Nat
    BY ConstantsAssumption DEF IndexOf
  <2>2. [conn |-> c, folder |-> f,
         lo |-> IF sent[c][f] = -1 THEN start[c][f] ELSE sent[c][f],
         hi |-> hi] \in Message
    BY <2>1 DEF TypeOK, Message
  <2>3. sent' \in [Conn -> [Folder -> Nat \cup {-1}]]
    BY <1>5, <2>1 DEF ReceiveIndex, TypeOK
  <2>4. pool' \subseteq Message
    BY <1>5, <2>2 DEF ReceiveIndex, TypeOK
  <2>5. quiet' \in [Conn -> BOOLEAN]
    BY <1>5 DEF ReceiveIndex, TypeOK
  <2>6. QED BY <1>5, <2>3, <2>4, <2>5 DEF ReceiveIndex, TypeOK
<1>6. ASSUME NEW m \in pool, NEW stored \in BOOLEAN, HandleIndexMessage(m, stored)
      PROVE  TypeOK'
  <2>1. m \in Message /\ RecordsOf(m) \subseteq RecordId
    BY RecordsType DEF TypeOK
  <2>2. Append(queue, [msg |-> m, cc |-> conn[m.conn] # "connected"]) \in Seq(Task)
    BY <2>1, AppendMessages DEF TypeOK, Task
  <2>3. /\ queue' \in Seq(Task) /\ pool' \subseteq Message
        /\ lost' \subseteq RecordId /\ failed' \subseteq Message
    <3>1. /\ \/ queue' = queue
             \/ queue' = Append(queue, [msg |-> m, cc |-> conn[m.conn] # "connected"])
          /\ lost' = lost \/ lost' = lost \cup RecordsOf(m)
          /\ failed' = failed \/ failed' = failed \cup {m}
          /\ pool' = pool \ {m}
      BY <1>6 DEF HandleIndexMessage
    <3>2. QED BY <2>1, <2>2, <3>1 DEF TypeOK
  <2>4. quiet' \in [Conn -> BOOLEAN]
    BY <1>6 DEF HandleIndexMessage
  <2>5. UNCHANGED <<peerVars, stage, pos, dbVars, waiter, handled, resets>>
    BY <1>6 DEF HandleIndexMessage
  <2>6. QED BY <2>3, <2>4, <2>5 DEF TypeOK
<1>7. ASSUME NEW stored \in BOOLEAN, BeginTask(stored) PROVE TypeOK'
  <2>1. Tail(queue) \in Seq(Task) /\ Head1 \in Message
    BY <1>7, TailMessages DEF TypeOK, BeginTask, Head1
  <2>2. RecordsOf(Head1) \subseteq RecordId /\ Head1.lo \in Nat
    BY <2>1, RecordsType DEF Message
  <2>3. QED BY <1>7, <2>1, <2>2 DEF BeginTask, TypeOK
<1>8. CASE PushRecord
  <2> DEFINE r == RecordAt(Head1, pos + 1)
  <2>1. r \in RecordId /\ Record(r) \in LogRecord
    BY <1>8, NextRecord DEF PushRecord
  <2>2. CASE Record(r).valid
    <3>1. r.folder \in Folder /\ Record(r).path \in Path /\ Record(r).modified \in Nat
      BY <2>1 DEF RecordId, LogRecord
    <3>2. AddRecord(r.folder, Record(r).path, Record(r).modified)
      BY <1>8, <2>2 DEF PushRecord
    <3>3. handled' \subseteq RecordId /\ lost' \subseteq RecordId
      BY <1>8, <2>1, <2>2 DEF PushRecord, TypeOK
    <3>4. store' \in [Folder -> [Path -> Nat]]
      <4> HIDE DEF r
      <4>1. QED BY <3>1, <3>2 DEF AddRecord, TypeOK
    <3>5. QED BY <1>8, <3>3, <3>4 DEF PushRecord, TypeOK
  <2>3. CASE ~Record(r).valid
    BY <1>8, <2>1, <2>3 DEF PushRecord, TypeOK
  <2>4. QED BY <2>2, <2>3
<1>9. CASE UpdateSequence
  <2> DEFINE d == DeviceOf[Head1.conn]
             sequence == IF Head1.hi > Head1.lo THEN Head1.hi ELSE -1
  <2>1. Head1 \in Message /\ Tail(queue) \in Seq(Task) /\ sequence \in Nat \cup {-1}
    BY <1>9, TaskType DEF UpdateSequence
  <2>2. d \in Device /\ Head1.folder \in Folder /\ IndexOf(Head1.conn) \in Index
    BY <2>1, ConstantsAssumption DEF Message, IndexOf
  <2>3. info[d][Head1.folder] \in IndexInfo \cup {NoInfo}
    BY <2>2 DEF TypeOK
  <2>4. IndexIdKnown(d, Head1.folder) =>
          WithLocal(info[d][Head1.folder], sequence) \in IndexInfo
    BY <2>1, <2>2, <2>3, WithLocalType DEF IndexIdKnown
  <2>5. info' \in [Device -> [Folder -> IndexInfo \cup {NoInfo}]]
    <3>1. CASE IndexIdKnown(d, Head1.folder)
      <4>1. info' = [info EXCEPT ![d][Head1.folder] = WithLocal(@, sequence)]
        BY <1>9, <3>1 DEF UpdateSequence
      <4> HIDE DEF d, sequence
      <4>2. QED BY <2>2, <2>4, <3>1, <4>1 DEF TypeOK
    <3>2. CASE ~IndexIdKnown(d, Head1.folder)
      BY <1>9, <3>2 DEF UpdateSequence, TypeOK
    <3>3. QED BY <3>1, <3>2
  <2>6. failed' \subseteq Message
    BY <1>9, <2>1 DEF UpdateSequence, FailTask, TypeOK
  <2>7. queue' \in Seq(Task) /\ stage' \in {"idle", "records", "notify"} /\ pos' \in Nat
    <3>1. EndTask \/ (stage' = "notify" /\ UNCHANGED <<queue, pos>>)
      BY <1>9 DEF UpdateSequence, FailTask
    <3>2. queue \in Seq(Task) /\ pos \in Nat
      BY DEF TypeOK
    <3>3. CASE EndTask
      BY <2>1, <3>3 DEF EndTask
    <3>4. CASE stage' = "notify" /\ UNCHANGED <<queue, pos>>
      BY <3>2, <3>4
    <3>5. QED BY <3>1, <3>3, <3>4
  <2>8. UNCHANGED <<peerVars, pool, store, tempOk, waitVars, handled, lost, resets>>
    BY <1>9 DEF UpdateSequence
  <2>9. QED BY <2>5, <2>6, <2>7, <2>8 DEF TypeOK
<1>10. CASE NotifyWaiters
  <2>1. Tail(queue) \in Seq(Task)
    BY <1>10, TaskType DEF NotifyWaiters
  <2>2. quiet' \in [Conn -> BOOLEAN]
        /\ waiter' \in [Conn -> {"idle", "waiting", "notified", "done", "failed"}]
    BY <1>10 DEF NotifyWaiters, TypeOK
  <2>3. QED BY <1>10, <2>1, <2>2 DEF NotifyWaiters, EndTask, TypeOK
<1>11. ASSUME NEW c \in Conn, StartWaiting(c) \/ WakeUp(c) \/ Timeout(c) PROVE TypeOK'
  <2>1. isRemoteIndexAquired(c) \in BOOLEAN
    BY DEF isRemoteIndexAquired
  <2>2. TestCondition(c) => /\ quiet' \in [Conn -> BOOLEAN]
                           /\ waiter' \in [Conn -> {"idle", "waiting", "notified", "done", "failed"}]
    BY <2>1 DEF TestCondition, TypeOK
  <2>3. QED BY <1>11, <2>2 DEF StartWaiting, WakeUp, Timeout, TypeOK
<1>12. CASE ClearIndex
  <2>1. resets' \in 0..MaxResets
    BY <1>12, ConstantsAssumption DEF ClearIndex, TypeOK
  <2>2. QED BY <1>12, <2>1 DEF ClearIndex, TypeOK
<1>13. CASE Restart
  <2>1. Queued \subseteq Message
    BY MessagesType DEF TypeOK, Queued
  <2>2. UNION {RecordsOf(m) : m \in pool \cup Queued} \subseteq RecordId
    BY <2>1, RecordsType DEF TypeOK
  <2>3. resets' \in 0..MaxResets
    BY <1>13, ConstantsAssumption DEF Restart, TypeOK
  <2>4. queue' \in Seq(Task) /\ failed' \subseteq Message /\ lost' \subseteq RecordId
    BY <1>13, <2>1, <2>2 DEF Restart, TypeOK
  <2>5. conn' \in [Conn -> {"new", "connected", "filling", "recorded", "ended"}]
    BY <1>13 DEF Restart, TypeOK
  <2>6. QED BY <1>13, <2>3, <2>4, <2>5 DEF Restart, TypeOK
<1>14. CASE UNCHANGED vars
  BY <1>14 DEF vars, TypeOK
<1>15. QED BY <1>1, <1>2, <1>3, <1>4, <1>5, <1>6, <1>7, <1>8, <1>9, <1>10,
             <1>11, <1>12, <1>13, <1>14 DEF Next

(***************************************************************************)
(* Every step keeps the records that are accounted for, and with them what *)
(* is covered.                                                             *)
(***************************************************************************)
LEMMA CoveredMonotone ==
  ASSUME NEW x, NEW f, NEW n, Accounted \subseteq Accounted', Covered(x, f, n)
  PROVE  Covered(x, f, n)'
BY DEF Covered

LEMMA CoveredLower ==
  ASSUME NEW x, NEW f, NEW n \in Int, NEW k \in Int, k <= n, Covered(x, f, n)
  PROVE  Covered(x, f, k)
<1>1. \A i \in 1..k : i \in 1..n
  OBVIOUS
<1>2. QED BY <1>1 DEF Covered

(* A step that only moves waiting threads or the ClusterConfig exchange.   *)
LEMMA SameStep ==
  ASSUME IInv, TypeOK',
         UNCHANGED <<start, sent, taskVars, info, handled, lost>>
  PROVE  IInv'
<1>1. Queued' = Queued /\ Accounted' = Accounted
  BY DEF Queued, Accounted
<1>2. QueueOK'
  BY <1>1 DEF IInv, QueueOK, Head1
<1>3. SequencesCovered'
  BY <1>1 DEF IInv, SequencesCovered, Covered
<1>4. QED BY <1>2, <1>3 DEF IInv
(* A task leaves the queue: its records are in handled or lost by then.    *)
LEMMA TailAccounted ==
  ASSUME TypeOK, queue # <<>>, queue' = Tail(queue), pool' = pool,
         RecordsOf(Head1) \subseteq handled' \cup lost',
         handled \subseteq handled', lost \subseteq lost'
  PROVE  /\ Queued' \subseteq Queued
         /\ Accounted \subseteq Accounted'
<1>1. Queued = {Head1} \cup MessagesOf(Tail(queue))
  BY TailMessages DEF TypeOK, Queued, Head1
<1>2. Queued' = MessagesOf(Tail(queue))
  BY DEF Queued
<1>3. ASSUME NEW m \in pool \cup Queued
      PROVE  RecordsOf(m) \subseteq Accounted'
  <2>1. CASE m = Head1
    BY <2>1 DEF Accounted
  <2>2. CASE m # Head1
    <3>1. m \in (pool \cup Queued)'
      BY <1>1, <1>2, <1>3, <2>2
    <3>2. RecordsOf(m)' = RecordsOf(m)
      BY DEF RecordsOf, RecordAt
    <3>3. QED BY <3>1, <3>2 DEF Accounted
  <2>3. QED BY <2>1, <2>2
<1>4. handled \cup lost \subseteq Accounted'
  BY DEF Accounted
<1>5. QED BY <1>1, <1>2, <1>3, <1>4 DEF Accounted

(* When every sequence number was covered before, or is one that was, it   *)
(* is enough that nothing accounted for is forgotten.                      *)
LEMMA CoveredStep ==
  ASSUME SequencesCovered, Accounted \subseteq Accounted', sent' = sent,
         (pool \cup Queued)' \subseteq pool \cup Queued,
         \A c \in Conn, f \in Folder : SingleIndex(DeviceOf[c]) =>
           /\ Covered(IndexOf(c), f, start'[c][f])
           /\ info'[DeviceOf[c]][f] # NoInfo =>
                Covered(IndexOf(c), f, info'[DeviceOf[c]][f].local)
  PROVE  SequencesCovered'
<1> SUFFICES ASSUME NEW c \in Conn, NEW f \in Folder, SingleIndex(DeviceOf[c])
             PROVE  /\ Covered(IndexOf(c), f, start[c][f])'
                    /\ Covered(IndexOf(c), f, sent[c][f])'
                    /\ info'[DeviceOf[c]][f] # NoInfo =>
                         Covered(IndexOf(c), f, info[DeviceOf[c]][f].local)'
                    /\ \A m \in (pool \cup Queued)' :
                         m.conn = c /\ m.folder = f => Covered(IndexOf(c), f, m.hi)'
  BY DEF SequencesCovered, SingleIndex, IndexOf
<1>1. \A n : Covered(IndexOf(c), f, n) =>
         \A i \in 1..n : [index |-> IndexOf(c), folder |-> f, seq |-> i] \in Accounted'
  BY DEF Covered
<1>2. Covered(IndexOf(c), f, start[c][f])' /\ Covered(IndexOf(c), f, sent[c][f])'
  BY <1>1 DEF SequencesCovered, Covered, IndexOf
<1>3. info'[DeviceOf[c]][f] # NoInfo =>
        Covered(IndexOf(c), f, info[DeviceOf[c]][f].local)'
  BY <1>1 DEF Covered, IndexOf
<1>4. ASSUME NEW m \in (pool \cup Queued)', m.conn = c, m.folder = f
      PROVE  Covered(IndexOf(c), f, m.hi)'
  BY <1>1, <1>4 DEF SequencesCovered, Covered, IndexOf
<1>5. QED BY <1>2, <1>3, <1>4

(* The records of a task that the processor has gone through.              *)
LEMMA TaskDone ==
  ASSUME TypeOK, QueueOK, stage # "idle", pos = Head1.hi
  PROVE  RecordsOf(Head1) \subseteq handled \cup lost
BY DEF QueueOK, RecordsOf

(***************************************************************************)
(* IInv is inductive, action by action.                                    *)
(***************************************************************************)
LEMMA ConnectStep ==
  ASSUME IInv, TypeOK', NEW c \in Conn, Connect(c)
  PROVE  IInv'
<1>1. /\ UNCHANGED <<sent, taskVars, info, handled, lost>>
      /\ start' = [start EXCEPT ![c] =
           [f \in Folder |-> DeltaStart(info[DeviceOf[c]][f], IndexOf(c))]]
  BY DEF Connect
<1>2. Queued' = Queued /\ Accounted' = Accounted
  BY <1>1 DEF Queued, Accounted
<1>3. QueueOK'
  BY <1>1, <1>2 DEF IInv, QueueOK, Head1
<1>4. ASSUME NEW a \in Conn, NEW f \in Folder, SingleIndex(DeviceOf[a])
      PROVE  /\ Covered(IndexOf(a), f, start'[a][f])
             /\ info'[DeviceOf[a]][f] # NoInfo =>
                  Covered(IndexOf(a), f, info'[DeviceOf[a]][f].local)
  <2>1. info[DeviceOf[a]][f] # NoInfo =>
          Covered(IndexOf(a), f, info[DeviceOf[a]][f].local)
    BY <1>4 DEF IInv, SequencesCovered
  <2>2. CASE a # c
    BY <1>1, <1>4, <2>1, <2>2 DEF IInv, SequencesCovered, TypeOK
  <2>3. CASE a = c
    <3>1. start'[a][f] = DeltaStart(info[DeviceOf[a]][f], IndexOf(a))
      BY <1>1, <2>3 DEF IInv, TypeOK
    <3>2. Covered(IndexOf(a), f, 0)
      BY DEF Covered
    <3>3. QED BY <1>1, <2>1, <3>1, <3>2 DEF DeltaStart
  <2>4. QED BY <2>2, <2>3
<1>5. SequencesCovered'
  BY <1>1, <1>2, <1>4, CoveredStep DEF IInv
<1>6. QED BY <1>3, <1>5 DEF IInv

LEMMA HandleClusterConfigStep ==
  ASSUME IInv, TypeOK', NEW c \in Conn, HandleClusterConfig(c)
  PROVE  IInv'
<1>1. UNCHANGED <<start, sent, taskVars, handled, lost>>
  BY DEF HandleClusterConfig
<1>2. Queued' = Queued /\ Accounted' = Accounted
  BY <1>1 DEF Queued, Accounted
<1>3. QueueOK'
  BY <1>1, <1>2 DEF IInv, QueueOK, Head1
<1>4. ASSUME NEW a \in Conn, NEW f \in Folder, SingleIndex(DeviceOf[a]),
             info'[DeviceOf[a]][f] # NoInfo
      PROVE  Covered(IndexOf(a), f, info'[DeviceOf[a]][f].local)
  <2> DEFINE d == DeviceOf[a]
  <2>1. d \in Device
    BY ConstantsAssumption
  <2>2. info[d][f] # NoInfo => Covered(IndexOf(a), f, info[d][f].local)
    BY <1>4 DEF IInv, SequencesCovered
  <2>3. info'[d][f] = IF Announced[c][d][f] = -1 THEN info[d][f]
          ELSE WithAnnounced(info[d][f], IndexSeen[c][d], Announced[c][d][f])
    BY <2>1 DEF HandleClusterConfig
  <2>4. Announced[c][d][f] # -1 =>
          info'[d][f].local = IF info[d][f] = NoInfo THEN 0 ELSE info[d][f].local
    BY <2>3 DEF WithAnnounced
  <2>5. Covered(IndexOf(a), f, 0)
    BY DEF Covered
  <2>6. QED BY <1>4, <2>2, <2>3, <2>4, <2>5
<1>5. \A a \in Conn, f \in Folder : SingleIndex(DeviceOf[a]) =>
        Covered(IndexOf(a), f, start'[a][f])
  BY <1>1 DEF IInv, SequencesCovered
<1>6. SequencesCovered'
  BY <1>1, <1>2, <1>4, <1>5, CoveredStep DEF IInv
<1>7. QED BY <1>3, <1>6 DEF IInv

LEMMA ReceiveIndexStep ==
  ASSUME IInv, TypeOK', NEW c \in Conn, NEW f \in Folder,
         NEW hi \in 0..Len(Log[IndexOf(c)][f]), ReceiveIndex(c, f, hi)
  PROVE  IInv'
<1> DEFINE lo == IF sent[c][f] = -1 THEN start[c][f] ELSE sent[c][f]
           m  == [conn |-> c, folder |-> f, lo |-> lo, hi |-> hi]
<1>1. /\ UNCHANGED <<start, queue, stage, pos, info, handled, lost>>
      /\ sent' = [sent EXCEPT ![c][f] = hi]
      /\ pool' = pool \cup {m}
      /\ lo <= hi
  BY DEF ReceiveIndex, IInv, TypeOK
<1>2. Queued' = Queued /\ (pool \cup Queued)' = (pool \cup Queued) \cup {m}
  BY <1>1 DEF Queued
<1>3. Accounted \subseteq Accounted' /\ RecordsOf(m) \subseteq Accounted'
  <2> HIDE DEF m
  <2>1. \A e \in (pool \cup Queued)' : RecordsOf(e)' = RecordsOf(e)
    BY DEF RecordsOf, RecordAt
  <2>2. \A e \in pool \cup Queued \cup {m} : RecordsOf(e) \subseteq Accounted'
    BY <1>2, <2>1 DEF Accounted
  <2>3. handled \cup lost \subseteq Accounted'
    BY <1>1 DEF Accounted
  <2>4. QED BY <2>2, <2>3 DEF Accounted
<1>4. QueueOK'
  BY <1>1, <1>2 DEF IInv, QueueOK, Head1
<1>5. SingleIndex(DeviceOf[c]) => Covered(IndexOf(c), f, hi)'
  <2> SUFFICES ASSUME SingleIndex(DeviceOf[c]), NEW i \in 1..hi
               PROVE  [index |-> IndexOf(c), folder |-> f, seq |-> i] \in Accounted'
    BY DEF Covered, IndexOf
  <2>1. lo \in Nat /\ hi \in Int
    BY DEF IInv, TypeOK
  <2>2. CASE i <= lo
    <3>1. Covered(IndexOf(c), f, lo)
      BY DEF IInv, SequencesCovered
    <3>2. i \in 1..lo
      BY <2>1, <2>2
    <3>3. QED BY <1>3, <3>1, <3>2 DEF Covered
  <2>3. CASE i > lo
    <3>1. i \in (lo + 1)..hi
      BY <2>1, <2>3
    <3>2. QED BY <1>3, <3>1 DEF RecordsOf, RecordAt
  <2>4. QED BY <2>1, <2>2, <2>3
<1>6. SequencesCovered'
  <2> SUFFICES ASSUME NEW a \in Conn, NEW g \in Folder, SingleIndex(DeviceOf[a])
               PROVE  /\ Covered(IndexOf(a), g, start[a][g])'
                      /\ Covered(IndexOf(a), g, sent[a][g])'
                      /\ info'[DeviceOf[a]][g] # NoInfo =>
                           Covered(IndexOf(a), g, info[DeviceOf[a]][g].local)'
                      /\ \A e \in (pool \cup Queued)' :
                           e.conn = a /\ e.folder = g => Covered(IndexOf(a), g, e.hi)'
    BY DEF SequencesCovered, SingleIndex, IndexOf
  <2>1. \A n : Covered(IndexOf(a), g, n) =>
           \A i \in 1..n : [index |-> IndexOf(a), folder |-> g, seq |-> i] \in Accounted'
    BY <1>3 DEF Covered
  <2>2. Covered(IndexOf(a), g, start[a][g])'
        /\ (info'[DeviceOf[a]][g] # NoInfo =>
              Covered(IndexOf(a), g, info[DeviceOf[a]][g].local)')
    BY <1>1, <2>1 DEF IInv, SequencesCovered, Covered, IndexOf
  <2>3. Covered(IndexOf(a), g, sent[a][g])'
    <3>1. CASE a = c /\ g = f
      <4>1. sent'[a][g] = hi
        BY <1>1, <3>1 DEF IInv, TypeOK
      <4>2. QED BY <1>5, <3>1, <4>1 DEF Covered, IndexOf
    <3>2. CASE ~(a = c /\ g = f)
      <4>1. sent'[a][g] = sent[a][g]
        BY <1>1, <3>2 DEF IInv, TypeOK
      <4>2. QED BY <2>1, <4>1 DEF IInv, SequencesCovered, Covered, IndexOf
    <3>3. QED BY <3>1, <3>2
  <2>4. ASSUME NEW e \in (pool \cup Queued)', e.conn = a, e.folder = g
        PROVE  Covered(IndexOf(a), g, e.hi)'
    <3>1. CASE e = m
      <4>1. e.hi = hi /\ a = c /\ g = f
        BY <2>4, <3>1
      <4>2. QED BY <1>5, <4>1 DEF Covered, IndexOf
    <3>2. CASE e \in pool \cup Queued
      BY <2>1, <2>4, <3>2 DEF IInv, SequencesCovered, Covered, IndexOf
    <3>3. QED BY <1>2, <3>1, <3>2
  <2>5. QED BY <2>2, <2>3, <2>4
<1>7. QED BY <1>4, <1>6 DEF IInv

LEMMA HandleIndexMessageStep ==
  ASSUME IInv, TypeOK', NEW m \in pool, NEW stored \in BOOLEAN,
         HandleIndexMessage(m, stored)
  PROVE  IInv'
<1> DEFINE t == [msg |-> m, cc |-> conn[m.conn] # "connected"]
<1>1. /\ UNCHANGED <<start, sent, stage, pos, info, handled>>
      /\ pool' = pool \ {m}
      /\ \/ lost' = lost \cup RecordsOf(m) /\ UNCHANGED queue
         \/ queue' = Append(queue, t) /\ UNCHANGED lost
  BY DEF HandleIndexMessage
<1>2. \A c \in Conn, f \in Folder : SingleIndex(DeviceOf[c]) =>
        /\ Covered(IndexOf(c), f, start'[c][f])
        /\ info'[DeviceOf[c]][f] # NoInfo =>
             Covered(IndexOf(c), f, info'[DeviceOf[c]][f].local)
  BY <1>1 DEF IInv, SequencesCovered
<1>3. CASE lost' = lost \cup RecordsOf(m) /\ UNCHANGED queue
  <2>1. Queued' = Queued
    BY <1>3 DEF Queued
  <2>2. Accounted \subseteq Accounted'
    BY <1>1, <1>3, <2>1 DEF Accounted, RecordsOf, RecordAt
  <2>3. QueueOK'
    BY <1>1, <1>3, <2>1 DEF IInv, QueueOK, Head1
  <2>4. SequencesCovered'
    BY <1>1, <1>2, <2>1, <2>2, CoveredStep DEF IInv
  <2>5. QED BY <2>3, <2>4 DEF IInv
<1>4. CASE queue' = Append(queue, t) /\ UNCHANGED lost
  <2>1. queue \in Seq(Task) /\ t \in Task /\ t.msg = m
    BY DEF IInv, TypeOK, Task
  <2>2. /\ Queued' = Queued \cup {m}
        /\ queue # <<>> => queue'[1] = queue[1]
        /\ queue' # <<>>
    BY <1>4, <2>1, AppendMessages DEF Queued
  <2>3. (pool \cup Queued)' = pool \cup Queued
    BY <1>1, <2>2
  <2>4. Accounted' = Accounted
    BY <1>1, <1>4, <2>3 DEF Accounted, RecordsOf, RecordAt
  <2>5. QueueOK'
    BY <1>1, <1>4, <2>2, <2>3 DEF IInv, QueueOK, Head1
  <2>6. SequencesCovered'
    BY <1>1, <1>2, <2>3, <2>4, CoveredStep DEF IInv
  <2>7. QED BY <2>5, <2>6 DEF IInv
<1>5. QED BY <1>1, <1>3, <1>4

LEMMA BeginTaskStep ==
  ASSUME IInv, TypeOK', NEW stored \in BOOLEAN, BeginTask(stored)
  PROVE  IInv'
<1>1. /\ UNCHANGED <<start, sent, pool, info, handled>>
      /\ stage = "idle" /\ queue # <<>>
      /\ \/ /\ lost' = lost \cup RecordsOf(Head1)
            /\ queue' = Tail(queue) /\ UNCHANGED <<stage, pos>>
         \/ /\ stage' = "records" /\ pos' = Head1.lo
            /\ UNCHANGED <<queue, lost>>
  BY DEF BeginTask
<1>2. \A c \in Conn, f \in Folder : SingleIndex(DeviceOf[c]) =>
        /\ Covered(IndexOf(c), f, start'[c][f])
        /\ info'[DeviceOf[c]][f] # NoInfo =>
             Covered(IndexOf(c), f, info'[DeviceOf[c]][f].local)
  BY <1>1 DEF IInv, SequencesCovered
<1>3. CASE lost' = lost \cup RecordsOf(Head1) /\ queue' = Tail(queue)
           /\ UNCHANGED <<stage, pos>>
  <2>1. Queued' \subseteq Queued /\ Accounted \subseteq Accounted'
    BY <1>1, <1>3, TailAccounted DEF IInv
  <2>2. QueueOK'
    BY <1>1, <1>3, <2>1 DEF IInv, QueueOK
  <2>3. SequencesCovered'
    BY <1>1, <1>2, <2>1, CoveredStep DEF IInv
  <2>4. QED BY <2>2, <2>3 DEF IInv
<1>4. CASE stage' = "records" /\ pos' = Head1.lo /\ UNCHANGED <<queue, lost>>
  <2>1. Queued' = Queued /\ Accounted' = Accounted /\ Head1' = Head1
    BY <1>1, <1>4 DEF Queued, Accounted, Head1
  <2>2. Head1 \in Queued /\ Head1.lo \in Nat /\ Head1.hi \in Nat
    BY <1>1, TailMessages DEF IInv, TypeOK, Queued, Head1, Message
  <2>3. pos' \in Head1.lo..Head1.hi /\ (Head1.lo + 1)..pos' = {}
    BY <1>4, <2>2 DEF IInv, QueueOK
  <2>4. QueueOK'
    BY <1>1, <1>4, <2>1, <2>3 DEF IInv, QueueOK
  <2>5. SequencesCovered'
    BY <1>1, <1>2, <2>1, CoveredStep DEF IInv
  <2>6. QED BY <2>4, <2>5 DEF IInv
<1>5. QED BY <1>1, <1>3, <1>4

LEMMA PushRecordStep ==
  ASSUME IInv, TypeOK', PushRecord
  PROVE  IInv'
<1> DEFINE r == RecordAt(Head1, pos + 1)
<1>1. /\ UNCHANGED <<start, sent, pool, queue, stage, info>>
      /\ stage = "records" /\ pos < Head1.hi /\ pos' = pos + 1
      /\ handled' \cup lost' = handled \cup lost \cup {r}
  BY DEF PushRecord
<1>2. Queued' = Queued /\ Head1' = Head1 /\ Accounted \subseteq Accounted'
  BY <1>1 DEF Queued, Head1, Accounted, RecordsOf, RecordAt
<1>3. /\ pos \in Head1.lo..Head1.hi /\ Head1.lo \in Nat /\ Head1.hi \in Nat
      /\ \A i \in (Head1.lo + 1)..pos : RecordAt(Head1, i) \in handled \cup lost
  BY <1>1, TaskType DEF IInv, QueueOK
<1>4. ASSUME NEW i \in (Head1.lo + 1)..pos'
      PROVE  RecordAt(Head1, i) \in handled' \cup lost'
  <2>1. i \in (Head1.lo + 1)..pos \/ i = pos + 1
    BY <1>1, <1>3
  <2>2. QED BY <1>1, <1>3, <2>1
<1>5. pos' \in Head1.lo..Head1.hi
  BY <1>1, <1>3
<1>6. QueueOK'
  <2>1. \A m \in (pool \cup Queued)' :
          m.lo <= m.hi /\ m.hi <= Len(Log[IndexOf(m.conn)][m.folder])
    BY <1>1, <1>2 DEF IInv, QueueOK
  <2>2. queue' # <<>> /\ stage' # "notify"
    BY <1>1 DEF IInv, QueueOK
  <2>3. \A i \in (Head1.lo + 1)..pos' : RecordAt(Head1, i)' \in handled' \cup lost'
    BY <1>2, <1>4 DEF RecordAt
  <2>4. QED BY <1>2, <1>5, <2>1, <2>2, <2>3 DEF QueueOK, RecordAt, IndexOf
<1>7. SequencesCovered'
  <2>1. \A c \in Conn, f \in Folder : SingleIndex(DeviceOf[c]) =>
          /\ Covered(IndexOf(c), f, start'[c][f])
          /\ info'[DeviceOf[c]][f] # NoInfo =>
               Covered(IndexOf(c), f, info'[DeviceOf[c]][f].local)
    BY <1>1 DEF IInv, SequencesCovered
  <2>2. QED BY <1>1, <1>2, <2>1, CoveredStep DEF IInv
<1>8. QED BY <1>6, <1>7 DEF IInv

(* The task at the head of the queue ends with all its records done.       *)
LEMMA EndTaskStep ==
  ASSUME IInv, stage # "idle", pos = Head1.hi, EndTask, UNCHANGED <<pool, handled, lost>>
  PROVE  QueueOK' /\ Queued' \subseteq Queued /\ Accounted \subseteq Accounted'
<1>1. queue # <<>> /\ queue' = Tail(queue) /\ stage' = "idle"
  BY DEF EndTask, IInv, QueueOK
<1>2. Queued' \subseteq Queued /\ Accounted \subseteq Accounted'
  BY <1>1, TaskDone, TailAccounted DEF IInv
<1>3. QueueOK'
  BY <1>1, <1>2 DEF IInv, QueueOK
<1>4. QED BY <1>2, <1>3

LEMMA UpdateSequenceStep ==
  ASSUME IInv, TypeOK', UpdateSequence
  PROVE  IInv'
<1> DEFINE d == DeviceOf[Head1.conn]
           sequence == IF Head1.hi > Head1.lo THEN Head1.hi ELSE -1
<1>1. /\ UNCHANGED <<start, sent, pool, handled, lost>>
      /\ stage = "records" /\ pos = Head1.hi
      /\ \/ info' = info
         \/ /\ info[d][Head1.folder] # NoInfo
            /\ info' = [info EXCEPT ![d][Head1.folder] = WithLocal(@, sequence)]
      /\ EndTask \/ (stage' = "notify" /\ UNCHANGED <<queue, pos>>)
  BY DEF UpdateSequence, FailTask, IndexIdKnown
<1>2. Head1 \in Message /\ Head1 \in Queued /\ d \in Device
  BY <1>1, TaskType, ConstantsAssumption DEF IInv, Message
<1>3. QueueOK' /\ Queued' \subseteq Queued /\ Accounted \subseteq Accounted'
  <2>1. CASE EndTask
    BY <1>1, <2>1, EndTaskStep
  <2>2. CASE stage' = "notify" /\ UNCHANGED <<queue, pos>>
    <3>1. Queued' = Queued /\ Accounted' = Accounted /\ Head1' = Head1
      BY <1>1, <2>2 DEF Queued, Accounted, Head1
    <3>2. QueueOK'
      BY <1>1, <2>2, <3>1 DEF IInv, QueueOK
    <3>3. Queued' \subseteq Queued /\ Accounted \subseteq Accounted'
      BY <3>1, Zenon
    <3>4. QED BY <3>2, <3>3, Zenon
  <2>3. QED BY <1>1, <2>1, <2>2
<1>4. ASSUME NEW c \in Conn, NEW f \in Folder, SingleIndex(DeviceOf[c]),
             info'[DeviceOf[c]][f] # NoInfo
      PROVE  Covered(IndexOf(c), f, info'[DeviceOf[c]][f].local)
  <2>1. info[DeviceOf[c]][f] # NoInfo =>
          Covered(IndexOf(c), f, info[DeviceOf[c]][f].local)
    BY <1>4 DEF IInv, SequencesCovered
  <2>2. CASE info'[DeviceOf[c]][f] = info[DeviceOf[c]][f]
    BY <1>4, <2>1, <2>2
  <2>3. CASE info'[DeviceOf[c]][f] # info[DeviceOf[c]][f]
    <3>1. /\ d = DeviceOf[c] /\ Head1.folder = f
          /\ info[d][f] \in IndexInfo /\ info[d][f] # NoInfo
          /\ info'[d][f] = WithLocal(info[d][f], sequence)
      <4>1. info' = [info EXCEPT ![d][Head1.folder] = WithLocal(@, sequence)]
            /\ info[d][Head1.folder] # NoInfo
        BY <1>1, <2>3
      <4> HIDE DEF d, sequence
      <4>2. d = DeviceOf[c] /\ Head1.folder = f
        BY <2>3, <4>1 DEF IInv, TypeOK
      <4>3. info'[d][f] = WithLocal(info[d][f], sequence)
        BY <1>2, <4>1, <4>2 DEF IInv, TypeOK
      <4>4. info[d][f] \in IndexInfo /\ info[d][f] # NoInfo
        BY <1>2, <4>1, <4>2 DEF IInv, TypeOK
      <4>5. QED BY <4>2, <4>3, <4>4
    <3>2. Covered(IndexOf(Head1.conn), f, Head1.hi)
      <4>1. Head1.conn \in Conn /\ SingleIndex(DeviceOf[Head1.conn])
        BY <1>2, <1>4, <3>1 DEF Message
      <4>2. QED BY <1>2, <3>1, <4>1 DEF IInv, SequencesCovered
    <3>3. IndexOf(Head1.conn) = IndexOf(c)
      BY <1>2, <1>4, <3>1 DEF Message, SingleIndex, IndexOf
    <3>4. info'[d][f].local = info[d][f].local \/ info'[d][f].local = Head1.hi
      BY <1>2, <3>1 DEF WithLocal, IndexInfo, Message
    <3>5. info'[DeviceOf[c]][f].local = info[DeviceOf[c]][f].local
          \/ info'[DeviceOf[c]][f].local = Head1.hi
      BY <3>1, <3>4
    <3>6. Covered(IndexOf(c), f, info[DeviceOf[c]][f].local)
      BY <2>1, <3>1
    <3>7. Covered(IndexOf(c), f, Head1.hi)
      BY <3>2, <3>3
    <3>8. QED BY <3>5, <3>6, <3>7
  <2>4. QED BY <2>2, <2>3
<1>5. \A c \in Conn, f \in Folder : SingleIndex(DeviceOf[c]) =>
        Covered(IndexOf(c), f, start'[c][f])
  BY <1>1 DEF IInv, SequencesCovered
<1>6. SequencesCovered'
  BY <1>1, <1>3, <1>4, <1>5, CoveredStep DEF IInv
<1>7. QED BY <1>3, <1>6 DEF IInv

LEMMA NotifyWaitersStep ==
  ASSUME IInv, TypeOK', NotifyWaiters
  PROVE  IInv'
<1>1. /\ UNCHANGED <<start, sent, pool, info, handled, lost>>
      /\ stage = "notify" /\ EndTask
  BY DEF NotifyWaiters
<1>2. QueueOK' /\ Queued' \subseteq Queued /\ Accounted \subseteq Accounted'
  BY <1>1, EndTaskStep DEF IInv, QueueOK
<1>3. \A c \in Conn, f \in Folder : SingleIndex(DeviceOf[c]) =>
        /\ Covered(IndexOf(c), f, start'[c][f])
        /\ info'[DeviceOf[c]][f] # NoInfo =>
             Covered(IndexOf(c), f, info'[DeviceOf[c]][f].local)
  BY <1>1 DEF IInv, SequencesCovered
<1>4. SequencesCovered'
  BY <1>1, <1>2, <1>3, CoveredStep DEF IInv
<1>5. QED BY <1>2, <1>4 DEF IInv

LEMMA ClearIndexStep ==
  ASSUME IInv, TypeOK', ClearIndex
  PROVE  IInv'
<1>1. /\ UNCHANGED <<start, sent, taskVars>>
      /\ info' = [d \in Device |-> [f \in Folder |-> NoInfo]]
      /\ lost' = lost \cup handled /\ handled' = {}
  BY DEF ClearIndex
<1>2. Queued' = Queued /\ Accounted' = Accounted /\ Head1' = Head1
  BY <1>1 DEF Queued, Accounted, Head1
<1>3. QueueOK'
  BY <1>1, <1>2 DEF IInv, QueueOK
<1>4. \A c \in Conn, f \in Folder : SingleIndex(DeviceOf[c]) =>
        /\ Covered(IndexOf(c), f, start'[c][f])
        /\ info'[DeviceOf[c]][f] # NoInfo =>
             Covered(IndexOf(c), f, info'[DeviceOf[c]][f].local)
  BY <1>1, ConstantsAssumption DEF IInv, SequencesCovered
<1>5. SequencesCovered'
  BY <1>1, <1>2, <1>4, CoveredStep DEF IInv
<1>6. QED BY <1>3, <1>5 DEF IInv

LEMMA RestartStep ==
  ASSUME IInv, TypeOK', Restart
  PROVE  IInv'
<1>1. /\ UNCHANGED <<start, sent, info, handled>>
      /\ lost' = lost \cup UNION {RecordsOf(m) : m \in pool \cup Queued}
      /\ pool' = {} /\ queue' = <<>> /\ stage' = "idle"
  BY DEF Restart
<1>2. Queued' = {}
  BY <1>1 DEF Queued, MessagesOf
<1>3. Accounted \subseteq Accounted'
  BY <1>1 DEF Accounted
<1>4. QueueOK'
  BY <1>1, <1>2 DEF QueueOK
<1>5. \A c \in Conn, f \in Folder : SingleIndex(DeviceOf[c]) =>
        /\ Covered(IndexOf(c), f, start'[c][f])
        /\ info'[DeviceOf[c]][f] # NoInfo =>
             Covered(IndexOf(c), f, info'[DeviceOf[c]][f].local)
  BY <1>1 DEF IInv, SequencesCovered
<1>6. SequencesCovered'
  BY <1>1, <1>2, <1>3, <1>5, CoveredStep DEF IInv
<1>7. QED BY <1>4, <1>6 DEF IInv

(***************************************************************************)
(* The theorems.                                                           *)
(***************************************************************************)

(* IInv is an invariant: whatever the order in which the pool delivers the *)
(* index messages, every sequence number that IndexHandler records covers  *)
(* only records that it has seen.                                          *)
THEOREM Invariance == Spec => []IInv
<1>1. Init => IInv
  <2> SUFFICES ASSUME Init PROVE IInv
    OBVIOUS
  <2>1. TypeOK
    <3>1. queue \in Seq(Task) /\ resets \in 0..MaxResets
      BY ConstantsAssumption DEF Init
    <3>2. /\ conn \in [Conn -> {"new", "connected", "filling", "recorded", "ended"}]
          /\ waiter \in [Conn -> {"idle", "waiting", "notified", "done", "failed"}]
          /\ quiet \in [Conn -> BOOLEAN]
      BY DEF Init
    <3>3. /\ known \in [Conn -> SUBSET Folder]
          /\ start \in [Conn -> [Folder -> Nat]]
          /\ sent \in [Conn -> [Folder -> Nat \cup {-1}]]
      BY DEF Init
    <3>4. /\ info \in [Device -> [Folder -> IndexInfo \cup {NoInfo}]]
          /\ store \in [Folder -> [Path -> Nat]]
      BY DEF Init
    <3>5. QED BY <3>1, <3>2, <3>3, <3>4 DEF Init, TypeOK
  <2>2. Queued = {}
    BY DEF Init, Queued, MessagesOf
  <2>3. QueueOK
    BY <2>2 DEF Init, QueueOK
  <2>4. SequencesCovered
    BY <2>2, ConstantsAssumption DEF Init, SequencesCovered, Covered
  <2>5. QED BY <2>1, <2>3, <2>4 DEF IInv
<1>2. IInv /\ [Next]_vars => IInv'
  <2> SUFFICES ASSUME IInv, [Next]_vars PROVE IInv'
    OBVIOUS
  <2>0. TypeOK'
    BY TypeStep DEF IInv
  <2>1. ASSUME NEW c \in Conn, Connect(c) PROVE IInv'
    BY <2>0, <2>1, ConnectStep
  <2>2. ASSUME NEW c \in Conn,
               PublishClusterConfig(c) \/ StartWaiting(c) \/ WakeUp(c) \/ Timeout(c)
        PROVE  IInv'
    <3>1. UNCHANGED <<start, sent, taskVars, info, handled, lost>>
      BY <2>2 DEF PublishClusterConfig, StartWaiting, WakeUp, Timeout
    <3>2. QED BY <2>0, <3>1, SameStep
  <2>3. ASSUME NEW c \in Conn, NEW f \in Folder, PutFolderInfo(c, f) PROVE IInv'
    <3>1. UNCHANGED <<start, sent, taskVars, info, handled, lost>>
      BY <2>3 DEF PutFolderInfo
    <3>2. QED BY <2>0, <3>1, SameStep
  <2>4. ASSUME NEW c \in Conn, HandleClusterConfig(c) PROVE IInv'
    BY <2>0, <2>4, HandleClusterConfigStep
  <2>5. ASSUME NEW c \in Conn, NEW f \in Folder,
               NEW hi \in 0..Len(Log[IndexOf(c)][f]), ReceiveIndex(c, f, hi)
        PROVE  IInv'
    BY <2>0, <2>5, ReceiveIndexStep
  <2>6. ASSUME NEW m \in pool, NEW stored \in BOOLEAN, HandleIndexMessage(m, stored)
        PROVE  IInv'
    BY <2>0, <2>6, HandleIndexMessageStep
  <2>7. ASSUME NEW stored \in BOOLEAN, BeginTask(stored) PROVE IInv'
    BY <2>0, <2>7, BeginTaskStep
  <2>8. CASE UNCHANGED vars
    <3>1. UNCHANGED <<start, sent, taskVars, info, handled, lost>>
      BY <2>8 DEF vars
    <3>2. QED BY <2>0, <3>1, SameStep
  <2>9. QED BY <2>0, <2>1, <2>2, <2>3, <2>4, <2>5, <2>6, <2>7, <2>8, PushRecordStep,
              UpdateSequenceStep, NotifyWaitersStep, ClearIndexStep, RestartStep DEF Next
<1>3. QED BY <1>1, <1>2, PTL DEF Spec

(* The variables of the index acquisition keep their types.                *)
THEOREM TypeCorrect == Spec => []TypeOK
<1>1. IInv => TypeOK
  BY DEF IInv
<1>2. QED BY <1>1, Invariance, PTL

(* A delta index skips no record that was not handled, is not on its way   *)
(* and was not lost in one of the listed ways.                             *)
THEOREM DeltaIndexIsComplete == Spec => []DeltaIndexComplete
<1>1. IInv => DeltaIndexComplete
  BY DEF IInv, SequencesCovered, DeltaIndexComplete
<1>2. QED BY <1>1, Invariance, PTL

(***************************************************************************)
(* The stored time of a path and the records that were handled.            *)
(***************************************************************************)

(* StoreIsNewest, said of each record: r is a record of this path.         *)
IsOf(r, f, p) == r.folder = f /\ Record(r).path = p

StoreMatches ==
  /\ \A r \in handled : Record(r).modified \in Nat
  /\ \A f \in Folder, p \in Path :
       /\ \A r \in handled : IsOf(r, f, p) => Record(r).modified <= store[f][p]
       /\ store[f][p] # 0 =>
            \E r \in handled : IsOf(r, f, p) /\ Record(r).modified = store[f][p]

LEMMA MatchesIsNewest == StoreMatches => StoreIsNewest
BY DEF StoreMatches, StoreIsNewest, IsOf

(* addRecord keeps the newer of the stored and the new time, and the time  *)
(* stored is one of a record: the new one counts from now on.              *)
LEMMA PushRecordMatches ==
  ASSUME IInv, StoreMatches, PushRecord
  PROVE  StoreMatches'
<1> DEFINE r == RecordAt(Head1, pos + 1)
<1>1. r \in RecordId /\ Record(r) \in LogRecord
  BY NextRecord DEF IInv, PushRecord
<1>2. CASE ~Record(r).valid
  <2>1. store' = store /\ handled' = handled
    BY <1>2 DEF PushRecord
  <2>2. /\ \A h : Record(h)' = Record(h)
        /\ \A h, f, p : IsOf(h, f, p)' <=> IsOf(h, f, p)
    BY DEF IsOf, Record
  <2>3. QED BY <2>1, <2>2 DEF StoreMatches
<1>3. CASE Record(r).valid
  <2>1. /\ handled' = handled \cup {r}
        /\ AddRecord(r.folder, Record(r).path, Record(r).modified)
    BY <1>3 DEF PushRecord
  <2>2. /\ r.folder \in Folder /\ Record(r).path \in Path
        /\ Record(r).modified \in Nat /\ Record(r).modified # 0
    BY <1>1 DEF RecordId, LogRecord
  <2>3. store \in [Folder -> [Path -> Nat]]
    BY DEF IInv, TypeOK
  <2> DEFINE f0 == r.folder  p0 == Record(r).path  new == Record(r).modified
             old == store[f0][p0]
  <2>5. /\ old \in Nat
        /\ store'[f0][p0] = IF old = 0 \/ new > old THEN new ELSE old
        /\ \A f \in Folder, p \in Path :
             f # f0 \/ p # p0 => store'[f][p] = store[f][p]
    BY <2>1, <2>2, <2>3 DEF AddRecord
  <2>4. new \in Nat
    BY <2>2
  <2>6. new <= store'[f0][p0] /\ old <= store'[f0][p0]
    <3> DEFINE was == old  stored == store'[f0][p0]  time == new
    <3>1. /\ was \in Nat /\ time \in Nat
          /\ stored = IF was = 0 \/ time > was THEN time ELSE was
      BY <2>4, <2>5
    <3> HIDE DEF was, stored, time
    <3>2. time <= stored /\ was <= stored
      BY <3>1
    <3> QED BY <3>2 DEF was, stored, time
  <2>7. \A h \in handled' : Record(h)'.modified \in Nat
    <3>1. \A h \in handled : Record(h).modified \in Nat
      BY Zenon DEF StoreMatches
    <3>2. \A h \in handled' : Record(h).modified \in Nat
      <4>1. handled' = handled \cup {r} /\ Record(r).modified \in Nat
        BY <2>1, <2>4
      <4> HIDE DEF r
      <4> QED BY <3>1, <4>1, Zenon
    <3> QED BY <3>2, Zenon DEF Record
  <2>8. ASSUME NEW f \in Folder, NEW p \in Path, f # f0 \/ p # p0
        PROVE  /\ \A h \in handled' : IsOf(h, f, p) => Record(h).modified <= store'[f][p]
               /\ store'[f][p] # 0 =>
                    \E h \in handled' : IsOf(h, f, p) /\ Record(h).modified = store'[f][p]
    <3>1. ~IsOf(r, f, p) /\ store'[f][p] = store[f][p]
      BY <2>5, <2>8 DEF IsOf
    <3>2. /\ \A h \in handled : IsOf(h, f, p) => Record(h).modified <= store[f][p]
          /\ store[f][p] # 0 =>
               \E h \in handled : IsOf(h, f, p) /\ Record(h).modified = store[f][p]
      BY DEF StoreMatches
    <3>3. QED BY <3>1, <3>2, <2>1
  <2>9. \A h \in handled' : IsOf(h, f0, p0) => Record(h).modified <= store'[f0][p0]
    <3>1. ASSUME NEW h \in handled, IsOf(h, f0, p0)
          PROVE  Record(h).modified <= store'[f0][p0]
      <4>1. Record(h).modified <= old /\ Record(h).modified \in Nat
        BY <2>2, <3>1 DEF StoreMatches
      <4>2. store'[f0][p0] \in Nat
        BY <2>2, <2>5
      <4>3. QED BY <2>5, <2>6, <4>1, <4>2
    <3>2. QED BY <2>1, <2>6, <3>1
  <2>10. \E h \in handled' : IsOf(h, f0, p0) /\ Record(h).modified = store'[f0][p0]
    <3>1. CASE store'[f0][p0] = new
      <4>1. r \in handled' /\ IsOf(r, f0, p0)
        BY <2>1 DEF IsOf
      <4>2. QED BY <3>1, <4>1
    <3>2. CASE store'[f0][p0] = old /\ old # 0
      <4>1. \E h \in handled : IsOf(h, f0, p0) /\ Record(h).modified = old
        BY <2>2, <3>2 DEF StoreMatches
      <4>2. QED BY <2>1, <3>2, <4>1
    <3>3. QED BY <2>5, <3>1, <3>2
  <2>11. ASSUME NEW f \in Folder, NEW p \in Path
         PROVE  /\ \A h \in handled' : IsOf(h, f, p) => Record(h).modified <= store'[f][p]
                /\ store'[f][p] # 0 =>
                     \E h \in handled' : IsOf(h, f, p) /\ Record(h).modified = store'[f][p]
    <3>1. CASE f # f0 \/ p # p0
      BY <3>1, <2>8
    <3>2. CASE f = f0 /\ p = p0
      BY <3>2, <2>9, <2>10
    <3>3. QED BY <3>1, <3>2
  <2>12. /\ \A h : Record(h)' = Record(h)
         /\ \A h, f, p : IsOf(h, f, p)' <=> IsOf(h, f, p)
    BY DEF IsOf, Record
  <2>13. QED BY <2>7, <2>11, <2>12 DEF StoreMatches
<1>4. QED BY <1>2, <1>3

(* Nothing else changes store or handled, but clearIndex, which empties    *)
(* both.                                                                   *)
LEMMA MatchesStep ==
  ASSUME IInv, StoreMatches, [Next]_vars
  PROVE  StoreMatches'
<1>1. CASE PushRecord
  BY <1>1, PushRecordMatches
<1>2. CASE ClearIndex
  <2>1. store' = [f \in Folder |-> [p \in Path |-> 0]] /\ handled' = {}
    BY <1>2 DEF ClearIndex
  <2>2. QED BY <2>1 DEF StoreMatches
<1>3. CASE UNCHANGED <<store, handled>>
  <2>1. /\ \A h : Record(h)' = Record(h)
        /\ \A h, f, p : IsOf(h, f, p)' <=> IsOf(h, f, p)
    BY DEF IsOf, Record
  <2>2. QED BY <1>3, <2>1 DEF StoreMatches
<1>4. CASE Restart
  BY <1>3, <1>4 DEF Restart
<1>5. CASE UpdateSequence \/ NotifyWaiters
  BY <1>3, <1>5 DEF UpdateSequence, NotifyWaiters
<1>6. ASSUME NEW stored \in BOOLEAN, BeginTask(stored) PROVE StoreMatches'
  BY <1>3, <1>6 DEF BeginTask, dbVars
<1>7. ASSUME NEW m \in pool, NEW stored \in BOOLEAN, HandleIndexMessage(m, stored)
      PROVE  StoreMatches'
  BY <1>3, <1>7 DEF HandleIndexMessage, dbVars
<1>8. ASSUME NEW c \in Conn, NEW f \in Folder, NEW hi \in 0..Len(Log[IndexOf(c)][f]),
             ReceiveIndex(c, f, hi)
      PROVE  StoreMatches'
  BY <1>3, <1>8 DEF ReceiveIndex, dbVars, historyVars
<1>9. ASSUME NEW c \in Conn,
             \/ Connect(c) \/ PublishClusterConfig(c) \/ HandleClusterConfig(c)
             \/ StartWaiting(c) \/ WakeUp(c) \/ Timeout(c)
             \/ \E f \in Folder : PutFolderInfo(c, f)
      PROVE  StoreMatches'
  <2>1. UNCHANGED <<store, handled>>
    BY <1>9 DEF Connect, PublishClusterConfig, HandleClusterConfig, StartWaiting, WakeUp,
       Timeout, PutFolderInfo, dbVars, historyVars
  <2>2. QED BY <1>3, <2>1
<1>10. CASE UNCHANGED vars
  BY <1>3, <1>10 DEF vars, dbVars, historyVars
<1>11. QED BY <1>1, <1>2, <1>4, <1>5, <1>6, <1>7, <1>8, <1>9, <1>10 DEF Next

(* addRecord keeps the newest time of every path, for any number of        *)
(* devices, connections and repeated or reordered messages.                *)
THEOREM NewestIsStored == Spec => []StoreIsNewest
<1>1. Init => StoreMatches
  BY DEF Init, StoreMatches
<1>2. IInv /\ StoreMatches /\ [Next]_vars => StoreMatches'
  BY MatchesStep
<1>3. QED BY <1>1, <1>2, Invariance, MatchesIsNewest, PTL DEF Spec

(***************************************************************************)
(* Sequences that are not forgotten.  Until a clear or a restart the local *)
(* sequence of an index info only grows, so what it has reached once it    *)
(* covers for good: the start of a connection, which was read from it, the *)
(* end of an empty message, which is that start, and the end of the        *)
(* message whose task is at its notify.                                    *)
(***************************************************************************)
Recorded(d, f, n) == info[d][f] # NoInfo /\ info[d][f].local >= n

EndRecorded(m) == m.hi > 0 => Recorded(DeviceOf[m.conn], m.folder, m.hi)

InfoGrows ==
  \A d \in Device, f \in Folder :
    info[d][f] # NoInfo => info'[d][f] # NoInfo /\ info'[d][f].local >= info[d][f].local

StartsRecorded ==
  \A c \in Conn, f \in Folder : start[c][f] > 0 => Recorded(DeviceOf[c], f, start[c][f])
EmptyRecorded == \A m \in pool \cup Queued : m.lo = m.hi => EndRecorded(m)
NotifyRecorded == stage = "notify" => EndRecorded(Head1)

Kept ==
  resets = 0 => StartsRecorded /\ EmptyRecorded /\ NotifyRecorded /\ SequenceNotForgotten

LEMMA RecordedStays ==
  ASSUME TypeOK, TypeOK', InfoGrows, NEW d \in Device, NEW f \in Folder, NEW n \in Int,
         Recorded(d, f, n)
  PROVE  info'[d][f] # NoInfo /\ info'[d][f].local >= n
<1>1. info[d][f] \in IndexInfo /\ info'[d][f] \in IndexInfo
      /\ info'[d][f].local >= info[d][f].local /\ info[d][f].local >= n
  BY DEF TypeOK, InfoGrows, Recorded
<1>2. info[d][f].local \in Nat /\ info'[d][f].local \in Nat
  BY <1>1 DEF IndexInfo
<1> QED  BY <1>1, <1>2 DEF Recorded, InfoGrows

LEMMA EndStays ==
  ASSUME TypeOK, TypeOK', InfoGrows, NEW m \in Message, EndRecorded(m)
  PROVE  EndRecorded(m)'
<1>1. DeviceOf[m.conn] \in Device /\ m.folder \in Folder /\ m.hi \in Int
  BY ConstantsAssumption DEF Message
<1> QED  BY <1>1, RecordedStays DEF EndRecorded, Recorded

(* A step that receives nothing and starts no connection: a message that   *)
(* it drops has its end in the index info.                                 *)
LEMMA KeptStep ==
  ASSUME TypeOK, TypeOK', Kept, resets = 0, InfoGrows, UNCHANGED <<start, sent>>,
         (pool \cup Queued)' \subseteq pool \cup Queued,
         \A m \in pool \cup Queued \cup failed :
           m \notin (pool \cup Queued \cup failed)' => EndRecorded(m)',
         NotifyRecorded'
  PROVE  Kept'
<1>1. Queued \subseteq Message
  BY MessagesType DEF TypeOK, Queued
<1>2. StartsRecorded'
  <2> SUFFICES ASSUME NEW c \in Conn, NEW f \in Folder, start[c][f] > 0
               PROVE  Recorded(DeviceOf[c], f, start[c][f])'
    BY DEF StartsRecorded
  <2>1. Recorded(DeviceOf[c], f, start[c][f]) /\ DeviceOf[c] \in Device /\ start[c][f] \in Int
    BY ConstantsAssumption DEF Kept, StartsRecorded, TypeOK
  <2> QED  BY <2>1, RecordedStays DEF Recorded
<1>3. EmptyRecorded'
  <2> SUFFICES ASSUME NEW m \in (pool \cup Queued)', m.lo = m.hi
               PROVE  EndRecorded(m)'
    BY DEF EmptyRecorded
  <2>1. m \in Message /\ EndRecorded(m)
    BY <1>1 DEF Kept, EmptyRecorded, TypeOK
  <2> QED  BY <2>1, EndStays
<1>4. SequenceNotForgotten'
  <2> DEFINE Reaches(c, f) == /\ info'[DeviceOf[c]][f] # NoInfo
                              /\ info'[DeviceOf[c]][f].local >= sent[c][f]
  <2> SUFFICES ASSUME NEW c \in Conn, NEW f \in Folder, sent[c][f] > 0,
                      \A m \in (pool \cup Queued \cup failed)' :
                        ~(m.conn = c /\ m.folder = f /\ m.hi = sent[c][f])
               PROVE  Reaches(c, f)
    BY DEF SequenceNotForgotten
  <2>1. sent[c][f] \in Int /\ DeviceOf[c] \in Device
    BY ConstantsAssumption DEF TypeOK
  <2>2. \/ Recorded(DeviceOf[c], f, sent[c][f])
        \/ \E m \in pool \cup Queued \cup failed :
             m.conn = c /\ m.folder = f /\ m.hi = sent[c][f]
    BY DEF Kept, SequenceNotForgotten, Recorded
  <2>3. CASE Recorded(DeviceOf[c], f, sent[c][f])
    BY <2>1, <2>3, RecordedStays
  <2>4. ASSUME NEW m \in pool \cup Queued \cup failed,
               m.conn = c, m.folder = f, m.hi = sent[c][f]
        PROVE  Reaches(c, f)
    <3>1. EndRecorded(m)'
      BY <2>4
    <3> QED  BY <2>4, <3>1 DEF EndRecorded, Recorded
  <2> QED  BY <2>2, <2>3, <2>4
<1> QED  BY <1>2, <1>3, <1>4 DEF Kept

LEMMA InfoStays == info' = info /\ TypeOK => InfoGrows
BY DEF InfoGrows, TypeOK, IndexInfo

(* The processor: a task ends with its sequence in the index info, or as   *)
(* one that failed.                                                        *)
LEMMA ProcessorKept ==
  ASSUME TypeOK, TypeOK', QueueOK, Kept, resets = 0,
         \/ \E stored \in BOOLEAN : BeginTask(stored)
         \/ PushRecord \/ UpdateSequence \/ NotifyWaiters
  PROVE  Kept'
<1>0. UNCHANGED <<start, sent, pool, resets>>
  BY DEF BeginTask, PushRecord, UpdateSequence, NotifyWaiters
<1>1. ASSUME NEW stored \in BOOLEAN, BeginTask(stored) PROVE Kept'
  <2>1. stage' # "notify" /\ InfoGrows
    BY <1>1, InfoStays DEF BeginTask
  <2>2. \/ queue' = queue /\ failed' = failed
        \/ queue' = Tail(queue) /\ failed' = failed \cup {Head1}
    BY <1>1 DEF BeginTask
  <2>3. Queued = {Head1} \cup MessagesOf(Tail(queue))
    BY <1>1, TailMessages DEF BeginTask, TypeOK, Queued, Head1
  <2>4. Queued' \subseteq Queued /\ Queued \cup failed \subseteq Queued' \cup failed'
    BY <2>2, <2>3 DEF Queued
  <2> QED  BY <1>0, <2>1, <2>4, KeptStep DEF NotifyRecorded
<1>2. CASE PushRecord
  <2>1. stage' # "notify" /\ InfoGrows /\ UNCHANGED <<queue, failed>>
    BY <1>2, InfoStays DEF PushRecord
  <2>2. Queued' = Queued
    BY <2>1 DEF Queued
  <2> QED  BY <1>0, <2>1, <2>2, KeptStep DEF NotifyRecorded
<1>3. CASE UpdateSequence
  <2>0. PICK m \in Message : m = Head1
    BY <1>3, TaskType DEF UpdateSequence
  <2> DEFINE d == DeviceOf[m.conn]
             sequence == IF m.hi > m.lo THEN m.hi ELSE -1
  <2>1. /\ m \in Message /\ m \in Queued /\ Queued = {m} \cup MessagesOf(Tail(queue))
        /\ m.lo <= m.hi /\ m.lo \in Nat /\ m.hi \in Nat
        /\ d \in Device /\ m.folder \in Folder
    BY <1>3, <2>0, TaskType, ConstantsAssumption DEF UpdateSequence, QueueOK, Message
  <2>2. CASE ~IndexIdKnown(d, m.folder)
    <3>1. failed' = failed \cup {m} /\ queue' = Tail(queue) /\ stage' = "idle" /\ InfoGrows
      BY <1>3, <2>0, <2>2, InfoStays DEF UpdateSequence, FailTask, EndTask
    <3>2. Queued' \subseteq Queued /\ Queued \cup failed \subseteq Queued' \cup failed'
      BY <2>1, <3>1 DEF Queued
    <3> QED  BY <1>0, <3>1, <3>2, KeptStep DEF NotifyRecorded
  <2>3. CASE IndexIdKnown(d, m.folder)
    <3>1. info' = [info EXCEPT ![d][m.folder] = WithLocal(@, sequence)] /\ failed' = failed
      BY <1>3, <2>0, <2>3 DEF UpdateSequence
    <3>2. info[d][m.folder] \in IndexInfo /\ sequence \in Nat \cup {-1}
      BY <2>1, <2>3 DEF IndexIdKnown, TypeOK
    <3>3. LET new == WithLocal(info[d][m.folder], sequence)
          IN  new \in IndexInfo /\ new # NoInfo /\ new.local >= sequence
              /\ new.local >= info[d][m.folder].local
      <4> DEFINE i == info[d][m.folder]  new == WithLocal(i, sequence)
      <4>1. i \in IndexInfo /\ i.local \in Nat
        BY <3>2 DEF IndexInfo
      <4>2. new \in IndexInfo
        BY <3>2, WithLocalType
      <4>3. new.local = IF sequence > i.local THEN sequence ELSE i.local
        BY <4>1 DEF WithLocal, IndexInfo
      <4>4. new # NoInfo
        BY <4>2 DEF IndexInfo, NoInfo
      <4>5. new.local >= sequence /\ new.local >= i.local
        <5> HIDE DEF new, sequence, i
        <5> QED  BY <3>2, <4>1, <4>3
      <4> QED  BY <4>2, <4>4, <4>5
    <3>4. /\ info'[d][m.folder] = WithLocal(info[d][m.folder], sequence)
          /\ \A e \in Device, f \in Folder :
               e # d \/ f # m.folder => info'[e][f] = info[e][f]
      <4> HIDE DEF d, sequence
      <4> QED  BY <2>1, <3>1 DEF TypeOK
    <3>5. InfoGrows
      <4> SUFFICES ASSUME NEW e \in Device, NEW f \in Folder, info[e][f] # NoInfo
                   PROVE  info'[e][f] # NoInfo /\ info'[e][f].local >= info[e][f].local
        BY DEF InfoGrows
      <4>1. info[e][f].local \in Nat
        BY DEF TypeOK, IndexInfo
      <4> QED  BY <3>3, <3>4, <4>1
    <3>6. EndRecorded(m)'
      <4>1. CASE m.hi > m.lo
        BY <3>3, <3>4, <4>1 DEF EndRecorded, Recorded
      <4>2. CASE m.hi = m.lo
        <5>1. EndRecorded(m)
          BY <2>1, <4>2 DEF Kept, EmptyRecorded
        <5> QED  BY <2>1, <3>5, <5>1, EndStays
      <4> QED  BY <2>1, <4>1, <4>2
    <3>7. \/ queue' = queue
          \/ queue' = Tail(queue) /\ stage' = "idle"
      BY <1>3, <2>0, <2>3 DEF UpdateSequence, EndTask
    <3>8. Queued' \subseteq Queued /\ \A k \in Queued : k \in Queued' \/ k = m
      BY <2>1, <3>7 DEF Queued
    <3>9. NotifyRecorded'
      <4>1. CASE stage' = "idle"
        BY <4>1 DEF NotifyRecorded
      <4>2. CASE queue' = queue
        <5>1. Head1' = m
          BY <2>0, <4>2 DEF Head1
        <5>2. EndRecorded(m)' <=> EndRecorded(Head1)'
          BY <5>1 DEF EndRecorded, Recorded
        <5> QED  BY <3>6, <5>2 DEF NotifyRecorded
      <4> QED  BY <3>7, <4>1, <4>2
    <3> QED  BY <1>0, <3>1, <3>5, <3>6, <3>8, <3>9, KeptStep
  <2> QED  BY <2>2, <2>3
<1>4. CASE NotifyWaiters
  <2>1. stage' = "idle" /\ queue' = Tail(queue) /\ failed' = failed /\ info' = info
        /\ InfoGrows /\ stage = "notify"
    BY <1>4, InfoStays DEF NotifyWaiters, EndTask
  <2>2. Head1 \in Message /\ Queued = {Head1} \cup MessagesOf(Tail(queue))
    BY <2>1, TaskType
  <2>3. EndRecorded(Head1)
    BY <2>1 DEF Kept, NotifyRecorded
  <2>4. \A k \in {Head1} : EndRecorded(k)'
    BY <2>1, <2>3 DEF EndRecorded, Recorded
  <2>5. Queued' \subseteq Queued /\ \A k \in Queued : k \in Queued' \/ k = Head1
    BY <2>1, <2>2 DEF Queued
  <2> QED  BY <1>0, <2>1, <2>4, <2>5, KeptStep DEF NotifyRecorded
<1> QED  BY <1>1, <1>2, <1>3, <1>4

(* A connection starts from the index info, and what the peer sends first  *)
(* follows its start.                                                      *)
LEMMA ConnectKept ==
  ASSUME TypeOK, TypeOK', Kept, resets = 0, NEW c \in Conn, Connect(c)
  PROVE  Kept'
<1>1. /\ start' = [start EXCEPT ![c] =
              [f \in Folder |-> DeltaStart(info[DeviceOf[c]][f], IndexOf(c))]]
      /\ UNCHANGED <<sent, pool, queue, stage, info, failed>>
  BY DEF Connect
<1>2. Queued' = Queued /\ Head1' = Head1
  BY <1>1 DEF Queued, Head1
<1>3. StartsRecorded'
  <2> SUFFICES ASSUME NEW b \in Conn, NEW f \in Folder, start'[b][f] > 0
               PROVE  /\ info[DeviceOf[b]][f] # NoInfo
                      /\ info[DeviceOf[b]][f].local >= start'[b][f]
    BY <1>1 DEF StartsRecorded, Recorded
  <2>1. CASE b = c
    <3>1. start'[b][f] = DeltaStart(info[DeviceOf[c]][f], IndexOf(c))
      BY <1>1, <2>1 DEF TypeOK
    <3>2. info[DeviceOf[c]][f] \in IndexInfo \cup {NoInfo}
      BY ConstantsAssumption DEF TypeOK
    <3> QED  BY <2>1, <3>1, <3>2 DEF DeltaStart, IndexInfo
  <2>2. CASE b # c
    BY <1>1, <2>2 DEF Kept, StartsRecorded, Recorded, TypeOK
  <2> QED  BY <2>1, <2>2
<1>4. EmptyRecorded' /\ NotifyRecorded'
  BY <1>1, <1>2 DEF Kept, EmptyRecorded, NotifyRecorded, EndRecorded, Recorded
<1>5. SequenceNotForgotten'
  BY <1>1, <1>2 DEF Kept, SequenceNotForgotten, Connect
<1> QED  BY <1>3, <1>4, <1>5 DEF Kept

LEMMA ReceiveIndexKept ==
  ASSUME TypeOK, TypeOK', Kept, resets = 0, NEW c \in Conn, NEW f \in Folder,
         NEW hi \in 0..Len(Log[IndexOf(c)][f]), ReceiveIndex(c, f, hi)
  PROVE  Kept'
<1> DEFINE first == sent[c][f] = -1
           lo == IF first THEN start[c][f] ELSE sent[c][f]
           new == [conn |-> c, folder |-> f, lo |-> lo, hi |-> hi]
<1>1. /\ IF first THEN hi >= lo ELSE hi > lo
      /\ sent' = [sent EXCEPT ![c][f] = hi] /\ pool' = pool \cup {new}
      /\ UNCHANGED <<start, queue, stage, info, failed>>
  BY DEF ReceiveIndex
<1>2. Queued' = Queued /\ Head1' = Head1
  BY <1>1 DEF Queued, Head1
<1>3. StartsRecorded' /\ NotifyRecorded'
  BY <1>1, <1>2 DEF Kept, StartsRecorded, NotifyRecorded, EndRecorded, Recorded
<1>4. hi \in Nat /\ lo \in Nat /\ sent[c][f] \in Nat \cup {-1}
  BY ConstantsAssumption DEF IndexOf, TypeOK
<1>5. new.lo = new.hi => EndRecorded(new)
  <2> SUFFICES ASSUME lo = hi, hi > 0 PROVE Recorded(DeviceOf[c], f, hi)
    BY DEF EndRecorded
  <2>1. first
    BY <1>1, <1>4
  <2> QED  BY <2>1 DEF Kept, StartsRecorded
<1>6. EmptyRecorded'
  <2> SUFFICES ASSUME NEW m \in pool \cup Queued \cup {new}, m.lo = m.hi PROVE EndRecorded(m)
    BY <1>1, <1>2 DEF EmptyRecorded, EndRecorded, Recorded
  <2> HIDE DEF new
  <2> QED  BY <1>5 DEF Kept, EmptyRecorded
<1>7. SequenceNotForgotten'
  <2> SUFFICES ASSUME NEW b \in Conn, NEW g \in Folder, sent'[b][g] > 0
               PROVE  \/ /\ info[DeviceOf[b]][g] # NoInfo
                         /\ info[DeviceOf[b]][g].local >= sent'[b][g]
                      \/ \E m \in (pool \cup Queued \cup failed)' :
                           m.conn = b /\ m.folder = g /\ m.hi = sent'[b][g]
    BY <1>1 DEF SequenceNotForgotten
  <2>1. CASE b = c /\ g = f
    <3>1. sent'[b][g] = hi /\ new \in (pool \cup Queued \cup failed)'
      BY <1>1, <2>1 DEF TypeOK
    <3> QED  BY <2>1, <3>1
  <2>2. CASE b # c \/ g # f
    <3>1. sent'[b][g] = sent[b][g]
      BY <1>1, <2>2 DEF TypeOK
    <3>2. pool \cup Queued \cup failed \subseteq (pool \cup Queued \cup failed)'
      BY <1>1, <1>2
    <3> QED  BY <3>1, <3>2 DEF Kept, SequenceNotForgotten
  <2> QED  BY <2>1, <2>2
<1> QED  BY <1>3, <1>6, <1>7 DEF Kept

LEMMA HandleIndexMessageKept ==
  ASSUME TypeOK, TypeOK', QueueOK, Kept, resets = 0, NEW m \in pool,
         NEW stored \in BOOLEAN, HandleIndexMessage(m, stored)
  PROVE  Kept'
<1>1. UNCHANGED <<start, sent, stage, info>> /\ InfoGrows /\ pool' = pool \ {m}
  BY InfoStays DEF HandleIndexMessage
<1>2. m \in Message /\ queue \in Seq(Task)
  BY DEF TypeOK
<1>3. CASE queue' = queue /\ failed' = failed \cup {m}
  <2>1. Queued' = Queued /\ Head1' = Head1
    BY <1>3 DEF Queued, Head1
  <2>2. NotifyRecorded'
    BY <1>1, <2>1 DEF Kept, NotifyRecorded, EndRecorded, Recorded
  <2> QED  BY <1>1, <1>3, <2>1, <2>2, KeptStep
<1>4. CASE failed' = failed
           /\ queue' = Append(queue, [msg |-> m, cc |-> conn[m.conn] # "connected"])
  <2>1. [msg |-> m, cc |-> conn[m.conn] # "connected"] \in Task
    BY <1>2 DEF Task
  <2>2. Queued' = Queued \cup {m} /\ (queue # <<>> => Head1' = Head1)
    BY <1>2, <1>4, <2>1, AppendMessages DEF Queued, Head1
  <2>3. NotifyRecorded'
    BY <1>1, <2>2 DEF Kept, NotifyRecorded, EndRecorded, Recorded, QueueOK
  <2> QED  BY <1>1, <1>4, <2>2, <2>3, KeptStep
<1> QED  BY <1>3, <1>4 DEF HandleIndexMessage

LEMMA KeptNext ==
  ASSUME IInv, IInv', Kept, [Next]_vars
  PROVE  Kept'
<1>0. TypeOK /\ TypeOK' /\ QueueOK /\ resets \in Nat
  BY DEF IInv, TypeOK
<1>1. CASE ClearIndex \/ Restart
  <2>1. resets' # 0
    BY <1>0, <1>1 DEF ClearIndex, Restart
  <2> QED  BY <2>1 DEF Kept
<1>2. CASE resets # 0 /\ resets' = resets
  BY <1>2 DEF Kept
<1>3. CASE resets = 0 /\ UNCHANGED <<start, sent, pool, queue, stage, failed>> /\ InfoGrows
  <2>1. Queued' = Queued /\ Head1' = Head1
    BY <1>3 DEF Queued, Head1
  <2>2. NotifyRecorded'
    <3>1. stage = "notify" => Head1 \in Message /\ EndRecorded(Head1)
      BY <1>0, <1>3, TaskType DEF Kept, NotifyRecorded
    <3>2. \A m \in Message : EndRecorded(m) => EndRecorded(m)'
      BY <1>0, <1>3, EndStays
    <3>3. \A m : m = Head1 => (EndRecorded(m)' <=> EndRecorded(Head1)')
      BY <2>1 DEF EndRecorded, Recorded
    <3> QED  BY <1>3, <3>1, <3>2, <3>3 DEF NotifyRecorded
  <2> QED  BY <1>0, <1>3, <2>1, <2>2, KeptStep
<1>4. ASSUME NEW c \in Conn, HandleClusterConfig(c) PROVE Kept'
  <2>1. InfoGrows
    <3> SUFFICES ASSUME NEW d \in Device, NEW f \in Folder, info[d][f] # NoInfo
                 PROVE  info'[d][f] # NoInfo /\ info'[d][f].local >= info[d][f].local
      BY DEF InfoGrows
    <3>1. info[d][f] \in IndexInfo /\ info[d][f].local \in Nat
      BY <1>0 DEF TypeOK, IndexInfo
    <3>2. \/ info'[d][f] = info[d][f]
          \/ /\ Announced[c][d][f] \in Nat /\ IndexSeen[c][d] \in Index
             /\ info'[d][f] = WithAnnounced(info[d][f], IndexSeen[c][d], Announced[c][d][f])
      BY <1>4, ConstantsAssumption DEF HandleClusterConfig
    <3>3. info'[d][f].local = info[d][f].local
      BY <3>1, <3>2, WithAnnouncedKeeps
    <3>4. info'[d][f] # NoInfo
      <4>1. info'[d][f] \in IndexInfo
        BY <3>1, <3>2, WithAnnouncedType
      <4> QED  BY <4>1 DEF IndexInfo, NoInfo
    <3> QED  BY <3>1, <3>3, <3>4
  <2> QED  BY <1>0, <1>2, <1>3, <1>4, <2>1 DEF HandleClusterConfig
<1>5. ASSUME NEW c \in Conn,
             \/ PublishClusterConfig(c) \/ StartWaiting(c) \/ WakeUp(c) \/ Timeout(c)
             \/ \E f \in Folder : PutFolderInfo(c, f)
      PROVE  Kept'
  <2>1. UNCHANGED <<start, sent, pool, queue, stage, failed, info, resets>>
    BY <1>5 DEF PublishClusterConfig, StartWaiting, WakeUp, Timeout, PutFolderInfo
  <2> QED  BY <1>0, <1>2, <1>3, <2>1, InfoStays
<1>6. ASSUME NEW c \in Conn, Connect(c) PROVE Kept'
  BY <1>0, <1>2, <1>6, ConnectKept DEF Connect
<1>7. ASSUME NEW c \in Conn, NEW f \in Folder, NEW hi \in 0..Len(Log[IndexOf(c)][f]),
             ReceiveIndex(c, f, hi)
      PROVE  Kept'
  BY <1>0, <1>2, <1>7, ReceiveIndexKept DEF ReceiveIndex
<1>8. ASSUME NEW m \in pool, NEW stored \in BOOLEAN, HandleIndexMessage(m, stored)
      PROVE  Kept'
  BY <1>0, <1>2, <1>8, HandleIndexMessageKept DEF HandleIndexMessage
<1>9. CASE \/ \E stored \in BOOLEAN : BeginTask(stored)
           \/ PushRecord \/ UpdateSequence \/ NotifyWaiters
  <2>1. resets' = resets
    BY <1>9 DEF BeginTask, PushRecord, UpdateSequence, NotifyWaiters
  <2> QED  BY <1>0, <1>2, <1>9, <2>1, ProcessorKept
<1>10. CASE UNCHANGED vars
  BY <1>0, <1>2, <1>3, <1>10, InfoStays DEF vars
<1> QED  BY <1>1, <1>4, <1>5, <1>6, <1>7, <1>8, <1>9, <1>10 DEF Next

(* Until a clear or a restart no sequence that a peer sent is forgotten:   *)
(* the index info has it, or a message that is on its way or failed.       *)
THEOREM SequencesKept == Spec => []SequenceNotForgotten
<1>1. Init => Kept
  BY DEF Init, Kept, StartsRecorded, EmptyRecorded, NotifyRecorded, SequenceNotForgotten,
     Queued, MessagesOf
<1>2. IInv /\ IInv' /\ Kept /\ [Next]_vars => Kept'
  BY KeptNext
<1>3. Kept => SequenceNotForgotten
  BY DEF Kept, SequenceNotForgotten
<1> QED  BY <1>1, <1>2, <1>3, Invariance, PTL DEF Spec
=============================================================================
