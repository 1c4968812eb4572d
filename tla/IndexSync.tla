----------------------------- MODULE IndexSync -----------------------------
(***************************************************************************)
(* Acquisition of the remote index: BlockExchangeConnectionHandler hands   *)
(* every received message to a cached thread pool, IndexHandler queues the *)
(* index messages for its single processor thread, which writes the file   *)
(* records and the per-device index sequences to the SQL repository, and   *)
(* clients block in waitForRemoteIndexAquired.                             *)
(*                                                                         *)
(* The remote side is external.  The index of a device is identified by an *)
(* index id; Log[x][f] is the sequence of records the owner of index x     *)
(* publishes for folder f, the i-th one with sequence number i.  A message *)
(* carries the records lo+1..hi of a log.  Everything the client does in   *)
(* a pool thread, on the processor thread or in a waiting thread is an     *)
(* action of its own.                                                      *)
(***************************************************************************)
EXTENDS Integers, Sequences, FiniteSets

CONSTANTS
  Conn,       \* connections, each used once
  Device,     \* remote devices
  Folder,     \* folders, all of them shared with us
  Path,       \* paths of the files in a folder
  Index,      \* index identities (IndexInfo.indexId)
  DeviceOf,   \* the device at the other end of a connection
  IndexSeen,  \* IndexSeen[c][d]: index id of d that the peer of c announces
  Log,        \* Log[x][f]: what the owner of index x publishes for f
  Announced,  \* Announced[c][d][f]: maximum sequence that the ClusterConfig
              \* of c's peer gives for d and f, -1 without index info
  Waiters,    \* connections on which a client waits for the index
  MaxBacklog, \* bound: messages received and not yet processed
  MaxResets   \* bound: clearIndex calls and restarts of the program

IndexOf(c) == IndexSeen[c][DeviceOf[c]]

(* A log record: its path, its modification time, and whether pushRecord   *)
(* makes a file info of it: other records (of an unsupported type, or whose*)
(* processing throws) are logged and skipped.                              *)
LogRecord == [path: Path, modified: Nat \ {0}, valid: BOOLEAN]

ASSUME ConstantsAssumption ==
  /\ DeviceOf \in [Conn -> Device]
  /\ IndexSeen \in [Conn -> [Device -> Index]]
  /\ Log \in [Index -> [Folder -> Seq(LogRecord)]]
  /\ Announced \in [Conn -> [Device -> [Folder -> Nat \cup {-1}]]]
  /\ Waiters \subseteq Conn
  /\ MaxBacklog \in Nat
  /\ MaxResets \in Nat

VARIABLES
  conn,       \* progress of the ClusterConfig exchange on a connection
  known,      \* folders in ClusterConfigInfo.folderInfoById
  start,      \* local sequence that our own ClusterConfig announced
  sent,       \* last sequence the peer sent; -1 before its Index message
  pool,       \* index messages in threads of messageProcessingService
  queue,      \* tasks of IndexMessageProcessor.executorService
  stage,      \* where the processor is in the task at the head of queue
  pos,        \* sequence of the last record of that task it went through
  info,       \* index_info: IndexInfo per device and folder, or NoInfo
  store,      \* file_info: last_modified per folder and path, 0 for no row
  tempOk,     \* the table temporary_data exists
  waiter,     \* the thread in waitForRemoteIndexAquired on a connection
  quiet,      \* nothing called markActive since that thread began to wait
  handled,    \* history: records addRecord has gone through
  lost,       \* history: records dropped without reaching addRecord
  failed,     \* history: messages whose sequence was not recorded
  resets      \* clearIndex calls and restarts so far

peerVars    == <<conn, known, start, sent>>
taskVars    == <<pool, queue, stage, pos>>
dbVars      == <<info, store, tempOk>>
waitVars    == <<waiter, quiet>>
historyVars == <<handled, lost, failed>>
vars == <<peerVars, taskVars, dbVars, waitVars, historyVars, resets>>

NoInfo == [id |-> "none"]
IndexInfo == [id: Index, local: Nat, max: Nat \cup {-1}]
Message == [conn: Conn, folder: Folder, lo: Nat, hi: Nat]
Task == [msg: Message, cc: BOOLEAN]
RecordId == [index: Index, folder: Folder, seq: Nat]

Record(r) == Log[r.index][r.folder][r.seq]
RecordAt(m, i) == [index |-> IndexOf(m.conn), folder |-> m.folder, seq |-> i]
RecordsOf(m) == {RecordAt(m, i) : i \in (m.lo + 1)..m.hi}

Head1 == queue[1].msg
MessagesOf(q) == {q[i].msg : i \in 1..Len(q)}
Queued == MessagesOf(queue)

Init ==
  /\ conn = [c \in Conn |-> "new"]
  /\ known = [c \in Conn |-> {}]
  /\ start = [c \in Conn |-> [f \in Folder |-> 0]]
  /\ sent = [c \in Conn |-> [f \in Folder |-> -1]]
  /\ pool = {} /\ queue = <<>> /\ stage = "idle" /\ pos = 0
  /\ info = [d \in Device |-> [f \in Folder |-> NoInfo]]
  /\ store = [f \in Folder |-> [p \in Path |-> 0]]
  /\ tempOk = TRUE
  /\ waiter = [c \in Conn |-> "idle"]
  /\ quiet = [c \in Conn |-> FALSE]
  /\ handled = {} /\ lost = {} /\ failed = {}
  /\ resets = 0

(***************************************************************************)
(* The connection and its ClusterConfig.                                   *)
(***************************************************************************)

(* Our ClusterConfig carries the local sequence of the index of the peer;  *)
(* a peer that still has this index resumes after it.                      *)
DeltaStartFromMax(i, id) == IF i # NoInfo /\ i.id = id /\ i.max > 0 THEN i.max ELSE 0
DeltaStart(i, id) == IF i # NoInfo /\ i.id = id THEN i.local ELSE 0

Connect(c) ==
  /\ conn[c] = "new"
  /\ conn' = [conn EXCEPT ![c] = "connected"]
  /\ start' = [start EXCEPT ![c] =
       [f \in Folder |-> DeltaStart(info[DeviceOf[c]][f], IndexOf(c))]]
  /\ UNCHANGED <<known, sent, taskVars, dbVars, waitVars, historyVars, resets>>

(* CLUSTER_CONFIG: the field is assigned before the object is filled...    *)
PublishClusterConfig(c) ==
  /\ conn[c] = "connected"
  /\ conn' = [conn EXCEPT ![c] = "filling"]
  /\ quiet' = [quiet EXCEPT ![c] = FALSE]
  /\ UNCHANGED <<known, start, sent, taskVars, dbVars, waiter,
                 historyVars, resets>>

(* ... one folder at a time.                                               *)
PutFolderInfo(c, f) ==
  /\ conn[c] = "filling"
  /\ f \notin known[c]
  /\ known' = [known EXCEPT ![c] = @ \cup {f}]
  /\ UNCHANGED <<conn, start, sent, taskVars, dbVars, waitVars,
                 historyVars, resets>>

(* IndexHandler.updateIndexInfo for a stored info or NoInfo, with an index *)
(* id and a maximum from a ClusterConfig, ...                              *)
WithAnnouncedReset(i, id, max) ==
  [id |-> id, local |-> 0, max |-> IF i # NoInfo /\ i.max > max THEN i.max ELSE max]
WithAnnounced(i, id, max) ==
  LET old == IF i = NoInfo THEN [id |-> id, local |-> 0, max |-> -1] ELSE i
  IN  [id    |-> id,
       local |-> old.local,
       max   |-> IF max > old.max THEN max ELSE old.max]

(* ... and with the last sequence of an index message: checkNotNull(indexId)*)
(* fails when there is no info.                                            *)
IndexIdKnown(d, f) == info[d][f] # NoInfo
WithLocalUnguarded(i, local) == [i EXCEPT !.local = local]
WithLocal(i, local) ==
  [i EXCEPT !.local = IF local > i.local THEN local ELSE i.local]

(* handleClusterConfigMessageProcessedEvent: under writeAccessLock; nobody *)
(* is notified on indexWaitLock.                                           *)
HandleClusterConfig(c) ==
  /\ conn[c] = "filling"
  /\ known[c] = Folder
  /\ conn' = [conn EXCEPT ![c] = "recorded"]
  /\ info' = [d \in Device |-> [f \in Folder |->
       IF Announced[c][d][f] = -1
       THEN info[d][f]
       ELSE WithAnnounced(info[d][f], IndexSeen[c][d], Announced[c][d][f])]]
  /\ UNCHANGED <<known, start, sent, taskVars, store, tempOk,
                 waitVars, historyVars, resets>>

(***************************************************************************)
(* Index messages.                                                         *)
(***************************************************************************)

(* The peer sends the Index message of a folder, possibly empty, and then  *)
(* IndexUpdates; the receiver thread gives each one to a pool thread.      *)
ReceiveIndex(c, f, hi) ==
  /\ conn[c] \in {"connected", "filling", "recorded"}
  /\ Cardinality(pool) + Len(queue) < MaxBacklog
  /\ LET first == sent[c][f] = -1
         lo    == IF first THEN start[c][f] ELSE sent[c][f]
     IN  /\ IF first THEN hi >= lo ELSE hi > lo
         /\ hi <= Len(Log[IndexOf(c)][f])
         /\ sent' = [sent EXCEPT ![c][f] = hi]
         /\ pool' = pool \cup {[conn |-> c, folder |-> f, lo |-> lo, hi |-> hi]}
  /\ quiet' = [quiet EXCEPT ![c] = FALSE]
  /\ UNCHANGED <<conn, known, start, queue, stage, pos, dbVars,
                 waiter, historyVars, resets>>

(* handleIndexMessageReceivedEvent in a pool thread, in any order.  The    *)
(* message is kept in memory or stored as temporary data: queuedMessages,  *)
(* which decides, is incremented by the pool threads and decremented by    *)
(* the processor without synchronization, so the test can go either way.   *)
(* The choice is made where it matters: when the message is pushed, and    *)
(* when it is popped, without a table for temporary data.                  *)
(* The clusterConfigInfo of the connection, null or not, is captured here. *)
HandleIndexMessage(m, stored) ==
  /\ m \in pool
  /\ pool' = pool \ {m}
  /\ quiet' = [c \in Conn |-> FALSE]
  /\ IF stored /\ ~tempOk
     THEN /\ lost' = lost \cup RecordsOf(m)     \* pushTempData throws
          /\ failed' = failed \cup {m}
          /\ UNCHANGED queue
     ELSE /\ queue' = Append(queue, [msg |-> m, cc |-> conn[m.conn] # "connected"])
          /\ UNCHANGED <<lost, failed>>
  /\ UNCHANGED <<peerVars, stage, pos, dbVars, waiter, handled, resets>>

(* The processor takes the next task; popTempData throws without its table.*)
BeginTask(stored) ==
  /\ stage = "idle" /\ queue # <<>>
  /\ quiet' = [c \in Conn |-> FALSE]
  /\ IF stored /\ ~tempOk
     THEN /\ lost' = lost \cup RecordsOf(Head1)
          /\ failed' = failed \cup {Head1}
          /\ queue' = Tail(queue)
          /\ UNCHANGED <<stage, pos>>
     ELSE /\ stage' = "records" /\ pos' = Head1.lo
          /\ UNCHANGED <<queue, lost, failed>>
  /\ UNCHANGED <<peerVars, pool, dbVars, waiter, handled, resets>>

(* addRecord: a record not newer than the stored one is discarded.         *)
AddRecordUnguarded(f, path, modified) ==
  store' = [store EXCEPT ![f][path] = modified]
AddRecord(f, path, modified) ==
  store' = IF store[f][path] # 0 /\ ~(modified > store[f][path])
           THEN store
           ELSE [store EXCEPT ![f][path] = modified]

(* One round of the loop over the records of a message.                    *)
PushRecord ==
  /\ stage = "records" /\ pos < Head1.hi
  /\ pos' = pos + 1
  /\ LET r == RecordAt(Head1, pos + 1)
     IN  IF Record(r).valid
         THEN /\ AddRecord(r.folder, Record(r).path, Record(r).modified)
              /\ handled' = handled \cup {r}
              /\ UNCHANGED lost
         ELSE /\ lost' = lost \cup {r}
              /\ UNCHANGED <<store, handled>>
  /\ quiet' = [c \in Conn |-> FALSE]
  /\ UNCHANGED <<peerVars, pool, queue, stage, info, tempOk, waiter, failed,
                 resets>>

EndTask == queue' = Tail(queue) /\ stage' = "idle" /\ pos' = 0

(* The exception of a task is logged and the task is over.                 *)
FailTaskRetry(m) ==
  /\ queue' = Append(Tail(queue), Head(queue)) /\ stage' = "idle" /\ pos' = 0
  /\ UNCHANGED failed
FailTask(m) == failed' = failed \cup {m} /\ EndTask

(* updateIndexInfo(folder, peerDeviceId, null, null, sequence) after the   *)
(* last record; the sequence of an empty message is -1.  An empty message  *)
(* ends here: the log statement divides by its number of records.          *)
UpdateSequence ==
  LET m == Head1
      d == DeviceOf[m.conn]
      sequence == IF m.hi > m.lo THEN m.hi ELSE -1
  IN  /\ stage = "records" /\ pos = m.hi
      /\ IF IndexIdKnown(d, m.folder)
         THEN /\ info' = [info EXCEPT ![d][m.folder] = WithLocal(@, sequence)]
              /\ UNCHANGED failed
              /\ IF m.hi > m.lo
                 THEN stage' = "notify" /\ UNCHANGED <<queue, pos>>
                 ELSE EndTask
         ELSE FailTask(m) /\ UNCHANGED info
      /\ UNCHANGED <<peerVars, pool, store, tempOk, waitVars, handled, lost,
                     resets>>

(* The end of the task: isRemoteIndexAquired fails on a null               *)
(* clusterConfigInfo, otherwise the waiting threads are notified.          *)
NotifyWaiters ==
  /\ stage = "notify"
  /\ EndTask
  /\ IF queue[1].cc
     THEN /\ quiet' = [c \in Conn |-> FALSE]
          /\ waiter' = [c \in Conn |->
               IF waiter[c] = "waiting" THEN "notified" ELSE waiter[c]]
     ELSE UNCHANGED waitVars
  /\ UNCHANGED <<peerVars, pool, dbVars, historyVars, resets>>

(***************************************************************************)
(* waitForRemoteIndexAquired: the test and the wait hold indexWaitLock.    *)
(***************************************************************************)

FolderAquired(i) == i # NoInfo /\ i.local >= i.max

isRemoteIndexAquired(c) == \A f \in known[c] : FolderAquired(info[DeviceOf[c]][f])

(* One evaluation of the loop's condition; the wait begins at once.        *)
TestCondition(c) ==
  /\ waiter' = [waiter EXCEPT ![c] =
                  IF isRemoteIndexAquired(c) THEN "done" ELSE "waiting"]
  /\ quiet' = [quiet EXCEPT ![c] = ~isRemoteIndexAquired(c)]

StartWaiting(c) ==
  /\ c \in Waiters
  /\ conn[c] \in {"filling", "recorded"}
  /\ waiter[c] = "idle"
  /\ TestCondition(c)
  /\ UNCHANGED <<peerVars, taskVars, dbVars, historyVars, resets>>

(* After a notify the connection has just been active: test again.         *)
WakeUp(c) ==
  /\ waiter[c] = "notified"
  /\ TestCondition(c)
  /\ UNCHANGED <<peerVars, taskVars, dbVars, historyVars, resets>>

(* After the timeout the activity is checked before the condition: with    *)
(* none since the wait began, checkArgument throws.                        *)
TimeoutUnchecked(c) ==
  /\ waiter[c] = "waiting"
  /\ TestCondition(c)
  /\ UNCHANGED <<peerVars, taskVars, dbVars, historyVars, resets>>
Timeout(c) ==
  /\ waiter[c] = "waiting"
  /\ IF quiet[c]
     THEN /\ waiter' = [waiter EXCEPT ![c] = "failed"]
          /\ UNCHANGED quiet
     ELSE TestCondition(c)
  /\ UNCHANGED <<peerVars, taskVars, dbVars, historyVars, resets>>

(***************************************************************************)
(* Clearing and restarting.  close() needs no action: the tasks that the   *)
(* pool and the queue hold still run, and the peer may stop sending.       *)
(***************************************************************************)

(* clearIndex(): DROP ALL OBJECTS takes temporary_data with it, and only   *)
(* the constructor of SqlRepository creates that table.                    *)
ClearIndex ==
  /\ resets < MaxResets
  /\ resets' = resets + 1
  /\ info' = [d \in Device |-> [f \in Folder |-> NoInfo]]
  /\ store' = [f \in Folder |-> [p \in Path |-> 0]]
  /\ tempOk' = FALSE
  /\ lost' = lost \cup handled
  /\ handled' = {}
  /\ UNCHANGED <<peerVars, taskVars, waitVars, failed>>

(* The program stops, at any point, and starts again: the pool, the queue  *)
(* and the temporary data are gone, index_info and file_info are not.      *)
Restart ==
  /\ resets < MaxResets
  /\ resets' = resets + 1
  /\ conn' = [c \in Conn |-> IF conn[c] = "new" THEN "new" ELSE "ended"]
  /\ lost' = lost \cup UNION {RecordsOf(m) : m \in pool \cup Queued}
  /\ failed' = failed \cup pool \cup Queued
  /\ pool' = {} /\ queue' = <<>> /\ stage' = "idle" /\ pos' = 0
  /\ tempOk' = TRUE
  /\ waiter' = [c \in Conn |-> "idle"]
  /\ quiet' = [c \in Conn |-> FALSE]
  /\ UNCHANGED <<known, start, sent, info, store, handled>>

Next ==
  \/ \E c \in Conn :
       \/ Connect(c) \/ PublishClusterConfig(c) \/ HandleClusterConfig(c)
       \/ StartWaiting(c) \/ WakeUp(c) \/ Timeout(c)
  \/ \E c \in Conn, f \in Folder : PutFolderInfo(c, f)
  \/ \E c \in Conn, f \in Folder :
       \E hi \in 0..Len(Log[IndexOf(c)][f]) : ReceiveIndex(c, f, hi)
  \/ \E m \in pool, stored \in BOOLEAN : HandleIndexMessage(m, stored)
  \/ \E stored \in BOOLEAN : BeginTask(stored)
  \/ PushRecord
  \/ UpdateSequence
  \/ NotifyWaiters
  \/ ClearIndex
  \/ Restart

Spec == Init /\ [][Next]_vars

(* Fairness: the executors run what was submitted to them, and a timed     *)
(* wait ends.  Nothing is assumed of the peer, nor that anybody closes,    *)
(* clears, restarts or begins to wait.                                     *)
Processor ==
  \/ \E stored \in BOOLEAN : BeginTask(stored)
  \/ PushRecord
  \/ UpdateSequence
  \/ NotifyWaiters

Fairness ==
  /\ \A c \in Conn : /\ WF_vars(PublishClusterConfig(c))
                     /\ WF_vars(\E f \in Folder : PutFolderInfo(c, f))
                     /\ WF_vars(HandleClusterConfig(c))
                     /\ WF_vars(WakeUp(c) \/ Timeout(c))
  /\ WF_vars(\E m \in pool, stored \in BOOLEAN : HandleIndexMessage(m, stored))
  /\ WF_vars(Processor)

FairSpec == Spec /\ Fairness

(***************************************************************************)
(* Properties.                                                             *)
(***************************************************************************)

(* The variables keep their types.                                         *)
TypeOK ==
  /\ conn \in [Conn -> {"new", "connected", "filling", "recorded", "ended"}]
  /\ known \in [Conn -> SUBSET Folder]
  /\ start \in [Conn -> [Folder -> Nat]]
  /\ sent \in [Conn -> [Folder -> Nat \cup {-1}]]
  /\ pool \subseteq Message
  /\ queue \in Seq(Task)
  /\ stage \in {"idle", "records", "notify"}
  /\ pos \in Nat
  /\ info \in [Device -> [Folder -> IndexInfo \cup {NoInfo}]]
  /\ store \in [Folder -> [Path -> Nat]]
  /\ tempOk \in BOOLEAN
  /\ waiter \in [Conn -> {"idle", "waiting", "notified", "done", "failed"}]
  /\ quiet \in [Conn -> BOOLEAN]
  /\ handled \subseteq RecordId
  /\ lost \subseteq RecordId
  /\ failed \subseteq Message
  /\ resets \in 0..MaxResets

(* Whatever the order in which pool threads queue the messages, and        *)
(* whichever connection delivers them, the last modification time stored   *)
(* for a path is the newest of all the records addRecord went through.     *)
StoreIsNewest ==
  \A f \in Folder, p \in Path :
    LET times == {Record(r).modified :
                    r \in {h \in handled : h.folder = f /\ Record(h).path = p}}
    IN  /\ \A t \in times : t <= store[f][p]
        /\ store[f][p] # 0 => store[f][p] \in times

SingleIndex(d) == \A a, b \in Conn : IndexSeen[a][d] = IndexSeen[b][d]

Accounted ==
  handled \cup lost \cup UNION {RecordsOf(m) : m \in pool \cup Queued}

Covered(x, f, n) ==
  \A i \in 1..n : [index |-> x, folder |-> f, seq |-> i] \in Accounted

(* The delta index: every record that our ClusterConfig tells the peer to  *)
(* skip was handled, is in a message still to be processed, or was lost in *)
(* one of the known ways (clearIndex, restart, missing temporary data,     *)
(* failed or unsupported record).  It holds although messages of a         *)
(* connection are queued out of order, for a device that kept its index.   *)
DeltaIndexComplete ==
  \A c \in Conn, f \in Folder :
    SingleIndex(DeviceOf[c]) => Covered(IndexOf(c), f, start[c][f])

(* The inductive invariant behind DeltaIndexComplete: the records behind   *)
(* the processor's position are dealt with, and every sequence number      *)
(* anywhere in the client or on the wire covers records accounted for.     *)
QueueOK ==
  /\ \A m \in pool \cup Queued :
       m.lo <= m.hi /\ m.hi <= Len(Log[IndexOf(m.conn)][m.folder])
  /\ stage # "idle" =>
       /\ queue # <<>>
       /\ pos \in Head1.lo..Head1.hi
       /\ stage = "notify" => pos = Head1.hi
       /\ \A i \in (Head1.lo + 1)..pos : RecordAt(Head1, i) \in handled \cup lost

SequencesCovered ==
  \A c \in Conn, f \in Folder :
    SingleIndex(DeviceOf[c]) =>
      /\ Covered(IndexOf(c), f, start[c][f])
      /\ Covered(IndexOf(c), f, sent[c][f])
      /\ LET i == info[DeviceOf[c]][f]
         IN  i # NoInfo => Covered(IndexOf(c), f, i.local)
      /\ \A m \in pool \cup Queued :
           m.conn = c /\ m.folder = f => Covered(IndexOf(c), f, m.hi)

IInv == TypeOK /\ QueueOK /\ SequencesCovered

(* Without clearIndex and restarts, the last sequence a peer sent is       *)
(* recorded in the index info, or is in a message still to be processed,   *)
(* or its message is one whose updateIndexInfo failed.                     *)
SequenceNotForgotten ==
  \A c \in Conn, f \in Folder :
    resets = 0 /\ sent[c][f] > 0 =>
      \/ /\ info[DeviceOf[c]][f] # NoInfo
         /\ info[DeviceOf[c]][f].local >= sent[c][f]
      \/ \E m \in pool \cup Queued \cup failed :
           m.conn = c /\ m.folder = f /\ m.hi = sent[c][f]

(* Whatever fails in a task, the processor goes on to the next one: what   *)
(* was received is eventually processed.                                   *)
PipelineDrains == []<>(pool = {} /\ queue = <<>>)

(* A thread in waitForRemoteIndexAquired gets an answer: the peer can only *)
(* keep it waiting by sending.                                             *)
WaiterAnswered ==
  \A c \in Conn : waiter[c] \in {"waiting", "notified"}
                    ~> waiter[c] \in {"idle", "done", "failed"}
=============================================================================
