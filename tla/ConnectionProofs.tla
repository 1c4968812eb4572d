-------------------------- MODULE ConnectionProofs --------------------------
(***************************************************************************)
(* Theorems about Connection, for any folders, attempts and failures: what *)
(* the user of a connection that openConnection returned may rely on.      *)
(***************************************************************************)
EXTENDS Connection, SequenceTheorems, TLAPS

(***************************************************************************)
(* The part of the state that the theorems are about.                      *)
(***************************************************************************)
folderVars == <<callerVars, clientVars, receiveVars, reported>>

CallerState == {"connect", "hello", "listen", "test", "waiting", "index", "connected",
                "added", "failed", "closing", "thrown", "restarting", "returned"}

TypeInv ==
  /\ at \in Connections /\ caller \in CallerState
  /\ config \subseteq Folder /\ listed \subseteq Connections
  /\ restart \in [Connections -> BOOLEAN] /\ early \in [Connections -> BOOLEAN]
  /\ reported \in [Connections -> BOOLEAN]
  /\ receiver \in [Connections -> {"off", "on", "stopped"}]
  /\ pool \in [Connections -> SUBSET Received]
  /\ cc \in [Connections -> {"none", "filling", "done"}]
  /\ known \in [Connections -> SUBSET Folder]
  /\ announced \in [Connections -> SUBSET Folder]

(* A ClusterConfig is filled once; connections to come are untouched.      *)
ConfigOK ==
  \A h \in Connections :
    /\ "clusterConfig" \in pool[h] => cc[h] = "none"
    /\ cc[h] = "done" => known[h] = Folder
    /\ known[h] \subseteq config
    /\ h > at => cc[h] = "none" /\ receiver[h] = "off" /\ pool[h] = {}

(* Where connect() has gone on, the ClusterConfig is filled, unless early. *)
Tested == {"index", "connected", "added", "restarting", "returned"}
FilledOK ==
  /\ caller \in Tested /\ ~early[at] => cc[at] = "done"
  /\ \A h \in 1..(at - 1) : ~early[h] => cc[h] = "done"

(* A folder that came after our ClusterConfig was sent asks for a restart. *)
Announced == {"listen", "test", "waiting"} \cup Tested
NeverEarlyBefore == \A h \in 1..(at - 1) : ~early[h]
RestartOK ==
  /\ caller \in Announced /\ NeverEarlyBefore => config \subseteq announced[at] \/ restart[at]
  /\ caller = "returned" /\ ~early[at] => ~restart[at]

ListedOK == caller \in {"added", "returned"} /\ ~reported[at] => at \in listed

IInv == TypeInv /\ ConfigOK /\ FilledOK /\ RestartOK /\ ListedOK

LEMMA InitIInv == Init => IInv
<1> SUFFICES ASSUME Init PROVE IInv
  OBVIOUS
<1>1. 1 \in Connections
  BY ConnectionAssumption DEF Connections
<1>2. TypeInv
  BY <1>1, ConnectionAssumption DEF Init, TypeInv, CallerState
<1>3. ConfigOK
  BY DEF Init, ConfigOK
<1>4. FilledOK /\ RestartOK /\ ListedOK
  BY <1>1 DEF Init, FilledOK, RestartOK, ListedOK, Tested, Announced
<1> QED  BY <1>2, <1>3, <1>4 DEF IInv

LEMMA Unchanged == ASSUME IInv, UNCHANGED folderVars PROVE IInv'
BY DEF IInv, TypeInv, ConfigOK, FilledOK, RestartOK, NeverEarlyBefore, ListedOK, folderVars,
   callerVars, clientVars, receiveVars

(* Steps of openConnection that change only where it is: it may go on to a *)
(* place that asks no more than the one it comes from.                     *)
Weaker(from, to) ==
  /\ to \in Tested => from \in Tested
  /\ to \in Announced => from \in Announced
  /\ to # "returned" /\ (to = "added" => from = "added")

LEMMA GoesOn ==
  ASSUME IInv, caller' \in CallerState, Weaker(caller, caller'),
         UNCHANGED <<at, listed, announced, early, clientVars, receiveVars, reported>>
  PROVE  IInv'
<1>1. TypeInv' /\ ConfigOK'
  BY DEF IInv, TypeInv, ConfigOK, clientVars, receiveVars
<1>2. FilledOK'
  BY DEF IInv, FilledOK, Weaker, receiveVars
<1>3. RestartOK' /\ ListedOK'
  BY DEF IInv, RestartOK, NeverEarlyBefore, ListedOK, Weaker, clientVars
<1> QED  BY <1>1, <1>2, <1>3 DEF IInv

LEMMA CallerIInv ==
  ASSUME IInv,
         \/ OpenSocket \/ HelloFails \/ HandleHello \/ StartListener \/ TestClusterConfig
         \/ SendIndexes \/ CloseFailed \/ Throw \/ AddConnection \/ Return \/ Restart
         \/ OpenAgain
  PROVE  IInv'
<1>t. TypeInv /\ ConfigOK /\ FilledOK /\ RestartOK /\ ListedOK
  BY DEF IInv
<1>1. CASE OpenSocket \/ HelloFails \/ SendIndexes \/ CloseFailed \/ Throw \/ Restart
  <2>1. /\ caller' \in CallerState /\ Weaker(caller, caller')
        /\ UNCHANGED <<at, listed, announced, early, clientVars, receiveVars, reported>>
    BY <1>1 DEF OpenSocket, HelloFails, SendIndexes, CloseFailed, Throw, Restart, CallerState,
         Weaker, Tested, Announced, closeVars
  <2> QED  BY <2>1, GoesOn
<1>2. CASE HandleHello
  <2>1. /\ caller = "hello" /\ caller' = "listen" /\ announced' = [announced EXCEPT ![at] = config]
        /\ UNCHANGED <<at, listed, early, clientVars, receiveVars, reported>>
    BY <1>2 DEF HandleHello, closeVars
  <2>2. TypeInv' /\ ConfigOK'
    BY <1>t, <2>1 DEF TypeInv, ConfigOK, CallerState, clientVars, receiveVars
  <2>3. FilledOK' /\ ListedOK'
    BY <1>t, <2>1 DEF FilledOK, ListedOK, Tested, receiveVars
  <2>4. config' \subseteq announced'[at']
    BY <1>t, <2>1 DEF TypeInv, clientVars
  <2>5. RestartOK'
    BY <2>1, <2>4 DEF RestartOK
  <2> QED  BY <2>2, <2>3, <2>5 DEF IInv
<1>3. CASE StartListener
  <2>1. /\ caller = "listen" /\ caller' \in {"failed", "test"}
        /\ receiver' \in {receiver, [receiver EXCEPT ![at] = "on"]}
        /\ UNCHANGED <<at, listed, announced, early, clientVars, pool, cc, known, reported>>
    BY <1>3 DEF StartListener, closeVars
  <2>2. TypeInv'
    BY <1>t, <2>1 DEF TypeInv, CallerState, clientVars
  <2>3. ConfigOK'
    <3>1. at \in Nat /\ receiver \in [Connections -> {"off", "on", "stopped"}]
          /\ \A h \in Connections : h \in Nat
      BY <1>t DEF TypeInv, Connections
    <3>2. \A h \in Connections : h > at => receiver'[h] = receiver[h]
      BY <2>1, <3>1
    <3> QED  BY <1>t, <2>1, <3>2 DEF ConfigOK, clientVars
  <2>4. FilledOK' /\ ListedOK' /\ RestartOK'
    BY <1>t, <2>1 DEF FilledOK, ListedOK, RestartOK, NeverEarlyBefore, Tested, Announced, clientVars
  <2> QED  BY <2>2, <2>3, <2>4 DEF IInv
<1>4. CASE TestClusterConfig
  <2>1. /\ caller = "test"
        /\ caller' = IF cc[at] # "none" THEN "index"
                     ELSE IF closed[at] THEN "failed" ELSE "waiting"
        /\ early' = [early EXCEPT ![at] = cc[at] = "filling"]
        /\ UNCHANGED <<at, listed, announced, clientVars, receiveVars, reported>>
    BY <1>4 DEF TestClusterConfig, closeVars
  <2>2. early' \in [Connections -> BOOLEAN] /\ (early'[at] <=> cc[at] = "filling")
        /\ \A h \in 1..(at - 1) : early'[h] = early[h]
    <3> DEFINE filling == cc[at] = "filling"
    <3>1. /\ early' = [early EXCEPT ![at] = filling] /\ filling \in BOOLEAN
          /\ early \in [Connections -> BOOLEAN] /\ at \in Connections
      BY <1>t, <2>1 DEF TypeInv
    <3>2. filling <=> cc[at] = "filling"
      OBVIOUS
    <3>3. \A h \in 1..(at - 1) : h # at
      BY <1>t DEF TypeInv, Connections
    <3>4. \A h \in 1..(at - 1) : h \in Connections
      BY <1>t, ConnectionAssumption DEF TypeInv, Connections
    <3> HIDE DEF filling
    <3>5. early' \in [Connections -> BOOLEAN]
      BY <3>1, Zenon
    <3>6. early'[at] <=> filling
      BY <3>1, Zenon
    <3>7. \A h \in 1..(at - 1) : early'[h] = early[h]
      BY <3>1, <3>3, <3>4
    <3> QED  BY <3>2, <3>5, <3>6, <3>7
  <2>3. TypeInv' /\ ConfigOK'
    BY <1>t, <2>1, <2>2 DEF TypeInv, ConfigOK, CallerState, clientVars, receiveVars
  <2>4. FilledOK'
    BY <1>t, <2>1, <2>2 DEF FilledOK, TypeInv, Tested, receiveVars
  <2>5. RestartOK' /\ ListedOK'
    BY <1>t, <2>1, <2>2 DEF RestartOK, NeverEarlyBefore, ListedOK, Announced, clientVars
  <2> QED  BY <2>3, <2>4, <2>5 DEF IInv
<1>5. CASE AddConnection
  <2>1. /\ caller = "connected" /\ caller' = "added" /\ listed' = listed \cup {at}
        /\ UNCHANGED <<at, announced, early, clientVars, receiveVars, reported>>
    BY <1>5 DEF AddConnection, closeVars
  <2>2. TypeInv' /\ ConfigOK' /\ ListedOK'
    BY <1>t, <2>1 DEF TypeInv, ConfigOK, ListedOK, CallerState, clientVars, receiveVars
  <2>3. FilledOK' /\ RestartOK'
    BY <1>t, <2>1 DEF FilledOK, RestartOK, NeverEarlyBefore, Tested, Announced, clientVars,
         receiveVars
  <2> QED  BY <2>2, <2>3 DEF IInv
<1>6. CASE Return
  <2>1. /\ caller = "added" /\ ~restart[at] /\ caller' = "returned"
        /\ UNCHANGED <<at, listed, announced, early, clientVars, receiveVars, reported>>
    BY <1>6 DEF Return, closeVars
  <2>2. TypeInv' /\ ConfigOK' /\ ListedOK'
    BY <1>t, <2>1 DEF TypeInv, ConfigOK, ListedOK, CallerState, clientVars, receiveVars
  <2>3. FilledOK' /\ RestartOK'
    BY <1>t, <2>1 DEF FilledOK, RestartOK, NeverEarlyBefore, Tested, Announced, clientVars,
         receiveVars
  <2> QED  BY <2>2, <2>3 DEF IInv
<1>7. CASE OpenAgain
  <2>1. /\ caller = "restarting" /\ caller' = "connect" /\ at' = at + 1 /\ at < MaxAttempts
        /\ UNCHANGED <<listed, announced, early, clientVars, receiveVars, reported>>
    BY <1>7 DEF OpenAgain, closeVars
  <2>2. at' \in Connections /\ at \in Nat /\ MaxAttempts \in Nat
        /\ \A h \in Connections : h > at' => h > at
    BY <1>t, <2>1, ConnectionAssumption DEF TypeInv, Connections
  <2>3. TypeInv' /\ ConfigOK'
    BY <1>t, <2>1, <2>2 DEF TypeInv, ConfigOK, CallerState, clientVars, receiveVars
  <2>4. \A h \in 1..(at' - 1) : h \in 1..(at - 1) \/ h = at
    BY <2>1, <2>2
  <2>5. FilledOK'
    BY <1>t, <2>1, <2>4 DEF FilledOK, Tested, receiveVars
  <2>6. RestartOK' /\ ListedOK'
    BY <2>1 DEF RestartOK, ListedOK, Tested, Announced
  <2> QED  BY <2>3, <2>5, <2>6 DEF IInv
<1> QED  BY <1>1, <1>2, <1>3, <1>4, <1>5, <1>6, <1>7

LEMMA WakeCallerType ==
  ASSUME TypeInv, NEW h \in Connections, WakeCaller(h)
  PROVE  caller' = caller \/ (caller = "waiting" /\ caller' = "test")
BY DEF WakeCaller

(* close() and the messages: of what the theorems are about, a connection  *)
(* leaves the list when its ConnectionClosedEvent is posted.               *)
LEMMA CloseIInv ==
  ASSUME IInv, NEW h \in Connections,
         (\E t \in Closer : Close(h, t)) \/ Write(h) \/ SendMessage \/ CloseByUser
  PROVE  IInv'
<1>t. TypeInv /\ ConfigOK /\ FilledOK /\ RestartOK /\ ListedOK
  BY DEF IInv
<1>1. CASE \/ \E t \in Closer : Shutdown(h, t)
           \/ Write(h) \/ SendMessage \/ CloseByUser
  <2>1. UNCHANGED folderVars
    BY <1>1 DEF Shutdown, Write, WriteMessage, WriteFails, WriteToClosed, SendMessage, CloseByUser,
         folderVars, closeVars
  <2> QED  BY <2>1, Unchanged
<1>2. CASE \E t \in Closer : Release(h, t)
  <2>1. /\ reported' = [reported EXCEPT ![h] = TRUE] /\ listed' = listed \ {h}
        /\ caller' = caller \/ (caller = "waiting" /\ caller' = "test")
        /\ UNCHANGED <<at, announced, early, receiveVars, clientVars>>
    BY <1>t, <1>2, WakeCallerType DEF Release
  <2>2. TypeInv' /\ ConfigOK'
    BY <1>t, <2>1 DEF TypeInv, ConfigOK, CallerState, clientVars, receiveVars
  <2>3. FilledOK' /\ RestartOK'
    BY <1>t, <2>1 DEF FilledOK, RestartOK, NeverEarlyBefore, Tested, Announced, clientVars,
         receiveVars
  <2>4. ListedOK'
    BY <1>t, <2>1 DEF ListedOK, TypeInv
  <2> QED  BY <2>2, <2>3, <2>4 DEF IInv
<1> QED  BY <1>1, <1>2 DEF Close

LEMMA ReceiveIInv ==
  ASSUME IInv, NEW h \in Connections,
         \/ \E m \in Received : ReceiveMessage(h, m)
         \/ ReceiverFails(h) \/ HandleFatal(h) \/ PublishClusterConfig(h)
  PROVE  IInv'
<1>t. TypeInv /\ ConfigOK /\ FilledOK /\ RestartOK /\ ListedOK
  BY DEF IInv
<1>1. CASE (\E m \in Received : ReceiveMessage(h, m)) \/ ReceiverFails(h) \/ HandleFatal(h)
  <2>1. UNCHANGED <<callerVars, clientVars, cc, known, reported>>
    BY <1>1 DEF ReceiveMessage, ReceiverFails, HandleFatal, closeVars
  <2>2. /\ receiver' \in {receiver, [receiver EXCEPT ![h] = "stopped"]}
        /\ \/ pool' = pool
           \/ pool' = [pool EXCEPT ![h] = @ \ {"fatal"}]
           \/ \E m \in Received : /\ pool' = [pool EXCEPT ![h] = @ \cup {m}]
                                  /\ m = "clusterConfig" => cc[h] = "none"
    BY <1>1 DEF ReceiveMessage, ReceiverFails, HandleFatal
  <2>3. receiver[h] = "on" \/ pool[h] # {}
    BY <1>1 DEF ReceiveMessage, ReceiverFails, HandleFatal
  <2>4. ~(h > at)
    BY <1>t, <2>3 DEF ConfigOK
  <2>5. TypeInv'
    <3>1. receiver' \in [Connections -> {"off", "on", "stopped"}]
      BY <1>t, <2>2 DEF TypeInv
    <3>2. pool' \in [Connections -> SUBSET Received]
      BY <1>t, <2>2 DEF TypeInv
    <3> QED  BY <1>t, <2>1, <3>1, <3>2 DEF TypeInv, callerVars, clientVars
  <2>6. ASSUME NEW k \in Connections
        PROVE  /\ "clusterConfig" \in pool'[k] => cc[k] = "none"
               /\ k # h => receiver'[k] = receiver[k] /\ pool'[k] = pool[k]
    <3>1. k # h => receiver'[k] = receiver[k] /\ pool'[k] = pool[k]
      BY <1>t, <2>2 DEF TypeInv
    <3>2. k = h => ("clusterConfig" \in pool'[h] => cc[h] = "none")
      BY <1>t, <2>2 DEF TypeInv, ConfigOK
    <3> QED  BY <1>t, <3>1, <3>2 DEF ConfigOK
  <2>7. ConfigOK'
    BY <1>t, <2>1, <2>4, <2>6 DEF ConfigOK, callerVars, clientVars
  <2>8. FilledOK' /\ RestartOK' /\ ListedOK'
    BY <1>t, <2>1 DEF FilledOK, RestartOK, NeverEarlyBefore, ListedOK, callerVars, clientVars
  <2> QED  BY <2>5, <2>7, <2>8 DEF IInv
<1>2. CASE PublishClusterConfig(h)
  <2>1. /\ "clusterConfig" \in pool[h] /\ pool' = [pool EXCEPT ![h] = @ \ {"clusterConfig"}]
        /\ cc' = [cc EXCEPT ![h] = "filling"]
        /\ UNCHANGED <<callerVars, clientVars, receiver, known, reported>>
    BY <1>2 DEF PublishClusterConfig, closeVars
  <2>2. cc[h] = "none" /\ ~(h > at)
    BY <1>t, <2>1 DEF ConfigOK
  <2>3. TypeInv' /\ ConfigOK'
    BY <1>t, <2>1, <2>2 DEF TypeInv, ConfigOK, callerVars, clientVars
  <2>4. \A k \in Connections : cc[k] = "done" => cc'[k] = "done"
    BY <1>t, <2>1, <2>2 DEF TypeInv
  <2>5. \A k \in 1..(at - 1) : k \in Connections
    BY <1>t, ConnectionAssumption DEF TypeInv, Connections
  <2>6. FilledOK'
    BY <1>t, <2>1, <2>4, <2>5 DEF FilledOK, TypeInv, callerVars
  <2>7. RestartOK' /\ ListedOK'
    BY <1>t, <2>1 DEF RestartOK, NeverEarlyBefore, ListedOK, callerVars, clientVars
  <2> QED  BY <2>3, <2>6, <2>7 DEF IInv
<1> QED  BY <1>1, <1>2

LEMMA FillIInv == ASSUME IInv, NEW h \in Connections, FillClusterConfig(h) PROVE IInv'
<1>t. TypeInv /\ ConfigOK /\ FilledOK /\ RestartOK /\ ListedOK
  BY DEF IInv
<1>c. \A k \in 1..(at - 1) : k \in Connections
  BY <1>t, ConnectionAssumption DEF TypeInv, Connections
<1>n. at \in Nat /\ h \in Nat /\ h >= 1
  BY <1>t DEF TypeInv, Connections
<1>1. CASE \E f \in Folder : PutFolder(h, f)
  <2>1. PICK f \in Folder : PutFolder(h, f)
    BY <1>1
  <2>2. /\ cc[h] = "filling" /\ known' = [known EXCEPT ![h] = @ \cup {f}]
        /\ config' = config \cup {f}
        /\ UNCHANGED <<callerVars, receiver, pool, cc, reported>>
    BY <2>1 DEF PutFolder, closeVars
  <2>3. restart' \in [Connections -> BOOLEAN] /\ (f \notin config => restart'[h])
        /\ (restart[h] => restart'[h]) /\ \A k \in Connections : k # h => restart'[k] = restart[k]
    <3> DEFINE r == restart[h] \/ f \notin config
    <3>1. restart' = [restart EXCEPT ![h] = r] /\ restart \in [Connections -> BOOLEAN]
      BY <1>t, <2>1 DEF PutFolder, TypeInv
    <3>2. r \in BOOLEAN /\ (f \notin config => r) /\ (restart[h] => r)
      BY <3>1, Zenon
    <3> HIDE DEF r
    <3>3. restart' \in [Connections -> BOOLEAN] /\ (restart'[h] <=> r)
      BY <3>1, <3>2, Zenon
    <3>4. \A k \in Connections : k # h => restart'[k] = restart[k]
      BY <3>1
    <3> QED  BY <3>2, <3>3, <3>4
  <2>4. TypeInv'
    BY <1>t, <2>2, <2>3 DEF TypeInv, callerVars
  <2>5. ConfigOK'
    <3>1. \A k \in Connections : k # h => known'[k] = known[k]
      BY <1>t, <2>2 DEF TypeInv
    <3>2. known'[h] = known[h] \cup {f}
      BY <1>t, <2>2 DEF TypeInv
    <3> QED  BY <1>t, <2>2, <3>1, <3>2 DEF ConfigOK, callerVars
  <2>6. FilledOK' /\ ListedOK'
    BY <1>t, <2>2 DEF FilledOK, ListedOK, callerVars
  <2>7. ~(h > at)
    BY <1>t, <2>2 DEF ConfigOK
  <2>8. NeverEarlyBefore => h = at
    BY <1>n, <1>t, <2>2, <2>7 DEF NeverEarlyBefore, FilledOK
  <2>9. at \in Connections /\ (caller = "returned" /\ ~early[at] => h # at)
    BY <1>t, <2>2 DEF TypeInv, FilledOK, Tested
  <2>10. RestartOK'
    <3>1. ASSUME caller \in Announced, NeverEarlyBefore
          PROVE  config' \subseteq announced[at] \/ restart'[at]
      BY <1>t, <2>2, <2>3, <2>8, <3>1 DEF RestartOK
    <3>2. ASSUME caller = "returned", ~early[at] PROVE ~restart'[at]
      BY <1>t, <2>3, <2>9, <3>2 DEF RestartOK
    <3> QED  BY <2>2, <3>1, <3>2 DEF RestartOK, NeverEarlyBefore, callerVars
  <2> QED  BY <2>4, <2>5, <2>6, <2>10 DEF IInv
<1>2. CASE PostProcessed(h)
  <2>1. /\ cc[h] = "filling" /\ known[h] = Folder /\ cc' = [cc EXCEPT ![h] = "done"]
        /\ caller' = caller \/ (caller = "waiting" /\ caller' = "test")
        /\ UNCHANGED <<at, listed, announced, early, clientVars, receiver, pool, known, reported>>
    BY <1>t, <1>2, WakeCallerType DEF PostProcessed, closeVars
  <2>2. TypeInv' /\ ConfigOK'
    BY <1>t, <2>1 DEF TypeInv, ConfigOK, CallerState, clientVars
  <2>3. \A k \in Connections : cc[k] = "done" => cc'[k] = "done"
    BY <1>t, <2>1 DEF TypeInv
  <2>4. FilledOK'
    BY <1>c, <1>t, <2>1, <2>3 DEF FilledOK, TypeInv, Tested
  <2>5. RestartOK' /\ ListedOK'
    BY <1>t, <2>1 DEF RestartOK, NeverEarlyBefore, ListedOK, Tested, Announced, clientVars
  <2> QED  BY <2>2, <2>4, <2>5 DEF IInv
<1> QED  BY <1>1, <1>2 DEF FillClusterConfig

LEMMA AlwaysIInv == Spec => []IInv
<1>1. ASSUME IInv, [Next]_vars PROVE IInv'
  <2>1. CASE UNCHANGED vars
    BY <1>1, <2>1, Unchanged DEF vars, folderVars, closeVars
  <2>2. CASE SendMessage \/ CloseByUser
    <3>1. at \in Connections
      BY <1>1 DEF IInv, TypeInv
    <3> QED  BY <1>1, <2>2, <3>1, CloseIInv
  <2> QED  BY <1>1, <2>1, <2>2, CallerIInv, CloseIInv, ReceiveIInv, FillIInv DEF Next
<1> QED  BY InitIInv, <1>1, PTL DEF Spec

(* A connection that openConnection returned is in the list of the client  *)
(* until its ConnectionClosedEvent: SyncthingClient.close finds it.        *)
THEOREM ReturnedIsListed == Spec => []OpenIsListed
<1>1. IInv => OpenIsListed
  BY DEF IInv, ListedOK, OpenIsListed
<1> QED  BY AlwaysIInv, <1>1, PTL

(* Our ClusterConfig on a connection that was returned names every folder  *)
(* of the peer, if no attempt went on before the peer's ClusterConfig was  *)
(* filled: a folder that was new caused another attempt.                   *)
THEOREM FoldersAnnounced == Spec => []NewFolderAnnounced
<1>1. ASSUME IInv, caller = "returned", \A h \in 1..at : ~early[h]
      PROVE  Folder \subseteq announced[at]
  <2>1. at \in Connections /\ at \in 1..at /\ \A h \in 1..(at - 1) : h \in 1..at
    BY <1>1 DEF IInv, TypeInv, Connections
  <2>2. cc[at] = "done" /\ ~restart[at]
    BY <1>1, <2>1 DEF IInv, FilledOK, RestartOK, Tested
  <2>3. Folder \subseteq config
    BY <1>1, <2>1, <2>2 DEF IInv, ConfigOK
  <2>4. config \subseteq announced[at]
    BY <1>1, <2>1, <2>2 DEF IInv, RestartOK, NeverEarlyBefore, Announced, Tested
  <2> QED  BY <2>3, <2>4
<1>2. IInv => NewFolderAnnounced
  BY <1>1 DEF NewFolderAnnounced
<1> QED  BY AlwaysIInv, <1>2, PTL

(***************************************************************************)
(* The messages.  What was submitted was written or is in the queue, until *)
(* the streams are closed or the connection is cut; neither is undone, and *)
(* no message is written then.                                             *)
(***************************************************************************)
SocketType ==
  /\ streams \in [Connections -> {"none", "open", "closed"}]
  /\ broken \in [Connections -> BOOLEAN]
  /\ queue \in [Connections -> Seq(Sent)] /\ accepted \in [Connections -> Seq(Sent)]
  /\ wire \in [Connections -> Seq(Sent)]

Intact(h) == streams[h] # "closed" /\ ~broken[h]
QueueOK == \A h \in Connections : Intact(h) => accepted[h] = wire[h] \o queue[h]

(* OpenSocket opens a socket that was never opened before.                 *)
SocketOK ==
  /\ caller = "connect" => streams[at] = "none"
  /\ \A h \in Connections : h > at => streams[h] = "none"

SendInv == SocketType /\ QueueOK /\ SocketOK

Associative(S) == \A a, b, c \in Seq(S) : (a \o b) \o c = a \o (b \o c)

LEMMA ConcatIsAssociative == \A S : Associative(S)
BY ConcatAssociative, Zenon DEF Associative

(* The same for Append.                                                    *)
LEMMA Appended ==
  ASSUME NEW s \in Seq(Sent), NEW m \in Sent
  PROVE  Append(s, m) = s \o <<m>> /\ Append(s, m) \in Seq(Sent) /\ <<m>> \in Seq(Sent)
<1>1. Append(s, m) = s \o <<m>>
  BY AppendIsConcat, Zenon
<1>2. Append(s, m) \in Seq(Sent)
  BY AppendProperties, Zenon
<1>3. <<m>> \in Seq(Sent)
  OBVIOUS
<1> QED  BY <1>1, <1>2, <1>3

LEMMA Concat ==
  ASSUME NEW a \in Seq(Sent), NEW b \in Seq(Sent), NEW c \in Seq(Sent)
  PROVE  a \o b \in Seq(Sent) /\ (a \o b) \o c = a \o (b \o c)
<1>1. a \o b \in Seq(Sent)
  BY ConcatProperties
<1>2. (a \o b) \o c = a \o (b \o c)
  <2>1. Associative(Sent)
    BY ConcatIsAssociative, Zenon
  <2> QED  BY <2>1, Zenon DEF Associative
<1> QED  BY <1>1, <1>2

LEMMA DeliverHead ==
  ASSUME NEW w \in Seq(Sent), NEW q \in Seq(Sent), q # <<>>
  PROVE  /\ Head(q) \in Sent /\ Tail(q) \in Seq(Sent) /\ Append(w, Head(q)) \in Seq(Sent)
         /\ Append(w, Head(q)) \o Tail(q) = w \o q
         /\ Append(w, Head(q)) = SubSeq(w \o q, 1, Len(w) + 1)
         /\ Len(w) + 1 \in (Len(w) + 1)..Len(w \o q)
<1>1. Head(q) \in Sent /\ Tail(q) \in Seq(Sent) /\ q = <<Head(q)>> \o Tail(q)
  BY HeadTailProperties
<1> DEFINE b == Head(q)  r == Tail(q)
<1>2. b \in Sent /\ r \in Seq(Sent) /\ q = <<b>> \o r
  BY <1>1
<1> HIDE DEF b, r
<1>3. Append(w, b) = w \o <<b>> /\ Append(w, b) \in Seq(Sent) /\ <<b>> \in Seq(Sent)
  BY <1>2, Appended
<1>4. Append(w, b) \o r = w \o q
  BY <1>2, <1>3, Concat
<1>5. Append(w, b) = SubSeq(w \o q, 1, Len(w) + 1)
  <2>1. Len(Append(w, b)) = Len(w) + 1 /\ Len(w) \in Nat
    BY <1>2, AppendProperties
  <2>2. SubSeq(Append(w, b) \o r, 1, Len(Append(w, b))) = Append(w, b)
    <3> DEFINE v == Append(w, b)
    <3>1. v \in Seq(Sent) /\ r \in Seq(Sent) /\ Len(v) \in 1..Len(v) /\ 1 \in 1..Len(v)
      BY <1>2, <1>3, <2>1
    <3> HIDE DEF v
    <3>2. SubSeq(v \o r, 1, Len(v)) = SubSeq(v, 1, Len(v)) /\ SubSeq(v, 1, Len(v)) = v
      BY <3>1, SubSeqOfConcat1, SubSeqFull
    <3> QED  BY <3>2 DEF v
  <2> QED  BY <1>4, <2>1, <2>2
<1>6. Len(w) + 1 <= Len(w \o q) /\ Len(w \o q) \in Nat /\ Len(w) \in Nat
  BY <1>2, ConcatProperties, EmptySeq
<1> QED  BY <1>1, <1>3, <1>4, <1>5, <1>6 DEF b, r

LEMMA InitSendInv == Init => SendInv
<1> SUFFICES ASSUME Init PROVE SendInv
  OBVIOUS
<1>1. SocketType
  BY DEF Init, SocketType
<1>2. 1 \in Connections
  BY ConnectionAssumption DEF Connections
<1> QED  BY <1>1, <1>2 DEF Init, SendInv, QueueOK, SocketOK

(* What a step does to a connection.                                       *)
Submits(h) ==
  /\ \E m \in Sent : /\ accepted'[h] = Append(accepted[h], m)
                     /\ queue'[h] = Append(queue[h], m)
  /\ wire'[h] = wire[h]
Writes(h) ==
  /\ queue[h] # <<>> /\ streams[h] = "open" /\ ~broken[h]
  /\ wire'[h] = Append(wire[h], Head(queue[h])) /\ queue'[h] = Tail(queue[h])
  /\ accepted'[h] = accepted[h]
Drops(h) ==
  /\ accepted'[h] = accepted[h] /\ wire'[h] = wire[h]
  /\ queue'[h] = queue[h] \/ (queue'[h] \in Seq(Sent) /\ ~Intact(h)')
Steps(h) == (Submits(h) \/ Writes(h) \/ Drops(h)) /\ (Intact(h)' => Intact(h))

LEMMA StepKeeps ==
  ASSUME SendInv, \A h \in Connections : Steps(h)
  PROVE  QueueOK' /\ \A h \in Connections :
           Wire(h)!Send \/ Wire(h)!Deliver \/ UNCHANGED <<accepted[h], wire[h]>>
<1> SUFFICES ASSUME NEW h \in Connections
             PROVE  /\ Intact(h)' => accepted'[h] = wire'[h] \o queue'[h]
                    /\ Wire(h)!Send \/ Wire(h)!Deliver \/ UNCHANGED <<accepted[h], wire[h]>>
  BY DEF QueueOK
<1> DEFINE a == accepted[h]  w == wire[h]  q == queue[h]
<1>1. a \in Seq(Sent) /\ w \in Seq(Sent) /\ q \in Seq(Sent) /\ (Intact(h) => a = w \o q)
  BY DEF SendInv, SocketType, QueueOK
<1>2. CASE Submits(h) /\ (Intact(h)' => Intact(h))
  <2>1. PICK m \in Sent : accepted'[h] = Append(a, m) /\ queue'[h] = Append(q, m)
    BY <1>2 DEF Submits
  <2>2. wire'[h] = w
    BY <1>2 DEF Submits
  <2>3. ASSUME Intact(h) PROVE Append(a, m) = w \o Append(q, m)
    <3>1. a = w \o q /\ a \in Seq(Sent)
      BY <1>1, <2>3, Zenon
    <3>2. Append(a, m) = a \o <<m>> /\ Append(q, m) = q \o <<m>> /\ <<m>> \in Seq(Sent)
      BY <1>1, Appended
    <3>3. (w \o q) \o <<m>> = w \o (q \o <<m>>)
      <4>1. \A x, y, z \in Seq(Sent) : (x \o y) \o z = x \o (y \o z)
        BY Concat
      <4> QED  BY <1>1, <3>2, <4>1
    <3> QED  BY <3>1, <3>2, <3>3
  <2>4. Wire(h)!Send
    BY <2>1, <2>2 DEF Wire!Send
  <2> QED  BY <1>2, <2>1, <2>2, <2>3, <2>4
<1>3. CASE Writes(h) /\ (Intact(h)' => Intact(h))
  <2>1. /\ q # <<>> /\ a = w \o q /\ accepted'[h] = a
        /\ wire'[h] = Append(w, Head(q)) /\ queue'[h] = Tail(q)
    BY <1>1, <1>3 DEF Writes, Intact
  <2>2. /\ Append(w, Head(q)) \o Tail(q) = a
        /\ Append(w, Head(q)) = SubSeq(a, 1, Len(w) + 1)
        /\ Len(w) + 1 \in (Len(w) + 1)..Len(a)
    BY <1>1, <2>1, DeliverHead
  <2>3. Wire(h)!Deliver
    BY <2>1, <2>2 DEF Wire!Deliver
  <2> QED  BY <2>1, <2>2, <2>3
<1>4. CASE Drops(h) /\ (Intact(h)' => Intact(h))
  BY <1>1, <1>4 DEF Drops
<1> QED  BY <1>2, <1>3, <1>4 DEF Steps

(* A message is submitted to the connection h.                             *)
LEMMA SubmitSteps ==
  ASSUME SendInv, NEW h \in Connections, NEW m \in Sent, Submit(h, <<m>>),
         \A k \in Connections : Intact(k)' => Intact(k)
  PROVE  /\ queue' \in [Connections -> Seq(Sent)] /\ accepted' \in [Connections -> Seq(Sent)]
         /\ wire' \in [Connections -> Seq(Sent)]
         /\ \A k \in Connections : Steps(k)
<1>1. /\ queue \in [Connections -> Seq(Sent)] /\ accepted \in [Connections -> Seq(Sent)]
      /\ wire \in [Connections -> Seq(Sent)]
  BY DEF SendInv, SocketType
<1>2. /\ queue' = [queue EXCEPT ![h] = @ \o <<m>>]
      /\ accepted' = [accepted EXCEPT ![h] = @ \o <<m>>] /\ wire' = wire
  BY DEF Submit
<1> DEFINE a == accepted[h]  q == queue[h]
<1>3. a \in Seq(Sent) /\ q \in Seq(Sent)
  BY <1>1
<1>4. /\ a \o <<m>> = Append(a, m) /\ q \o <<m>> = Append(q, m)
      /\ Append(a, m) \in Seq(Sent) /\ Append(q, m) \in Seq(Sent)
  <2> HIDE DEF a, q
  <2>1. \A s \in Seq(Sent) : s \o <<m>> = Append(s, m) /\ Append(s, m) \in Seq(Sent)
    BY AppendIsConcat, AppendProperties
  <2> QED  BY <1>3, <2>1
<1>5. /\ queue' = [queue EXCEPT ![h] = Append(q, m)]
      /\ accepted' = [accepted EXCEPT ![h] = Append(a, m)]
  BY <1>2, <1>4
<1>6. Submits(h)
  BY <1>1, <1>2, <1>5 DEF Submits
<1>7. \A k \in Connections : k # h => Drops(k)
  BY <1>1, <1>2, <1>5 DEF Drops
<1> QED  BY <1>1, <1>2, <1>4, <1>5, <1>6, <1>7 DEF Steps

(* Steps that neither submit nor write, and close or cut connections that  *)
(* are open.                                                               *)
LEMMA QuietSteps ==
  ASSUME SendInv, UNCHANGED <<queue, accepted, wire>>,
         \A k \in Connections : Intact(k)' => Intact(k)
  PROVE  /\ queue' \in [Connections -> Seq(Sent)] /\ accepted' \in [Connections -> Seq(Sent)]
         /\ wire' \in [Connections -> Seq(Sent)]
         /\ \A k \in Connections : Steps(k)
<1>1. \A k \in Connections : Drops(k)
  BY DEF Drops
<1> QED  BY <1>1 DEF SendInv, SocketType, Steps

LEMMA OpenConnectionSteps ==
  ASSUME TypeInv, SendInv,
         \/ OpenSocket \/ HelloFails \/ HandleHello \/ StartListener \/ TestClusterConfig
         \/ SendIndexes \/ CloseFailed \/ Throw \/ AddConnection \/ Return \/ Restart
         \/ OpenAgain \/ SendMessage \/ CloseByUser
  PROVE  SocketType' /\ SocketOK' /\ \A h \in Connections : Steps(h)
<1>t. SocketType /\ SocketOK /\ at \in Connections /\ \A h \in Connections : h \in Nat
  BY DEF SendInv, TypeInv, Connections
<1>s. "hello" \in Sent /\ "clusterConfig" \in Sent /\ "index" \in Sent /\ "message" \in Sent
  BY DEF Sent
<1>1. CASE UNCHANGED socketVars /\ caller' # "connect" /\ at' = at
  <2>1. \A k \in Connections : Intact(k)' => Intact(k)
    BY <1>1 DEF Intact, socketVars
  <2>2. SocketOK'
    BY <1>t, <1>1 DEF SocketOK, socketVars
  <2>3. UNCHANGED <<queue, accepted, wire>> \/ \E m \in Sent : Submit(at, <<m>>)
    BY <1>s, <1>1 DEF OpenSocket, HelloFails, HandleHello, StartListener, TestClusterConfig,
         SendIndexes, CloseFailed, Throw, AddConnection, Return, Restart, OpenAgain, SendMessage,
         CloseByUser, sendVars
  <2> QED  BY <1>t, <1>1, <2>1, <2>2, <2>3, SubmitSteps, QuietSteps DEF SocketType, socketVars
<1>2. CASE OpenAgain
  <2>1. /\ UNCHANGED <<queue, accepted, wire, streams, broken>>
        /\ at' = at + 1 /\ at < MaxAttempts
    BY <1>2 DEF OpenAgain, sendVars, socketVars
  <2>2. at \in Nat /\ MaxAttempts \in Nat /\ at' \in Connections /\ at' > at
        /\ \A h \in Connections : h > at' => h > at
    BY <1>t, <2>1, ConnectionAssumption DEF Connections
  <2>3. SocketOK'
    BY <1>t, <2>1, <2>2 DEF SocketOK
  <2>4. \A k \in Connections : Intact(k)' => Intact(k)
    BY <2>1 DEF Intact
  <2> QED  BY <1>t, <2>1, <2>3, <2>4, QuietSteps DEF SocketType
<1>3. CASE OpenSocket /\ Submit(at, <<"hello">>)
  <2>1. /\ caller = "connect" /\ caller' \in {"failed", "hello"} /\ at' = at /\ broken' = broken
        /\ streams' \in {streams, [streams EXCEPT ![at] = "open"]}
    BY <1>3 DEF OpenSocket
  <2>2. streams[at] = "none"
    BY <1>t, <2>1 DEF SocketOK
  <2>3. streams' \in [Connections -> {"none", "open", "closed"}]
        /\ \A k \in Connections : k # at => streams'[k] = streams[k]
    BY <1>t, <2>1 DEF SocketType
  <2>4. \A k \in Connections : Intact(k)' => Intact(k)
    BY <2>1, <2>2, <2>3 DEF Intact
  <2>5. SocketOK'
    BY <1>t, <2>1, <2>3 DEF SocketOK
  <2> QED  BY <1>t, <1>3, <1>s, <2>1, <2>3, <2>4, <2>5, SubmitSteps DEF SocketType
<1>4. CASE OpenSocket /\ UNCHANGED <<streams, sendVars>>
  BY <1>1, <1>4 DEF OpenSocket, socketVars
<1>5. CASE SendMessage \/ CloseByUser \/ HelloFails \/ HandleHello \/ StartListener
  BY <1>1, <1>5 DEF SendMessage, CloseByUser, HelloFails, HandleHello, StartListener, callerVars
<1>6. CASE \/ TestClusterConfig \/ SendIndexes \/ CloseFailed \/ Throw \/ AddConnection \/ Return
           \/ Restart
  BY <1>1, <1>6 DEF TestClusterConfig, SendIndexes, CloseFailed, Throw, AddConnection, Return,
       Restart
<1>7. OpenSocket => Submit(at, <<"hello">>) \/ UNCHANGED <<streams, sendVars>>
  BY DEF OpenSocket
<1> QED  BY <1>2, <1>3, <1>4, <1>5, <1>6, <1>7

LEMMA ThreadSteps ==
  ASSUME TypeInv, SendInv, NEW h \in Connections,
         \/ Write(h)
         \/ \E m \in Received : ReceiveMessage(h, m)
         \/ ReceiverFails(h) \/ HandleFatal(h) \/ PublishClusterConfig(h)
         \/ FillClusterConfig(h)
         \/ \E t \in Closer : Close(h, t)
  PROVE  SocketType' /\ SocketOK' /\ \A k \in Connections : Steps(k)
<1>t. SocketType /\ SocketOK /\ at \in Connections
  BY DEF SendInv, TypeInv
<1>1. /\ caller' = caller \/ (caller = "waiting" /\ caller' = "test")
      /\ at' = at
      /\ streams' \in {streams, [streams EXCEPT ![h] = IF @ = "open" THEN "closed" ELSE @]}
      /\ broken' \in {broken, [broken EXCEPT ![h] = TRUE]}
  BY DEF Write, WriteMessage, WriteFails, WriteToClosed, ReceiveMessage, ReceiverFails,
     HandleFatal, PublishClusterConfig, FillClusterConfig, PutFolder, PostProcessed, Close,
     Shutdown, Release, Cut, WakeCaller, callerVars, socketVars
<1>2. /\ streams' \in [Connections -> {"none", "open", "closed"}]
      /\ \A k \in Connections : streams'[k] = streams[k] \/ (streams[k] = "open"
                                                            /\ streams'[k] = "closed")
  BY <1>t, <1>1 DEF SocketType
<1>3. /\ broken' \in [Connections -> BOOLEAN]
      /\ \A k \in Connections : broken[k] => broken'[k]
  BY <1>t, <1>1 DEF SocketType
<1>4. SocketOK'
  BY <1>t, <1>1, <1>2 DEF SocketOK
<1>5. \A k \in Connections : Intact(k)' => Intact(k)
  BY <1>2, <1>3 DEF Intact
<1>6. CASE UNCHANGED <<queue, accepted, wire>>
  BY <1>2, <1>3, <1>4, <1>5, <1>6, QuietSteps DEF SocketType
<1>7. CASE Write(h)
  <2> DEFINE q == queue[h]
  <2>1. q # <<>> /\ queue' = [queue EXCEPT ![h] = Tail(q)] /\ accepted' = accepted
    BY <1>7 DEF Write, WriteMessage, WriteFails, WriteToClosed, Answer
  <2>2. q \in Seq(Sent) /\ wire[h] \in Seq(Sent)
    BY <1>t DEF SocketType
  <2>3. Tail(q) \in Seq(Sent) /\ Append(wire[h], Head(q)) \in Seq(Sent)
    BY <2>1, <2>2, DeliverHead
  <2>4. queue' \in [Connections -> Seq(Sent)] /\ accepted' \in [Connections -> Seq(Sent)]
        /\ queue'[h] = Tail(q) /\ \A k \in Connections : k # h => queue'[k] = queue[k]
    BY <1>t, <2>1, <2>3 DEF SocketType
  <2>5. \/ /\ wire' = [wire EXCEPT ![h] = Append(@, Head(q))]
           /\ streams[h] = "open" /\ ~broken[h]
        \/ wire' = wire /\ ~Intact(h)'
    <3>1. CASE WriteMessage(h)
      BY <3>1 DEF WriteMessage
    <3>2. CASE WriteFails(h) \/ WriteToClosed(h)
      BY <1>t, <3>2 DEF WriteFails, WriteToClosed, Cut, Intact, SocketType, socketVars
    <3> QED  BY <1>7, <3>1, <3>2 DEF Write
  <2>6. wire' \in [Connections -> Seq(Sent)]
        /\ \A k \in Connections : k # h => wire'[k] = wire[k]
    BY <1>t, <2>3, <2>5 DEF SocketType
  <2>7. Writes(h) \/ Drops(h)
    BY <1>t, <2>1, <2>3, <2>4, <2>5 DEF Writes, Drops, SocketType
  <2>8. \A k \in Connections : k # h => Drops(k)
    BY <2>1, <2>4, <2>6 DEF Drops
  <2> QED  BY <1>2, <1>3, <1>4, <1>5, <2>4, <2>6, <2>7, <2>8 DEF SocketType, Steps
<1>8. Write(h) \/ UNCHANGED <<queue, accepted, wire>>
  BY DEF ReceiveMessage, ReceiverFails, HandleFatal, PublishClusterConfig, FillClusterConfig,
     PutFolder, PostProcessed, Close, Shutdown, Release, sendVars
<1> QED  BY <1>6, <1>7, <1>8

LEMMA NextSteps ==
  ASSUME TypeInv, SendInv, [Next]_vars
  PROVE  /\ SendInv'
         /\ \A h \in Connections :
              Wire(h)!Send \/ Wire(h)!Deliver \/ UNCHANGED <<accepted[h], wire[h]>>
<1>1. SocketType' /\ SocketOK' /\ \A h \in Connections : Steps(h)
  <2>1. CASE UNCHANGED vars
    <3>1. UNCHANGED <<at, caller, queue, accepted, wire, streams, broken>>
      BY <2>1 DEF vars, callerVars, sendVars, socketVars
    <3>2. \A k \in Connections : Intact(k)' => Intact(k)
      BY <3>1 DEF Intact
    <3> QED  BY <3>1, <3>2, QuietSteps DEF SendInv, SocketType, SocketOK
  <2> QED  BY <2>1, OpenConnectionSteps, ThreadSteps DEF Next
<1> QED  BY <1>1, StepKeeps DEF SendInv

(* What a connection writes is the messages submitted to it, in order and  *)
(* without a gap, however many threads close it and wherever it is cut:    *)
(* every step submits one message, writes the next one, or does neither.   *)
THEOREM MessagesInOrder == Spec => WireIsStream
<1>1. ASSUME TypeInv, SendInv, [Next]_vars
      PROVE  /\ SendInv'
             /\ [\A h \in Connections :
                   Wire(h)!Send \/ Wire(h)!Deliver \/ UNCHANGED <<accepted[h], wire[h]>>]_vars
  BY <1>1, NextSteps
<1>2. IInv => TypeInv
  BY DEF IInv
<1> QED  BY InitSendInv, AlwaysIInv, <1>1, <1>2, PTL DEF Spec, WireIsStream

(***************************************************************************)
(* Type correctness.  A message that was submitted is in the queue or its  *)
(* future is done, and how many are submitted depends on how far connect() *)
(* has come.                                                               *)
(***************************************************************************)
Limit(c) ==
  IF c = "connect" THEN 0
  ELSE IF c = "hello" THEN 1
  ELSE IF c \in {"listen", "test", "waiting", "index"} THEN 2
  ELSE IF c = "returned" THEN 3 + MaxSends
  ELSE 3
LimitOf(h, k, c) == IF h > k THEN 0 ELSE IF h = k THEN Limit(c) ELSE 3 + MaxSends

CloseState == {"idle", "entered", "shutdown", "done"}
CloseType ==
  closed \in [Connections -> BOOLEAN] /\ closer \in [Connections -> [Closer -> CloseState]]

CountOK ==
  /\ answered \in [Connections -> Nat]
  /\ \A h \in Connections :
       /\ answered[h] + Len(queue[h]) = Len(accepted[h])
       /\ Len(accepted[h]) <= LimitOf(h, at, caller)

LEMMA LimitType ==
  ASSUME NEW c, NEW h \in Connections, NEW k \in Connections
  PROVE  /\ Limit(c) \in Nat /\ Limit(c) <= 3 + MaxSends
         /\ LimitOf(h, k, c) \in Nat /\ LimitOf(h, k, c) <= 3 + MaxSends
<1>1. Limit(c) \in Nat /\ Limit(c) <= 3 + MaxSends /\ MaxSends \in Nat
  BY ConnectionAssumption DEF Limit
<1> QED  BY <1>1 DEF LimitOf

LEMMA Counted ==
  ASSUME NEW s \in Seq(Sent)
  PROVE  /\ Len(s) \in Nat
         /\ \A m \in Sent : Len(s \o <<m>>) = Len(s) + 1 /\ s \o <<m>> \in Seq(Sent)
         /\ s # <<>> => Len(s) = Len(Tail(s)) + 1 /\ Len(Tail(s)) \in Nat
<1>1. Len(s) \in Nat
  BY LenProperties
<1>2. ASSUME NEW m \in Sent PROVE Len(s \o <<m>>) = Len(s) + 1 /\ s \o <<m>> \in Seq(Sent)
  <2>1. Append(s, m) = s \o <<m>> /\ Append(s, m) \in Seq(Sent)
    BY Appended
  <2>2. Len(Append(s, m)) = Len(s) + 1
    BY AppendProperties
  <2> QED  BY <2>1, <2>2
<1>3. s # <<>> => Len(s) = Len(Tail(s)) + 1 /\ Len(Tail(s)) \in Nat
  BY <1>1, HeadTailProperties, EmptySeq
<1> QED  BY <1>1, <1>2, <1>3

(* Each step submits a message where the caller goes on, or answers one.   *)
LEMMA CountSubmit ==
  ASSUME TypeInv, SendInv, CountOK, NEW m \in Sent, Submit(at, <<m>>), at' = at,
         Len(accepted[at]) + 1 <= Limit(caller')
  PROVE  CountOK'
<1>1. /\ queue \in [Connections -> Seq(Sent)] /\ accepted \in [Connections -> Seq(Sent)]
      /\ at \in Connections
  BY DEF TypeInv, SendInv, SocketType
<1>2. /\ queue' = [queue EXCEPT ![at] = @ \o <<m>>]
      /\ accepted' = [accepted EXCEPT ![at] = @ \o <<m>>] /\ answered' = answered
  BY DEF Submit
<1>3. ASSUME NEW h \in Connections
      PROVE  /\ answered[h] + Len(queue'[h]) = Len(accepted'[h])
             /\ Len(accepted'[h]) <= LimitOf(h, at, caller')
  <2>1. answered[h] \in Nat /\ answered[h] + Len(queue[h]) = Len(accepted[h])
        /\ Len(accepted[h]) <= LimitOf(h, at, caller)
    BY DEF CountOK
  <2>2. CASE h # at
    BY <1>1, <1>2, <2>1, <2>2 DEF LimitOf
  <2>3. CASE h = at
    <3>1. queue'[h] = queue[h] \o <<m>> /\ accepted'[h] = accepted[h] \o <<m>>
      BY <1>1, <1>2, <2>3
    <3>2. queue[h] \in Seq(Sent) /\ accepted[h] \in Seq(Sent)
      BY <1>1
    <3>3. /\ Len(queue'[h]) = Len(queue[h]) + 1 /\ Len(queue[h]) \in Nat
          /\ Len(accepted'[h]) = Len(accepted[h]) + 1 /\ Len(accepted[h]) \in Nat
      BY <3>1, <3>2, Counted
    <3>4. ~(h > at) /\ LimitOf(h, at, caller') = Limit(caller')
      BY <2>3 DEF LimitOf, Connections
    <3>5. Limit(caller') \in Nat
      BY <1>1, LimitType
    <3>6. Len(accepted'[h]) <= Limit(caller')
      <4>1. Len(accepted[h]) + 1 <= Limit(caller')
        BY <2>3, Zenon
      <4> QED  BY <3>3, <3>5, <4>1
    <3>7. answered[h] + Len(queue'[h]) = Len(accepted'[h])
      <4> DEFINE n == answered[h]  q == Len(queue[h])  a == Len(accepted[h])
                 q1 == Len(queue'[h])  a1 == Len(accepted'[h])
      <4>1. n \in Nat /\ q \in Nat /\ n + q = a /\ q1 = q + 1 /\ a1 = a + 1
        BY <2>1, <3>3
      <4> HIDE DEF n, q, a, q1, a1
      <4>2. n + q1 = a1
        BY <4>1
      <4> QED  BY <4>2 DEF n, q1, a1
    <3> QED  BY <3>4, <3>6, <3>7
  <2> QED  BY <2>2, <2>3
<1> QED  BY <1>2, <1>3 DEF CountOK

LEMMA CountGoesOn ==
  ASSUME TypeInv, SendInv, CountOK, UNCHANGED <<queue, accepted, answered>>, at' \in Connections,
         \A h \in Connections : LimitOf(h, at, caller) <= LimitOf(h, at', caller')
  PROVE  CountOK'
<1>1. ASSUME NEW h \in Connections PROVE Len(accepted[h]) <= LimitOf(h, at', caller')
  <2>1. Len(accepted[h]) \in Nat
    BY Counted DEF SendInv, SocketType
  <2>2. LimitOf(h, at, caller) \in Nat /\ LimitOf(h, at', caller') \in Nat
    BY LimitType DEF TypeInv
  <2> QED  BY <2>1, <2>2 DEF CountOK
<1> QED  BY <1>1 DEF CountOK

LEMMA CountCaller ==
  ASSUME TypeInv, SendInv, CountOK,
         \/ OpenSocket \/ HelloFails \/ HandleHello \/ StartListener \/ TestClusterConfig
         \/ SendIndexes \/ CloseFailed \/ Throw \/ AddConnection \/ Return \/ Restart
         \/ OpenAgain \/ SendMessage \/ CloseByUser
  PROVE  CountOK'
<1>t. at \in Connections /\ MaxSends \in Nat /\ at \in Nat
  BY ConnectionAssumption DEF TypeInv, Connections
<1>s. "hello" \in Sent /\ "clusterConfig" \in Sent /\ "index" \in Sent /\ "message" \in Sent
  BY DEF Sent
<1>l. Len(accepted[at]) \in Nat /\ Len(accepted[at]) <= Limit(caller)
  <2>1. Len(accepted[at]) \in Nat
    BY <1>t, Counted DEF SendInv, SocketType
  <2>2. ~(at > at) /\ Len(accepted[at]) <= LimitOf(at, at, caller)
    BY <1>t DEF CountOK
  <2> QED  BY <2>1, <2>2 DEF LimitOf
<1>1. ASSUME at' = at, UNCHANGED sendVars, Limit(caller) <= Limit(caller') PROVE CountOK'
  <2>1. \A h \in Connections : LimitOf(h, at, caller) <= LimitOf(h, at', caller')
    BY <1>t, <1>1, LimitType DEF LimitOf
  <2> QED  BY <1>t, <1>1, <2>1, CountGoesOn DEF sendVars
<1>2. CASE UNCHANGED sendVars /\ ~OpenAgain
  <2>1. at' = at /\ Limit(caller) <= Limit(caller')
    BY <1>t, <1>2 DEF OpenSocket, HelloFails, HandleHello, StartListener, TestClusterConfig,
         SendIndexes, CloseFailed, Throw, AddConnection, Return, Restart, SendMessage,
         CloseByUser, callerVars, Limit
  <2> QED  BY <1>1, <1>2, <2>1
<1>3. CASE OpenAgain
  <2>1. caller = "restarting" /\ caller' = "connect" /\ at' = at + 1 /\ at < MaxAttempts
        /\ UNCHANGED <<queue, accepted, answered>>
    BY <1>3 DEF OpenAgain, sendVars
  <2>2. at' \in Connections
    BY <1>t, <2>1, ConnectionAssumption DEF Connections
  <2>3. \A h \in Connections : h \in Nat
    BY DEF Connections
  <2>4. \A h \in Connections : LimitOf(h, at, caller) <= LimitOf(h, at', caller')
    BY <1>t, <2>1, <2>3 DEF LimitOf, Limit
  <2> QED  BY <2>1, <2>2, <2>4, CountGoesOn
<1>4. CASE ~UNCHANGED sendVars
  <2>1. \/ OpenSocket /\ Submit(at, <<"hello">>) /\ caller' = "hello"
        \/ HandleHello
        \/ SendIndexes /\ Submit(at, <<"index">>) /\ caller' = "connected"
        \/ SendMessage
    BY <1>4 DEF OpenSocket, HelloFails, HandleHello, StartListener, TestClusterConfig,
         SendIndexes, CloseFailed, Throw, AddConnection, Return, Restart, OpenAgain, SendMessage,
         CloseByUser
  <2>2. at' = at /\ \E m \in Sent : Submit(at, <<m>>)
    BY <1>s, <2>1 DEF OpenSocket, HandleHello, SendIndexes, SendMessage, callerVars
  <2>3. Len(accepted[at]) + 1 <= Limit(caller')
    BY <1>t, <1>l, <2>1 DEF OpenSocket, HandleHello, SendIndexes, SendMessage, callerVars, Limit
  <2> QED  BY <2>2, <2>3, CountSubmit
<1> QED  BY <1>2, <1>3, <1>4

LEMMA CountThread ==
  ASSUME TypeInv, SendInv, CountOK, NEW h \in Connections,
         \/ Write(h)
         \/ \E m \in Received : ReceiveMessage(h, m)
         \/ ReceiverFails(h) \/ HandleFatal(h) \/ PublishClusterConfig(h)
         \/ FillClusterConfig(h)
         \/ \E t \in Closer : Close(h, t)
  PROVE  CountOK'
<1>1. at' = at /\ (caller' = caller \/ (caller = "waiting" /\ caller' = "test"))
  BY DEF Write, WriteMessage, WriteFails, WriteToClosed, ReceiveMessage, ReceiverFails,
     HandleFatal, PublishClusterConfig, FillClusterConfig, PutFolder, PostProcessed, Close,
     Shutdown, Release, WakeCaller, callerVars
<1>2. \A k \in Connections : LimitOf(k, at, caller) = LimitOf(k, at', caller')
  BY <1>1 DEF LimitOf, Limit
<1>3. CASE Write(h)
  <2> DEFINE q == queue[h]
  <2>1. /\ q # <<>> /\ queue' = [queue EXCEPT ![h] = Tail(q)] /\ accepted' = accepted
        /\ answered' = [answered EXCEPT ![h] = @ + 1]
    BY <1>3 DEF Write, WriteMessage, WriteFails, WriteToClosed, Answer
  <2>2. Len(q) = Len(Tail(q)) + 1 /\ Len(Tail(q)) \in Nat
    BY <2>1, Counted DEF SendInv, SocketType
  <2>3. answered' \in [Connections -> Nat] /\ answered'[h] = answered[h] + 1
        /\ answered[h] \in Nat
        /\ \A k \in Connections : k # h => answered'[k] = answered[k] /\ queue'[k] = queue[k]
    BY <2>1 DEF CountOK, SendInv, SocketType
  <2>4. queue'[h] = Tail(q)
    BY <2>1 DEF SendInv, SocketType
  <2>5. answered'[h] + Len(queue'[h]) = answered[h] + Len(q)
    BY <2>2, <2>3, <2>4
  <2> QED  BY <1>2, <2>1, <2>3, <2>5 DEF CountOK
<1>4. CASE UNCHANGED sendVars
  BY <1>2, <1>4 DEF CountOK, sendVars
<1>5. Write(h) \/ UNCHANGED sendVars
  BY DEF ReceiveMessage, ReceiverFails, HandleFatal, PublishClusterConfig, FillClusterConfig,
     PutFolder, PostProcessed, Close, Shutdown, Release
<1> QED  BY <1>3, <1>4, <1>5

(* The threads in close() move on, and isClosed is only set.               *)
LEMMA CloseTypeStep == ASSUME TypeInv, CloseType, [Next]_vars PROVE CloseType'
<1>1. ASSUME NEW h \in Connections, NEW t \in Closer, NEW v \in CloseState,
             closer' = [closer EXCEPT ![h][t] = v]
      PROVE  closer' \in [Connections -> [Closer -> CloseState]]
  <2>1. closer[h] \in [Closer -> CloseState]
    BY DEF CloseType
  <2>2. closer' = [closer EXCEPT ![h] = [closer[h] EXCEPT ![t] = v]]
    BY <1>1
  <2>3. [closer[h] EXCEPT ![t] = v] \in [Closer -> CloseState]
    BY <2>1
  <2> QED  BY <2>2, <2>3 DEF CloseType
<1>2. /\ {"idle", "entered", "shutdown", "done"} \subseteq CloseState
      /\ "caller" \in Closer /\ "background" \in Closer /\ at \in Connections
  BY DEF CloseState, Closer, TypeInv
<1>3. CASE UNCHANGED <<closed, closer>>
  BY <1>3 DEF CloseType
<1>4. CASE \/ CloseFailed \/ Restart \/ CloseByUser
           \/ \E h \in Connections : WriteFails(h) \/ ReceiverFails(h) \/ HandleFatal(h)
  <2>1. PICK h \in Connections, t \in Closer : EnterClose(h, t) /\ closed' = closed
    BY <1>2, <1>4 DEF CloseFailed, Restart, CloseByUser, WriteFails, ReceiverFails, HandleFatal
  <2>2. closer' = closer \/ closer' = [closer EXCEPT ![h][t] = "entered"]
    BY <2>1 DEF EnterClose
  <2>3. closer' \in [Connections -> [Closer -> CloseState]]
    BY <1>1, <1>2, <2>2 DEF CloseType
  <2> QED  BY <2>1, <2>3 DEF CloseType
<1>5. CASE \E h \in Connections, t \in Closer : Close(h, t)
  <2>1. PICK h \in Connections, t \in Closer : Close(h, t)
    BY <1>5
  <2>2. /\ closer' \in {[closer EXCEPT ![h][t] = "shutdown"], [closer EXCEPT ![h][t] = "done"]}
        /\ closed' \in {closed, [closed EXCEPT ![h] = TRUE]}
    BY <2>1 DEF Close, Shutdown, Release
  <2>3. closer' \in [Connections -> [Closer -> CloseState]]
    <3>1. CASE closer' = [closer EXCEPT ![h][t] = "shutdown"]
      BY <1>1, <1>2, <3>1
    <3>2. CASE closer' = [closer EXCEPT ![h][t] = "done"]
      BY <1>1, <1>2, <3>2
    <3> QED  BY <2>2, <3>1, <3>2
  <2>4. closed' \in [Connections -> BOOLEAN]
    BY <2>2 DEF CloseType
  <2> QED  BY <2>3, <2>4 DEF CloseType
<1>6. CASE \/ OpenSocket \/ HelloFails \/ HandleHello \/ StartListener \/ TestClusterConfig
           \/ SendIndexes \/ Throw \/ AddConnection \/ Return \/ OpenAgain \/ SendMessage
  BY <1>3, <1>6 DEF OpenSocket, HelloFails, HandleHello, StartListener, TestClusterConfig,
       SendIndexes, Throw, AddConnection, Return, OpenAgain, SendMessage, closeVars
<1>7. ASSUME NEW h \in Connections,
             \/ WriteMessage(h) \/ WriteToClosed(h)
             \/ \E m \in Received : ReceiveMessage(h, m)
             \/ PublishClusterConfig(h) \/ FillClusterConfig(h)
      PROVE  CloseType'
  BY <1>3, <1>7 DEF WriteMessage, WriteToClosed, ReceiveMessage, PublishClusterConfig,
       FillClusterConfig, PutFolder, PostProcessed, closeVars
<1>8. CASE UNCHANGED vars
  BY <1>3, <1>8 DEF vars, closeVars
<1> QED  BY <1>4, <1>5, <1>6, <1>7, <1>8 DEF Next, Write

LEMMA InitCounts == Init => CloseType /\ CountOK
<1> SUFFICES ASSUME Init PROVE CloseType /\ CountOK
  OBVIOUS
<1>1. CloseType
  BY DEF Init, CloseType, CloseState
<1>2. Len(<<>>) = 0 /\ \A h \in Connections : LimitOf(h, 1, "connect") = 0
  BY EmptySeq DEF LimitOf, Limit, Connections
<1>3. CountOK
  BY <1>2 DEF Init, CountOK
<1> QED  BY <1>1, <1>3

LEMMA CountStep == ASSUME TypeInv, SendInv, CountOK, [Next]_vars PROVE CountOK'
<1>1. CASE UNCHANGED vars
  BY <1>1 DEF CountOK, vars, sendVars, callerVars
<1> QED  BY <1>1, CountCaller, CountThread DEF Next

(* The variables keep their types, whatever the peer answers, the network  *)
(* cuts and the threads close: no more futures are done than messages were *)
(* submitted, and no more are submitted than connect() and the user of the *)
(* connection send.                                                        *)
THEOREM TypeCorrect == Spec => []TypeOK
<1>1. ASSUME TypeInv, SendInv, CloseType, CountOK PROVE TypeOK
  <2>1. ASSUME NEW h \in Connections PROVE answered[h] \in 0..(3 + MaxSends)
    <3>1. /\ answered[h] \in Nat /\ answered[h] + Len(queue[h]) = Len(accepted[h])
          /\ Len(accepted[h]) <= LimitOf(h, at, caller)
      BY <1>1 DEF CountOK
    <3>2. Len(queue[h]) \in Nat /\ Len(accepted[h]) \in Nat
      BY <1>1, Counted DEF SendInv, SocketType
    <3>3. LimitOf(h, at, caller) \in Nat /\ LimitOf(h, at, caller) <= 3 + MaxSends
      BY <1>1, LimitType DEF TypeInv
    <3> QED  BY <3>1, <3>2, <3>3, ConnectionAssumption
  <2>2. answered \in [Connections -> 0..(3 + MaxSends)]
    BY <1>1, <2>1 DEF CountOK
  <2> QED  BY <1>1, <2>2 DEF TypeOK, TypeInv, CallerState, SendInv, SocketType, CloseType,
             CloseState
<1>2. ASSUME TypeInv, SendInv, CloseType, CountOK, [Next]_vars
      PROVE  SendInv' /\ CloseType' /\ CountOK'
  BY <1>2, NextSteps, CloseTypeStep, CountStep
<1>3. IInv => TypeInv
  BY DEF IInv
<1> QED  BY InitSendInv, InitCounts, AlwaysIInv, <1>1, <1>2, <1>3, PTL DEF Spec
=============================================================================
