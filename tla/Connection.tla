----------------------------- MODULE Connection -----------------------------
(***************************************************************************)
(* The life of a BEP connection: SyncthingClient.openConnection makes a    *)
(* BlockExchangeConnectionHandler and connects it, and does both again     *)
(* when the peer shares a folder that was not in the configuration.        *)
(*                                                                         *)
(* A connection has a thread that sends (outExecutorService), one that     *)
(* receives (inExecutorService), threads that process what was received,   *)
(* and threads in close(): the caller's, and a background thread for each  *)
(* failure.  The peer and the network are external: they answer or fail at *)
(* any point.                                                              *)
(***************************************************************************)
EXTENDS Naturals, Sequences, FiniteSets

CONSTANTS
  Folder,       \* folders that the peer shares
  Configured,   \* folders of the configuration when the client starts
  MaxAttempts,  \* bound: connections opened one after the other
  Received,     \* kinds of message that the peer sends
  MaxSends,     \* bound: messages sent on a connection after connect
  MaxCuts       \* bound: connections that the network or the peer cuts

(* A "fatal" message is a CLOSE, or one whose processing throws.           *)
ASSUME ConnectionAssumption ==
  /\ Received \subseteq {"clusterConfig", "fatal"}
  /\ Configured \subseteq Folder
  /\ MaxAttempts \in Nat \ {0}
  /\ MaxSends \in Nat /\ MaxCuts \in Nat

Connections == 1..MaxAttempts
Closer == {"caller", "background"}
Sent == {"hello", "clusterConfig", "index", "message"}

VARIABLES
  at,         \* the connection that openConnection works on
  caller,     \* where the thread in openConnection is
  config,     \* folders of the configuration
  listed,     \* SyncthingClient.connections
  restart,    \* shouldRestartForNewFolder of each connection
  streams,    \* in, out and socket: none, open or closed
  broken,     \* the network or the peer has cut the connection
  closed,     \* isClosed
  closer,     \* where each thread is in close()
  reported,   \* ConnectionClosedEvent was posted
  queue,      \* tasks of outExecutorService
  accepted,   \* history: messages submitted, in order
  wire,       \* history: messages written
  answered,   \* history: futures of sendMessage that are done
  receiver,   \* the loop of inExecutorService: off, on, stopped
  pool,       \* messages in messageProcessingService
  cc,         \* clusterConfigInfo: none, filling, or done
  known,      \* folders in clusterConfigInfo
  announced,  \* history: folders in our own ClusterConfig
  early       \* history: connect went on before clusterConfigInfo was filled

callerVars == <<at, caller, listed, announced, early>>
sendVars == <<queue, accepted, wire, answered>>
receiveVars == <<receiver, pool, cc, known>>
closeVars == <<closed, closer, reported>>
socketVars == <<streams, broken>>
clientVars == <<config, restart>>
vars == <<callerVars, sendVars, receiveVars, closeVars, socketVars, clientVars>>

Init ==
  /\ at = 1 /\ caller = "connect" /\ config = Configured /\ listed = {}
  /\ restart = [h \in Connections |-> FALSE]
  /\ streams = [h \in Connections |-> "none"]
  /\ broken = [h \in Connections |-> FALSE]
  /\ closed = [h \in Connections |-> FALSE]
  /\ closer = [h \in Connections |-> [t \in Closer |-> "idle"]]
  /\ reported = [h \in Connections |-> FALSE]
  /\ queue = [h \in Connections |-> <<>>]
  /\ accepted = [h \in Connections |-> <<>>]
  /\ wire = [h \in Connections |-> <<>>]
  /\ answered = [h \in Connections |-> 0]
  /\ receiver = [h \in Connections |-> "off"]
  /\ pool = [h \in Connections |-> {}]
  /\ cc = [h \in Connections |-> "none"]
  /\ known = [h \in Connections |-> {}]
  /\ announced = [h \in Connections |-> {}]
  /\ early = [h \in Connections |-> FALSE]

(***************************************************************************)
(* close().  Two threads may pass the test of isClosed.  The assignment    *)
(* and the shutdown of the executors are one action: what a closed         *)
(* connection refuses, an executor that was shut down refuses too.  Tasks  *)
(* that were submitted before still run.                                   *)
(***************************************************************************)
EnterClose(h, t) ==
  closer' = IF ~closed[h] /\ closer[h][t] = "idle"
            THEN [closer EXCEPT ![h][t] = "entered"] ELSE closer

ShutdownNow(h, t) ==
  /\ closer[h][t] = "entered"
  /\ closer' = [closer EXCEPT ![h][t] = "shutdown"]
  /\ closed' = [closed EXCEPT ![h] = TRUE]
  /\ queue' = [queue EXCEPT ![h] = <<>>]
  /\ UNCHANGED <<callerVars, accepted, wire, answered, receiveVars, reported,
                 socketVars, clientVars>>
Shutdown(h, t) ==
  /\ closer[h][t] = "entered"
  /\ closer' = [closer EXCEPT ![h][t] = "shutdown"]
  /\ closed' = [closed EXCEPT ![h] = TRUE]
  /\ UNCHANGED <<callerVars, sendVars, receiveVars, reported, socketVars, clientVars>>

(* The listener of connect(), and the one of openConnection.               *)
WakeCaller(h) ==
  caller' = IF at = h /\ caller = "waiting" THEN "test" ELSE caller

(* The streams and the socket are closed and the event is posted: nothing  *)
(* that another thread does falls between.                                 *)
ReleaseUnchecked(h, t) ==
  /\ closer[h][t] = "shutdown"
  /\ closer' = [closer EXCEPT ![h][t] = "done"]
  /\ streams' = [streams EXCEPT ![h] = IF @ = "open" THEN "closed" ELSE @]
  /\ reported' = [reported EXCEPT ![h] = @ \/ streams[h] # "none"]
  /\ listed' = listed \ {h}
  /\ WakeCaller(h)
  /\ UNCHANGED <<at, announced, early, sendVars, receiveVars, closed, broken, clientVars>>
ReleaseQuietly(h, t) ==
  /\ closer[h][t] = "shutdown"
  /\ closer' = [closer EXCEPT ![h][t] = "done"]
  /\ streams' = [streams EXCEPT ![h] = IF @ = "open" THEN "closed" ELSE @]
  /\ reported' = [reported EXCEPT ![h] = TRUE]
  /\ listed' = listed \ {h}
  /\ UNCHANGED <<at, caller, announced, early, sendVars, receiveVars, closed, broken,
                 clientVars>>
ReleaseCurrent(h, t) ==
  /\ closer[h][t] = "shutdown"
  /\ closer' = [closer EXCEPT ![h][t] = "done"]
  /\ streams' = [streams EXCEPT ![h] = IF @ = "open" THEN "closed" ELSE @]
  /\ reported' = [reported EXCEPT ![h] = TRUE]
  /\ listed' = listed \ {at}
  /\ WakeCaller(h)
  /\ UNCHANGED <<at, announced, early, sendVars, receiveVars, closed, broken, clientVars>>
Release(h, t) ==
  /\ closer[h][t] = "shutdown"
  /\ closer' = [closer EXCEPT ![h][t] = "done"]
  /\ streams' = [streams EXCEPT ![h] = IF @ = "open" THEN "closed" ELSE @]
  /\ reported' = [reported EXCEPT ![h] = TRUE]
  /\ listed' = listed \ {h}
  /\ WakeCaller(h)
  /\ UNCHANGED <<at, announced, early, sendVars, receiveVars, closed, broken, clientVars>>

(***************************************************************************)
(* Sending.                                                                *)
(***************************************************************************)

(* sendMessage fails on a closed connection.                               *)
Submit(h, messages) ==
  /\ queue' = [queue EXCEPT ![h] = @ \o messages]
  /\ accepted' = [accepted EXCEPT ![h] = @ \o messages]
  /\ UNCHANGED <<wire, answered>>

(* External: the network or the peer cuts the connection.                 *)
Cut(h) ==
  /\ broken[h] \/ Cardinality({k \in Connections : broken[k]}) < MaxCuts
  /\ broken' = [broken EXCEPT ![h] = TRUE]

(* The sending thread takes a task, and its future is done.               *)
Answer(h) ==
  /\ queue[h] # <<>>
  /\ queue' = [queue EXCEPT ![h] = Tail(@)]
  /\ answered' = [answered EXCEPT ![h] = @ + 1]

WriteAny(h) ==
  /\ queue[h] # <<>> /\ streams[h] = "open" /\ ~broken[h]
  /\ \E i \in 1..Len(queue[h]) :
       /\ wire' = [wire EXCEPT ![h] = Append(@, queue[h][i])]
       /\ queue' = [queue EXCEPT ![h] = SubSeq(@, 1, i - 1) \o SubSeq(@, i + 1, Len(@))]
  /\ answered' = [answered EXCEPT ![h] = @ + 1]
  /\ UNCHANGED <<callerVars, accepted, receiveVars, closeVars, socketVars, clientVars>>
WriteMessage(h) ==
  /\ Answer(h)
  /\ streams[h] = "open" /\ ~broken[h]
  /\ wire' = [wire EXCEPT ![h] = Append(@, Head(queue[h]))]
  /\ UNCHANGED <<callerVars, accepted, receiveVars, closeVars, socketVars, clientVars>>

(* An IOException closes the connection, unless it is being closed.        *)
WriteFails(h) ==
  /\ Answer(h)
  /\ streams[h] = "open"
  /\ Cut(h)
  /\ EnterClose(h, "background")
  /\ UNCHANGED <<callerVars, accepted, wire, receiveVars, closed, reported, streams,
                 clientVars>>

(* The field out is null: the future fails.                                *)
WriteToClosed(h) ==
  /\ Answer(h)
  /\ streams[h] = "closed"
  /\ UNCHANGED <<callerVars, accepted, wire, receiveVars, closeVars, socketVars, clientVars>>

(***************************************************************************)
(* Receiving: the receiver passes each message to a pool thread.  Bounds:  *)
(* the peer sends one ClusterConfig, and the pool holds one message of a   *)
(* kind.                                                                   *)
(***************************************************************************)
ReceiveMessage(h, m) ==
  /\ receiver[h] = "on" /\ streams[h] = "open" /\ ~broken[h]
  /\ m \notin pool[h] /\ (m = "clusterConfig" => cc[h] = "none")
  /\ IF closed[h]
     THEN receiver' = [receiver EXCEPT ![h] = "stopped"] /\ UNCHANGED pool
     ELSE pool' = [pool EXCEPT ![h] = @ \cup {m}] /\ UNCHANGED receiver
  /\ UNCHANGED <<callerVars, sendVars, cc, known, closeVars, socketVars, clientVars>>

ReceiverFails(h) ==
  /\ receiver[h] = "on"
  /\ receiver' = [receiver EXCEPT ![h] = "stopped"]
  /\ (streams[h] = "closed" /\ UNCHANGED broken) \/ Cut(h)
  /\ EnterClose(h, "background")
  /\ UNCHANGED <<callerVars, sendVars, pool, cc, known, closed, reported,
                 streams, clientVars>>

HandleFatal(h) ==
  /\ "fatal" \in pool[h]
  /\ pool' = [pool EXCEPT ![h] = @ \ {"fatal"}]
  /\ EnterClose(h, "background")
  /\ UNCHANGED <<callerVars, sendVars, receiver, cc, known, closed, reported,
                 socketVars, clientVars>>

(* CLUSTER_CONFIG: the field is assigned, then filled; a folder that is    *)
(* not configured is added and its event posted; then the threads that     *)
(* wait are told.                                                          *)
PublishClusterConfig(h) ==
  /\ "clusterConfig" \in pool[h]
  /\ pool' = [pool EXCEPT ![h] = @ \ {"clusterConfig"}]
  /\ cc' = [cc EXCEPT ![h] = "filling"]
  /\ UNCHANGED <<callerVars, sendVars, receiver, known, closeVars, socketVars,
                 clientVars>>

PutFolderLate(h, f) ==
  /\ cc[h] = "filling" /\ f \notin known[h]
  /\ known' = [known EXCEPT ![h] = @ \cup {f}]
  /\ config' = config \cup {f}
  /\ restart' = [restart EXCEPT ![h] = @ \/ f \notin config']
  /\ UNCHANGED <<callerVars, sendVars, receiver, pool, cc, closeVars, socketVars>>
PutFolder(h, f) ==
  /\ cc[h] = "filling" /\ f \notin known[h]
  /\ known' = [known EXCEPT ![h] = @ \cup {f}]
  /\ restart' = [restart EXCEPT ![h] = @ \/ f \notin config]
  /\ config' = config \cup {f}
  /\ UNCHANGED <<callerVars, sendVars, receiver, pool, cc, closeVars, socketVars>>

PostProcessed(h) ==
  /\ cc[h] = "filling" /\ known[h] = Folder
  /\ cc' = [cc EXCEPT ![h] = "done"]
  /\ WakeCaller(h)
  /\ UNCHANGED <<at, listed, announced, early, sendVars, receiver, pool, known,
                 closeVars, socketVars, clientVars>>

(***************************************************************************)
(* connect() and openConnection().                                         *)
(***************************************************************************)

(* Opening the socket fails, or the Hello message is sent.                 *)
OpenSocket ==
  /\ caller = "connect"
  /\ \/ caller' = "failed" /\ UNCHANGED <<streams, sendVars>>
     \/ /\ caller' = "hello"
        /\ streams' = [streams EXCEPT ![at] = "open"]
        /\ Submit(at, <<"hello">>)
  /\ UNCHANGED <<at, listed, announced, early, receiveVars, closeVars, broken, clientVars>>

(* The Hello of the peer, then our ClusterConfig.                          *)
HelloFails ==
  /\ caller = "hello"
  /\ caller' = "failed"
  /\ UNCHANGED <<at, listed, announced, early, sendVars, receiveVars, closeVars, socketVars,
                 clientVars>>

HandleHello ==
  /\ caller = "hello" /\ streams[at] = "open" /\ ~broken[at] /\ ~closed[at]
  /\ caller' = "listen"
  /\ announced' = [announced EXCEPT ![at] = config]
  /\ Submit(at, <<"clusterConfig">>)
  /\ UNCHANGED <<at, listed, early, receiveVars, closeVars, socketVars, clientVars>>

(* The listener is registered and the receiver started, all with the lock  *)
(* that the listener takes.                                                *)
StartListener ==
  /\ caller = "listen"
  /\ IF closed[at]
     THEN caller' = "failed" /\ UNCHANGED receiver
     ELSE caller' = "test" /\ receiver' = [receiver EXCEPT ![at] = "on"]
  /\ UNCHANGED <<at, listed, announced, early, sendVars, pool, cc, known,
                 closeVars, socketVars, clientVars>>

(* The loop: while (clusterConfigInfo == null && !isClosed()) wait.        *)
TestClusterConfig ==
  /\ caller = "test"
  /\ caller' = IF cc[at] # "none" THEN "index"
               ELSE IF closed[at] THEN "failed" ELSE "waiting"
  /\ early' = [early EXCEPT ![at] = cc[at] = "filling"]
  /\ UNCHANGED <<at, listed, announced, sendVars, receiveVars, closeVars, socketVars,
                 clientVars>>

(* An Index message for every configured folder that hasFolder knows, and  *)
(* the schedule of the pings: both fail on a closed connection.            *)
SendIndexes ==
  /\ caller = "index"
  /\ IF closed[at]
     THEN caller' = "failed" /\ UNCHANGED sendVars
     ELSE /\ caller' = "connected"
          /\ IF known[at] \cap config = {} THEN UNCHANGED sendVars
             ELSE Submit(at, <<"index">>)
  /\ UNCHANGED <<at, listed, announced, early, receiveVars, closeVars, socketVars, clientVars>>

(* connect() has failed: it closes the connection, then throws.            *)
CloseFailed ==
  /\ caller = "failed"
  /\ EnterClose(at, "caller")
  /\ caller' = "closing"
  /\ UNCHANGED <<at, listed, announced, early, sendVars, receiveVars, closed, reported,
                 socketVars, clientVars>>

CallerClosed == closer[at]["caller"] \in {"idle", "done"}

Throw ==
  /\ caller = "closing" /\ CallerClosed
  /\ caller' = "thrown"
  /\ UNCHANGED <<at, listed, announced, early, sendVars, receiveVars, closeVars, socketVars,
                 clientVars>>

AddConnection ==
  /\ caller = "connected"
  /\ caller' = "added"
  /\ listed' = listed \cup {at}
  /\ UNCHANGED <<at, announced, early, sendVars, receiveVars, closeVars, socketVars,
                 clientVars>>

(* shouldRestartForNewFolder: close, then open another connection.         *)
Return ==
  /\ caller = "added" /\ ~restart[at]
  /\ caller' = "returned"
  /\ UNCHANGED <<at, listed, announced, early, sendVars, receiveVars, closeVars, socketVars,
                 clientVars>>

Restart ==
  /\ caller = "added" /\ restart[at]
  /\ EnterClose(at, "caller")
  /\ caller' = "restarting"
  /\ UNCHANGED <<at, listed, announced, early, sendVars, receiveVars, closed, reported,
                 socketVars, clientVars>>

OpenAgain ==
  /\ caller = "restarting" /\ CallerClosed
  /\ at < MaxAttempts
  /\ at' = at + 1 /\ caller' = "connect"
  /\ UNCHANGED <<listed, announced, early, sendVars, receiveVars, closeVars, socketVars,
                 clientVars>>

(***************************************************************************)
(* The user of the connection.                                             *)
(***************************************************************************)
SendMessage ==
  /\ caller = "returned" /\ ~closed[at]
  /\ Len(accepted[at]) < 3 + MaxSends
  /\ Submit(at, <<"message">>)
  /\ UNCHANGED <<callerVars, receiveVars, closeVars, socketVars, clientVars>>

CloseByUser ==
  /\ caller = "returned" /\ ~closed[at]
  /\ EnterClose(at, "caller")
  /\ UNCHANGED <<callerVars, sendVars, receiveVars, closed, reported, socketVars, clientVars>>

Close(h, t) == Shutdown(h, t) \/ Release(h, t)
Write(h) == WriteMessage(h) \/ WriteFails(h) \/ WriteToClosed(h)
FillClusterConfig(h) == (\E f \in Folder : PutFolder(h, f)) \/ PostProcessed(h)

Next ==
  \/ OpenSocket \/ HelloFails \/ HandleHello \/ StartListener \/ TestClusterConfig
  \/ SendIndexes \/ CloseFailed \/ Throw \/ AddConnection \/ Return \/ Restart
  \/ OpenAgain \/ SendMessage \/ CloseByUser
  \/ \E h \in Connections :
       \/ Write(h)
       \/ \E m \in Received : ReceiveMessage(h, m)
       \/ ReceiverFails(h) \/ HandleFatal(h) \/ PublishClusterConfig(h)
       \/ FillClusterConfig(h)
       \/ \E t \in Closer : Close(h, t)

Spec == Init /\ [][Next]_vars

(* The threads of the program run.  Nothing is assumed of the peer, nor    *)
(* that anybody sends or closes.                                           *)
Fairness ==
  /\ WF_vars(TestClusterConfig)
  /\ \A h \in Connections :
       /\ WF_vars(Write(h)) /\ WF_vars(HandleFatal(h))
       /\ WF_vars(PublishClusterConfig(h)) /\ WF_vars(FillClusterConfig(h))
       /\ \A t \in Closer : WF_vars(Close(h, t))

FairSpec == Spec /\ Fairness

(***************************************************************************)
(* Properties.                                                             *)
(***************************************************************************)

(* The variables keep their types.                                         *)
TypeOK ==
  /\ at \in Connections /\ listed \subseteq Connections /\ config \subseteq Folder
  /\ caller \in {"connect", "hello", "listen", "test", "waiting", "index", "connected",
                 "added", "failed", "closing", "thrown", "restarting", "returned"}
  /\ {restart, broken, closed, reported, early} \subseteq [Connections -> BOOLEAN]
  /\ streams \in [Connections -> {"none", "open", "closed"}]
  /\ closer \in [Connections ->
                   [Closer -> {"idle", "entered", "shutdown", "done"}]]
  /\ {queue, accepted, wire} \subseteq [Connections -> Seq(Sent)]
  /\ answered \in [Connections -> 0..(3 + MaxSends)]
  /\ receiver \in [Connections -> {"off", "on", "stopped"}]
  /\ pool \in [Connections -> SUBSET Received]
  /\ cc \in [Connections -> {"none", "filling", "done"}]
  /\ {known, announced} \subseteq [Connections -> SUBSET Folder]

(* What a connection writes is the stream of messages submitted, whoever   *)
(* closes it and whatever fails: no gap, no message after a failed one.    *)
Wire(h) == INSTANCE ByteStream WITH
             Byte <- Sent, sent <- accepted[h], delivered <- wire[h]
WireIsStream ==
  [][\A h \in Connections :
       Wire(h)!Send \/ Wire(h)!Deliver \/ UNCHANGED <<accepted[h], wire[h]>>]_vars

(* The user of a connection that openConnection returned finds every       *)
(* folder of the peer in the ClusterConfig that was sent on it, also one   *)
(* that was new when openConnection began: unless connect went on before   *)
(* the ClusterConfig of the peer was filled, on this connection or on the  *)
(* one that it replaces, whose thread may still add folders to the         *)
(* configuration that this one takes for announced.                        *)
NewFolderAnnounced ==
  caller = "returned" /\ (\A h \in 1..at : ~early[h]) => Folder \subseteq announced[at]

(* SyncthingClient.close finds every connection in use: one that was       *)
(* returned and is not closed is in its list.                              *)
OpenIsListed ==
  caller = "returned" /\ ~reported[at] => at \in listed

(* "wait for cluster config": the thread in connect is woken when the      *)
(* ClusterConfig is there or the connection is closed.                     *)
ConnectWoken ==
  caller = "waiting" /\ (cc[at] # "none" \/ closed[at]) ~> caller # "waiting"

(* Every future that sendMessage returned is done some time, whoever       *)
(* closes the connection: testConnection and the observers wait for them.  *)
SendsComplete ==
  \A h \in Connections, n \in 1..(3 + MaxSends) :
    Len(accepted[h]) >= n ~> answered[h] >= n

(* A closed connection lets go of its socket and says so.                  *)
CloseIsReported ==
  \A h \in Connections : closed[h] ~> streams[h] # "open" /\ reported[h]
=============================================================================
