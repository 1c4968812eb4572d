----------------------------- MODULE Discovery -----------------------------
(***************************************************************************)
(* How a user finds a peer: DiscoveryHandler gathers addresses of peers,   *)
(* DeviceAddressSupplier hands them out, and                               *)
(* SyncthingClient.getConnectionForFolder connects to one after the other  *)
(* until a peer shares the folder.                                         *)
(*                                                                         *)
(* Threads: users, each with a supplier of its own, and a task of          *)
(* executorService for each source of addresses.  The sources, the test of *)
(* an address and the connection are external: any outcome.  An address is *)
(* handed out by its score, which is the time its test took: any order.    *)
(***************************************************************************)
EXTENDS Naturals, FiniteSets

CONSTANTS
  User,      \* threads in getConnectionForFolder, one call each
  Device,    \* the peers of the configuration
  Address,   \* addresses that the sources may list
  DeviceOf,  \* the device of an address
  Source     \* where lists of addresses come from: database, global, local

ASSUME DiscoveryAssumption == DeviceOf \in [Address -> Device]

VARIABLES
  task,        \* the task of each source: off, ready, rank, put, post, deliver
  todo,        \* addresses that the task has still to test or to put
  posting,     \* the subscribers that it has still to call
  current,     \* the address it puts or posts, a subset of Address
  known,       \* keys of deviceAddressMap
  unposted,    \* history: addresses put whose event was never posted
  registered,  \* suppliers registered in the event bus
  user,        \* where each user is
  queue,       \* how often each address is in deviceAddressQueue of a user
  deviceIds,   \* devices that the user's supplier has connected
  tried,       \* history: addresses that the user tried to connect
  open,        \* the user's open connections, by device
  connects     \* history: connections made to each device

taskVars == <<task, todo, posting, current>>
mapVars == <<known, unposted>>
userVars == <<user, queue, deviceIds, tried, open, connects>>
vars == <<taskVars, mapVars, registered, userVars>>

(* The first call of the program, or one that comes after another had the  *)
(* sources started.                                                        *)
Init ==
  /\ \E begun \in {"off", "ready"} : task = [s \in Source |-> begun]
  /\ todo = [s \in Source |-> {}]
  /\ posting = [s \in Source |-> {}] /\ current = [s \in Source |-> {}]
  /\ known = {} /\ unposted = {} /\ registered = {}
  /\ user = [u \in User |-> "call"]
  /\ queue = [u \in User |-> [a \in Address |-> 0]]
  /\ deviceIds = [u \in User |-> {}] /\ tried = [u \in User |-> {}]
  /\ open = [u \in User |-> {}] /\ connects = [u \in User |-> [d \in Device |-> 0]]

Goto(u, label) == user' = [user EXCEPT ![u] = label]
Enqueue(u, addresses) ==
  queue' = [queue EXCEPT ![u] = [a \in Address |-> @[a] + IF a \in addresses THEN 1 ELSE 0]]
Empty(u) == \A a \in Address : queue[u][a] = 0

(***************************************************************************)
(* The constructor of DeviceAddressSupplier holds queueLock: register,     *)
(* then add the addresses that are known.  An event waits for the lock.    *)
(***************************************************************************)
Constructing(u) == user[u] = "constructing"

Register(u) ==
  /\ user[u] = "call"
  /\ registered' = registered \cup {u}
  /\ Goto(u, "constructing")
  /\ UNCHANGED <<taskVars, mapVars, queue, deviceIds, tried, open, connects>>

AddNothing(u) ==
  /\ Constructing(u)
  /\ Goto(u, "load")
  /\ UNCHANGED <<taskVars, mapVars, registered, queue, deviceIds, tried, open, connects>>
AddKnown(u) ==
  /\ Constructing(u)
  /\ Enqueue(u, known)
  /\ Goto(u, "load")
  /\ UNCHANGED <<taskVars, mapVars, registered, deviceIds, tried, open, connects>>

(* The values of the map are read without its lock: the iterator throws    *)
(* when a task puts an address meanwhile.                                  *)
AddKnownThrows(u) ==
  /\ Constructing(u)
  /\ known # {} /\ \E s \in Source : task[s] = "put" /\ todo[s] # {}
  /\ Goto(u, "thrown")
  /\ UNCHANGED <<taskVars, mapVars, registered, queue, deviceIds, tried, open, connects>>

(***************************************************************************)
(* updateAddressesBg starts each source once.  Two users that read the     *)
(* flags at once may start one twice: like two sources with the same list. *)
(***************************************************************************)
UpdateAddresses(u) ==
  /\ user[u] = "load"
  /\ task' = [s \in Source |-> IF task[s] = "off" THEN "ready" ELSE task[s]]
  /\ Goto(u, "poll")
  /\ UNCHANGED <<todo, posting, current, mapVars, registered, queue, deviceIds, tried,
                 open, connects>>

GotoTask(s, label) == task' = [task EXCEPT ![s] = label]

(* processDeviceAddressBg: the list of the source, without the addresses   *)
(* that are known already.                                                 *)
Process(s) ==
  /\ task[s] = "ready"
  /\ \E list \in SUBSET Address : todo' = [todo EXCEPT ![s] = list \ known]
  /\ GotoTask(s, "rank")
  /\ UNCHANGED <<posting, current, mapVars, registered, userVars>>

(* AddressRanker.testAndRank drops what it cannot reach in time; another   *)
(* source may put one of the addresses meanwhile.                          *)
TestAndRank(s) ==
  /\ task[s] = "rank"
  /\ \E list \in SUBSET todo[s] : todo' = [todo EXCEPT ![s] = list]
  /\ GotoTask(s, "put")
  /\ UNCHANGED <<posting, current, mapVars, registered, userVars>>

(* putDeviceAddress: the map, then the repository, then the event.         *)
PutDeviceAddress(s, a) ==
  /\ task[s] = "put" /\ a \in todo[s]
  /\ todo' = [todo EXCEPT ![s] = @ \ {a}]
  /\ known' = known \cup {a}
  /\ current' = [current EXCEPT ![s] = {a}]
  /\ GotoTask(s, "post")
  /\ UNCHANGED <<posting, unposted, registered, userVars>>

(* The repository throws: no event, and the rest of the list is dropped.   *)
UpdateFails(s) ==
  /\ task[s] = "post"
  /\ unposted' = unposted \cup current[s]
  /\ current' = [current EXCEPT ![s] = {}] /\ todo' = [todo EXCEPT ![s] = {}]
  /\ GotoTask(s, "put")
  /\ UNCHANGED <<posting, known, registered, userVars>>

(* The event bus calls those that are registered now, one by one.          *)
GotoNextPut(s, subscribers) ==
  /\ posting' = [posting EXCEPT ![s] = subscribers]
  /\ current' = [current EXCEPT ![s] = IF subscribers = {} THEN {} ELSE @]
  /\ GotoTask(s, IF subscribers = {} THEN "put" ELSE "deliver")

PostEvent(s) ==
  /\ task[s] = "post"
  /\ GotoNextPut(s, registered)
  /\ UNCHANGED <<todo, mapVars, registered, userVars>>

(* handleNewDeviceAddressAcquiredEvent: synchronized (queueLock).          *)
HandleNewAddress(s, u) ==
  /\ task[s] = "deliver" /\ u \in posting[s] /\ ~Constructing(u)
  /\ GotoNextPut(s, posting[s] \ {u})
  /\ Enqueue(u, current[s])
  /\ Goto(u, IF user[u] = "waiting" THEN "woken" ELSE user[u])
  /\ UNCHANGED <<todo, mapVars, registered, deviceIds, tried, open, connects>>

(***************************************************************************)
(* The loop of getConnectionForFolder over the supplier.                   *)
(***************************************************************************)

(* getDeviceAddressOrWait: one wait, also when it ends without an address. *)
Wait(u) ==
  /\ user[u] = "poll" /\ Empty(u)
  /\ Goto(u, "waiting")
  /\ UNCHANGED <<taskVars, mapVars, registered, queue, deviceIds, tried, open, connects>>

Timeout(u) ==
  /\ user[u] = "waiting"
  /\ Goto(u, "woken")
  /\ UNCHANGED <<taskVars, mapVars, registered, queue, deviceIds, tried, open, connects>>

(* No address: the supplier gives null, and checkNotNull throws.           *)
GiveUp(u) ==
  /\ user[u] = "woken"
  /\ Goto(u, "failed")
  /\ UNCHANGED <<taskVars, mapVars, registered, queue, deviceIds, tried, open, connects>>
WaitAgain(u) ==
  /\ user[u] = "woken" /\ Empty(u)
  /\ Goto(u, "poll")
  /\ UNCHANGED <<taskVars, mapVars, registered, queue, deviceIds, tried, open, connects>>
NoConnection(u) ==
  /\ user[u] = "woken" /\ Empty(u)
  /\ Goto(u, "failed")
  /\ UNCHANGED <<taskVars, mapVars, registered, queue, deviceIds, tried, open, connects>>

Poll(u, a) ==
  /\ user[u] \in {"poll", "woken"} /\ queue[u][a] > 0
  /\ queue' = [queue EXCEPT ![u][a] = @ - 1]

(* An address of a device that this supplier connected already.            *)
SkipAddress(u, a) ==
  /\ Poll(u, a) /\ DeviceOf[a] \in deviceIds[u]
  /\ Goto(u, "poll")
  /\ UNCHANGED <<taskVars, mapVars, registered, deviceIds, tried, open, connects>>

ConnectFails(u, a) ==
  /\ Poll(u, a) /\ DeviceOf[a] \notin deviceIds[u]
  /\ tried' = [tried EXCEPT ![u] = @ \cup {a}]
  /\ Goto(u, "poll")
  /\ UNCHANGED <<taskVars, mapVars, registered, deviceIds, open, connects>>

(* The peer accepts the socket and is silent: connect() waits for its      *)
(* Hello or its ClusterConfig without a timeout, until the connection is   *)
(* cut, which is for the peer and the network to do.  A peer that answers  *)
(* in the end, however late, is in Connect.                                *)
ConnectBlocks(u, a) ==
  /\ Poll(u, a) /\ DeviceOf[a] \notin deviceIds[u]
  /\ tried' = [tried EXCEPT ![u] = @ \cup {a}]
  /\ Goto(u, "blocked")
  /\ UNCHANGED <<taskVars, mapVars, registered, deviceIds, open, connects>>

ConnectionCut(u) ==
  /\ user[u] = "blocked"
  /\ Goto(u, "poll")
  /\ UNCHANGED <<taskVars, mapVars, registered, queue, deviceIds, tried, open, connects>>

Connected(u, a) ==
  /\ tried' = [tried EXCEPT ![u] = @ \cup {a}]
  /\ open' = [open EXCEPT ![u] = @ \cup {DeviceOf[a]}]
  /\ connects' = [connects EXCEPT ![u][DeviceOf[a]] = @ + 1]
  /\ Goto(u, "connected")
  /\ UNCHANGED <<taskVars, mapVars, registered>>

ConnectAgain(u, a) ==
  /\ Poll(u, a)
  /\ UNCHANGED deviceIds
  /\ Connected(u, a)
Connect(u, a) ==
  /\ Poll(u, a) /\ DeviceOf[a] \notin deviceIds[u]
  /\ deviceIds' = [deviceIds EXCEPT ![u] = @ \cup {DeviceOf[a]}]
  /\ Connected(u, a)

(* The peer shares the folder, or the connection is closed.                *)
ReturnConnection(u) ==
  /\ user[u] = "connected"
  /\ Goto(u, "returned")
  /\ UNCHANGED <<taskVars, mapVars, registered, queue, deviceIds, tried, open, connects>>

CloseConnection(u) ==
  /\ user[u] = "connected"
  /\ open' = [open EXCEPT ![u] = {}]
  /\ Goto(u, "poll")
  /\ UNCHANGED <<taskVars, mapVars, registered, queue, deviceIds, tried, connects>>

RunTask(s) ==
  \/ Process(s) \/ TestAndRank(s) \/ UpdateFails(s) \/ PostEvent(s)
  \/ \E a \in Address : PutDeviceAddress(s, a)
  \/ \E u \in User : HandleNewAddress(s, u)

RunUser(u) ==
  \/ AddKnown(u) \/ AddKnownThrows(u) \/ UpdateAddresses(u)
  \/ Wait(u) \/ Timeout(u) \/ NoConnection(u)
  \/ \E a \in Address : \/ SkipAddress(u, a) \/ ConnectFails(u, a)
                        \/ ConnectBlocks(u, a) \/ Connect(u, a)
  \/ ReturnConnection(u) \/ CloseConnection(u)

Next ==
  \/ \E s \in Source : RunTask(s)
  \/ \E u \in User : Register(u) \/ RunUser(u) \/ ConnectionCut(u)

Spec == Init /\ [][Next]_vars

(* The users' threads run, and the wait for an address ends after its      *)
(* timeout.  Nothing is assumed of the sources, nor of the peers: an       *)
(* attempt that blocks may block for ever.                                 *)
FairSpec == Spec /\ \A u \in User : WF_vars(RunUser(u))

(***************************************************************************)
(* Properties.                                                             *)
(***************************************************************************)
TypeOK ==
  /\ task \in [Source -> {"off", "ready", "rank", "put", "post", "deliver"}]
  /\ {todo, current} \subseteq [Source -> SUBSET Address]
  /\ posting \in [Source -> SUBSET User]
  /\ known \subseteq Address /\ unposted \subseteq known /\ registered \subseteq User
  /\ user \in [User -> {"call", "constructing", "load", "poll", "waiting", "woken",
                        "blocked", "connected", "returned", "failed", "thrown"}]
  /\ queue \in [User -> [Address -> Nat]]
  /\ {deviceIds, open} \subseteq [User -> SUBSET Device]
  /\ tried \in [User -> SUBSET Address] /\ connects \in [User -> [Device -> Nat]]

(* An address of the map whose event is still to reach a supplier.         *)
OnItsWay(a, u) ==
  \E s \in Source : a \in current[s] /\ (task[s] = "deliver" => u \in posting[s])

(* A supplier is given every address: one that the map holds is in its     *)
(* queue, was handed out, or its event is on its way, whenever the         *)
(* supplier was made.  The addresses a user has been handed are those it   *)
(* tried and those of devices it had connected.                            *)
NoAddressMissed ==
  \A u \in User, a \in known \ unposted :
    user[u] \notin {"call", "constructing", "thrown"}
      => \/ queue[u][a] > 0 \/ OnItsWay(a, u)
         \/ a \in tried[u] \/ DeviceOf[a] \in deviceIds[u]

(* "unable to aquire connection": a user is told so only after it tried    *)
(* every address that its supplier was given, and holds no connection.     *)
FailedMeansTried ==
  [][\A u \in User :
       user[u] # "failed" /\ user'[u] = "failed"
         => /\ open[u] = {}
            /\ \A a \in known \ unposted :
                 OnItsWay(a, u) \/ a \in tried[u] \/ DeviceOf[a] \in deviceIds[u]]_vars

(* A device is connected once by a supplier, though its addresses are many *)
(* and one address may be queued twice.                                    *)
ConnectedOnce == \A u \in User, d \in Device : connects[u][d] <= 1

(* A user gets a connection or an exception, whatever the sources do and   *)
(* however many attempts fail, unless it ends up blocked for good by a     *)
(* silent peer.                                                            *)
UserReturns ==
  \A u \in User :
    \/ user[u] = "constructing" ~> user[u] \in {"returned", "failed", "thrown"}
    \/ <>[](user[u] = "blocked")
=============================================================================
