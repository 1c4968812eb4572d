-------------------------- MODULE DiscoveryProofs --------------------------
(***************************************************************************)
(* Theorems about Discovery, for any users, devices, addresses and sources *)
(* of addresses: no supplier misses an address, no device is connected     *)
(* twice by one supplier, and a user who is told that there is no          *)
(* connection has tried what there was.                                    *)
(***************************************************************************)
EXTENDS Discovery, TLAPS

(***************************************************************************)
(* Types.                                                                  *)
(***************************************************************************)

(* A task holds an address from its entry in the map to the last call of a *)
(* subscriber.                                                             *)
CurrentOK ==
  \A s \in Source :
    /\ current[s] \subseteq known
    /\ task[s] \notin {"post", "deliver"} => current[s] = {}

TypeInv == TypeOK /\ CurrentOK

(* What becomes of an address that the supplier hands out.                 *)
Try(u, a) ==
  SkipAddress(u, a) \/ ConnectFails(u, a) \/ ConnectBlocks(u, a) \/ Connect(u, a)

LEMMA EnqueueType ==
  ASSUME TypeOK, NEW u \in User, NEW A, Enqueue(u, A)
  PROVE  /\ queue' \in [User -> [Address -> Nat]]
         /\ \A v \in User, a \in Address :
              queue'[v][a] = queue[v][a] + IF v = u /\ a \in A THEN 1 ELSE 0
<1>1. queue \in [User -> [Address -> Nat]]
  BY DEF TypeOK
<1> DEFINE q == [a \in Address |-> queue[u][a] + IF a \in A THEN 1 ELSE 0]
<1>2. queue' = [queue EXCEPT ![u] = q]
  BY DEF Enqueue
<1>3. q \in [Address -> Nat]
  BY <1>1
<1>4. \A a \in Address : q[a] = queue[u][a] + IF a \in A THEN 1 ELSE 0
  OBVIOUS
<1> HIDE DEF q
<1>5. queue' \in [User -> [Address -> Nat]]
  BY <1>1, <1>2, <1>3
<1>6. ASSUME NEW v \in User, NEW a \in Address
      PROVE  queue'[v][a] = queue[v][a] + IF v = u /\ a \in A THEN 1 ELSE 0
  <2>1. CASE v = u
    BY <1>1, <1>2, <1>4, <2>1
  <2>2. CASE v # u
    <3>1. queue'[v] = queue[v] /\ queue[v][a] \in Nat
      BY <1>1, <1>2, <2>2
    <3> QED  BY <2>2, <3>1
  <2> QED  BY <2>1, <2>2
<1> QED  BY <1>5, <1>6

LEMMA PollType ==
  ASSUME TypeOK, NEW u \in User, NEW a \in Address, Poll(u, a)
  PROVE  /\ queue' \in [User -> [Address -> Nat]]
         /\ \A v \in User, b \in Address : ~(v = u /\ b = a) => queue'[v][b] = queue[v][b]
<1>1. queue \in [User -> [Address -> Nat]] /\ queue[u] \in [Address -> Nat]
  BY DEF TypeOK
<1> DEFINE q == [queue[u] EXCEPT ![a] = @ - 1]
<1>2. queue' = [queue EXCEPT ![u] = q] /\ queue[u][a] > 0
  BY <1>1 DEF Poll
<1>3. q \in [Address -> Nat] /\ \A b \in Address : b # a => q[b] = queue[u][b]
  BY <1>1, <1>2
<1> HIDE DEF q
<1> QED  BY <1>1, <1>2, <1>3

LEMMA InitTypeInv == Init => TypeInv
BY DEF Init, TypeInv, TypeOK, CurrentOK

LEMMA TaskTypeInv ==
  ASSUME TypeInv, NEW s \in Source, RunTask(s)
  PROVE  TypeInv'
<1>0. TypeOK /\ CurrentOK
  BY DEF TypeInv
<1>1. CASE Process(s) \/ TestAndRank(s)
  <2>1. PICK list \in SUBSET Address : todo' = [todo EXCEPT ![s] = list]
    BY <1>0, <1>1 DEF Process, TestAndRank, TypeOK
  <2>2. todo' \in [Source -> SUBSET Address]
    BY <1>0, <2>1 DEF TypeOK
  <2>3. /\ \/ task[s] = "ready" /\ task' = [task EXCEPT ![s] = "rank"]
           \/ task[s] = "rank" /\ task' = [task EXCEPT ![s] = "put"]
        /\ UNCHANGED <<posting, current, mapVars, registered, userVars>>
    BY <1>1 DEF Process, TestAndRank, GotoTask
  <2>4. TypeOK'
    BY <1>0, <2>2, <2>3 DEF TypeOK, mapVars, userVars
  <2>5. CurrentOK'
    BY <1>0, <2>3 DEF TypeOK, CurrentOK, mapVars
  <2> QED  BY <2>4, <2>5 DEF TypeInv
<1>2. CASE UpdateFails(s)
  <2>1. current[s] \subseteq known /\ current[s] \subseteq Address
    BY <1>0 DEF CurrentOK, TypeOK
  <2>2. TypeOK'
    BY <1>0, <1>2, <2>1 DEF UpdateFails, GotoTask, TypeOK, userVars
  <2>3. CurrentOK'
    BY <1>0, <1>2 DEF UpdateFails, GotoTask, TypeOK, CurrentOK
  <2> QED  BY <2>2, <2>3 DEF TypeInv
<1>3. CASE PostEvent(s)
  <2>1. TypeOK'
    BY <1>0, <1>3 DEF PostEvent, GotoNextPut, GotoTask, TypeOK, mapVars, userVars
  <2>2. CurrentOK'
    BY <1>0, <1>3 DEF PostEvent, GotoNextPut, GotoTask, TypeOK, CurrentOK, mapVars
  <2> QED  BY <2>1, <2>2 DEF TypeInv
<1>4. CASE \E a \in Address : PutDeviceAddress(s, a)
  <2>1. TypeOK'
    BY <1>0, <1>4 DEF PutDeviceAddress, GotoTask, TypeOK, userVars
  <2>2. CurrentOK'
    BY <1>0, <1>4 DEF PutDeviceAddress, GotoTask, TypeOK, CurrentOK
  <2> QED  BY <2>1, <2>2 DEF TypeInv
<1>5. CASE \E u \in User : HandleNewAddress(s, u)
  <2>1. PICK u \in User : HandleNewAddress(s, u)
    BY <1>5
  <2>2. queue' \in [User -> [Address -> Nat]]
    BY <1>0, <2>1, EnqueueType DEF HandleNewAddress
  <2>3. user' \in [User -> {"call", "constructing", "load", "poll", "waiting", "woken",
                            "blocked", "connected", "returned", "failed", "thrown"}]
    BY <1>0, <2>1 DEF HandleNewAddress, Goto, TypeOK
  <2>4. /\ task' \in [Source -> {"off", "ready", "rank", "put", "post", "deliver"}]
        /\ posting' \in [Source -> SUBSET User] /\ current' \in [Source -> SUBSET Address]
    BY <1>0, <2>1 DEF HandleNewAddress, GotoNextPut, GotoTask, TypeOK
  <2>5. TypeOK'
    BY <1>0, <2>1, <2>2, <2>3, <2>4 DEF HandleNewAddress, TypeOK, mapVars
  <2>6. CurrentOK'
    BY <1>0, <2>1 DEF HandleNewAddress, GotoNextPut, GotoTask, TypeOK, CurrentOK, mapVars
  <2> QED  BY <2>5, <2>6 DEF TypeInv
<1> QED  BY <1>1, <1>2, <1>3, <1>4, <1>5 DEF RunTask

LEMMA UserTypeInv ==
  ASSUME TypeInv, NEW u \in User, Register(u) \/ RunUser(u) \/ ConnectionCut(u)
  PROVE  TypeInv'
<1>0. TypeOK /\ CurrentOK
  BY DEF TypeInv
<1>1. CASE Register(u)
  <2>1. TypeOK'
    BY <1>0, <1>1 DEF Register, Goto, TypeOK, taskVars, mapVars
  <2>2. CurrentOK'
    BY <1>0, <1>1 DEF Register, CurrentOK, taskVars, mapVars
  <2> QED  BY <2>1, <2>2 DEF TypeInv
<1>2. CASE AddKnown(u)
  <2>1. queue' \in [User -> [Address -> Nat]]
    BY <1>0, <1>2, EnqueueType DEF AddKnown
  <2>2. TypeOK'
    BY <1>0, <1>2, <2>1 DEF AddKnown, Goto, TypeOK, taskVars, mapVars
  <2>3. CurrentOK'
    BY <1>0, <1>2 DEF AddKnown, CurrentOK, taskVars, mapVars
  <2> QED  BY <2>2, <2>3 DEF TypeInv
<1>3. CASE UpdateAddresses(u)
  <2>1. task' \in [Source -> {"off", "ready", "rank", "put", "post", "deliver"}]
        /\ \A s \in Source : task'[s] = task[s] \/ task[s] = "off"
    BY <1>0, <1>3 DEF UpdateAddresses, TypeOK
  <2>2. TypeOK'
    BY <1>0, <1>3, <2>1 DEF UpdateAddresses, Goto, TypeOK, mapVars
  <2>3. CurrentOK'
    BY <1>0, <1>3, <2>1 DEF UpdateAddresses, CurrentOK, mapVars
  <2> QED  BY <2>2, <2>3 DEF TypeInv
<1>4. CASE \/ AddKnownThrows(u) \/ Wait(u) \/ Timeout(u) \/ NoConnection(u)
           \/ ReturnConnection(u) \/ ConnectionCut(u)
  <2>1. /\ \E l \in {"thrown", "waiting", "woken", "failed", "returned", "poll"} : Goto(u, l)
        /\ UNCHANGED <<taskVars, mapVars, registered, queue, deviceIds, tried, open, connects>>
    BY <1>4 DEF AddKnownThrows, Wait, Timeout, NoConnection, ReturnConnection, ConnectionCut
  <2>2. TypeOK'
    BY <1>0, <2>1 DEF Goto, TypeOK, taskVars, mapVars
  <2>3. CurrentOK'
    BY <1>0, <2>1 DEF CurrentOK, taskVars, mapVars
  <2> QED  BY <2>2, <2>3 DEF TypeInv
<1>5. CASE CloseConnection(u)
  <2>1. TypeOK'
    BY <1>0, <1>5 DEF CloseConnection, Goto, TypeOK, taskVars, mapVars
  <2>2. CurrentOK'
    BY <1>0, <1>5 DEF CloseConnection, CurrentOK, taskVars, mapVars
  <2> QED  BY <2>1, <2>2 DEF TypeInv
<1>6. CASE \E a \in Address : Try(u, a)
  <2>1. PICK a \in Address : Try(u, a)
    BY <1>6
  <2>2. queue' \in [User -> [Address -> Nat]]
    BY <1>0, <2>1, PollType DEF Try, SkipAddress, ConnectFails, ConnectBlocks, Connect
  <2>3. UNCHANGED <<taskVars, mapVars, registered>>
    BY <2>1 DEF Try, SkipAddress, ConnectFails, ConnectBlocks, Connect, Connected
  <2>4. DeviceOf[a] \in Device
    BY DiscoveryAssumption
  <2>5. user' \in [User -> {"call", "constructing", "load", "poll", "waiting", "woken",
                            "blocked", "connected", "returned", "failed", "thrown"}]
    <3>1. \E l \in {"poll", "blocked", "connected"} : user' = [user EXCEPT ![u] = l]
      BY <2>1 DEF Try, SkipAddress, ConnectFails, ConnectBlocks, Connect, Connected, Goto
    <3> QED  BY <1>0, <3>1 DEF TypeOK
  <2>6. tried' \in [User -> SUBSET Address]
    <3>1. tried' = tried \/ tried' = [tried EXCEPT ![u] = @ \cup {a}]
      BY <2>1 DEF Try, SkipAddress, ConnectFails, ConnectBlocks, Connect, Connected
    <3>2. tried \in [User -> SUBSET Address]
      BY <1>0 DEF TypeOK
    <3> QED  BY <3>1, <3>2
  <2>7. deviceIds' \in [User -> SUBSET Device] /\ open' \in [User -> SUBSET Device]
    <3>1. \/ UNCHANGED <<deviceIds, open>>
          \/ /\ deviceIds' = [deviceIds EXCEPT ![u] = @ \cup {DeviceOf[a]}]
             /\ open' = [open EXCEPT ![u] = @ \cup {DeviceOf[a]}]
      BY <2>1 DEF Try, SkipAddress, ConnectFails, ConnectBlocks, Connect, Connected
    <3>2. deviceIds \in [User -> SUBSET Device] /\ open \in [User -> SUBSET Device]
      BY <1>0 DEF TypeOK
    <3> QED  BY <2>4, <3>1, <3>2
  <2>8. connects' \in [User -> [Device -> Nat]]
    <3>1. \/ UNCHANGED connects
          \/ connects' = [connects EXCEPT ![u] = [connects[u] EXCEPT ![DeviceOf[a]] = @ + 1]]
      BY <1>0, <2>1 DEF Try, SkipAddress, ConnectFails, ConnectBlocks, Connect, Connected, TypeOK
    <3>2. connects \in [User -> [Device -> Nat]]
      BY <1>0 DEF TypeOK
    <3>3. [connects[u] EXCEPT ![DeviceOf[a]] = @ + 1] \in [Device -> Nat]
      BY <2>4, <3>2
    <3> QED  BY <3>1, <3>2, <3>3
  <2>9. TypeOK'
    BY <1>0, <2>2, <2>3, <2>5, <2>6, <2>7, <2>8 DEF TypeOK, taskVars, mapVars
  <2>10. CurrentOK'
    BY <1>0, <2>3 DEF CurrentOK, taskVars, mapVars
  <2> QED  BY <2>9, <2>10 DEF TypeInv
<1> QED  BY <1>1, <1>2, <1>3, <1>4, <1>5, <1>6 DEF RunUser, Try

(* The variables keep their types, and an address that a task holds is in  *)
(* the map, for any users and sources.                                     *)
THEOREM TypeCorrect == Spec => []TypeInv
<1>1. TypeInv /\ Next => TypeInv'
  BY TaskTypeInv, UserTypeInv DEF Next
<1>2. TypeInv /\ UNCHANGED vars => TypeInv'
  BY DEF TypeInv, TypeOK, CurrentOK, vars, taskVars, mapVars, userVars
<1> QED  BY InitTypeInv, <1>1, <1>2, PTL DEF Spec

(***************************************************************************)
(* Connections.  A device is in the supplier's deviceIds before a second   *)
(* connection to it could be made.                                         *)
(***************************************************************************)
CountOK ==
  \A u \in User, d \in Device :
    connects[u][d] = 0 \/ (connects[u][d] = 1 /\ d \in deviceIds[u])

LEMMA NextCountOK == ASSUME TypeInv, CountOK, [Next]_vars PROVE CountOK'
<1>0. TypeOK
  BY DEF TypeInv
<1>1. CASE \E u \in User, a \in Address : Connect(u, a)
  <2>1. PICK u \in User, a \in Address : Connect(u, a)
    BY <1>1
  <2>2. /\ DeviceOf[a] \in Device /\ DeviceOf[a] \notin deviceIds[u]
        /\ deviceIds' = [deviceIds EXCEPT ![u] = @ \cup {DeviceOf[a]}]
        /\ connects' = [connects EXCEPT ![u][DeviceOf[a]] = @ + 1]
    BY <2>1, DiscoveryAssumption DEF Connect, Connected
  <2>3. connects \in [User -> [Device -> Nat]] /\ deviceIds \in [User -> SUBSET Device]
    BY <1>0 DEF TypeOK
  <2>4. ASSUME NEW v \in User, NEW d \in Device
        PROVE  connects'[v][d] = 0 \/ (connects'[v][d] = 1 /\ d \in deviceIds'[v])
    <3>1. CASE v = u /\ d = DeviceOf[a]
      <4>1. connects[u][d] = 0
        BY <2>2, <3>1 DEF CountOK
      <4>2. connects'[v][d] = connects[u][d] + 1 /\ d \in deviceIds'[v]
        BY <2>2, <2>3, <3>1
      <4> QED  BY <4>1, <4>2
    <3>2. CASE ~(v = u /\ d = DeviceOf[a])
      <4>1. connects'[v][d] = connects[v][d] /\ (d \in deviceIds[v] => d \in deviceIds'[v])
        BY <2>2, <2>3, <3>2
      <4> QED  BY <4>1 DEF CountOK
    <3> QED  BY <3>1, <3>2
  <2> QED  BY <2>4 DEF CountOK
<1>2. CASE ~\E u \in User, a \in Address : Connect(u, a)
  <2>1. UNCHANGED <<connects, deviceIds>>
    BY <1>2 DEF Next, RunTask, RunUser, vars, userVars, Process, TestAndRank, UpdateFails,
         PostEvent, PutDeviceAddress, HandleNewAddress, Register, AddKnown, AddKnownThrows,
         UpdateAddresses, Wait, Timeout, NoConnection, SkipAddress, ConnectFails,
         ConnectBlocks, ConnectionCut, ReturnConnection, CloseConnection
  <2> QED  BY <2>1 DEF CountOK
<1> QED  BY <1>1, <1>2

(* A supplier connects a device once, though a device has many addresses   *)
(* and an address may be queued twice.                                     *)
THEOREM DeviceConnectedOnce == Spec => []ConnectedOnce
<1>1. Init => CountOK
  BY DEF Init, CountOK
<1>2. TypeInv /\ CountOK /\ [Next]_vars => CountOK'
  BY NextCountOK
<1>3. CountOK => ConnectedOnce
  BY DEF CountOK, ConnectedOnce
<1> QED  BY TypeCorrect, <1>1, <1>2, <1>3, PTL DEF Spec

(***************************************************************************)
(* Addresses.  A user is registered before the map is read, so an address  *)
(* is read there or its event comes.                                       *)
(***************************************************************************)
RegisteredOK == \A u \in User : user[u] # "call" => u \in registered

AddressInv == RegisteredOK /\ NoAddressMissed

Reached(a, u) ==
  \/ queue[u][a] > 0 \/ OnItsWay(a, u)
  \/ a \in tried[u] \/ DeviceOf[a] \in deviceIds[u]

Supplied(u) == user[u] \notin {"call", "constructing", "thrown"}

LEMMA MissedReached ==
  NoAddressMissed <=> \A u \in User, a \in known \ unposted : Supplied(u) => Reached(a, u)
BY DEF NoAddressMissed, Reached, Supplied

LEMMA MissedReachedPrime ==
  NoAddressMissed' <=> \A u \in User, a \in (known \ unposted)' : Supplied(u)' => Reached(a, u)'
BY DEF NoAddressMissed, Reached, Supplied, OnItsWay

LEMMA TaskAddressInv ==
  ASSUME TypeInv, AddressInv, NEW s \in Source, RunTask(s)
  PROVE  AddressInv'
<1>0. TypeOK /\ CurrentOK /\ RegisteredOK /\ NoAddressMissed
  BY DEF TypeInv, AddressInv
<1>1. CASE Process(s) \/ TestAndRank(s)
  <2>1. /\ \/ task[s] = "ready" /\ task' = [task EXCEPT ![s] = "rank"]
           \/ task[s] = "rank" /\ task' = [task EXCEPT ![s] = "put"]
        /\ UNCHANGED <<posting, current, mapVars, registered, userVars>>
    BY <1>1 DEF Process, TestAndRank, GotoTask
  <2>2. \A a \in Address, u \in User : OnItsWay(a, u) => OnItsWay(a, u)'
    BY <1>0, <2>1 DEF OnItsWay, TypeOK
  <2> QED  BY <1>0, <2>1, <2>2 DEF AddressInv, RegisteredOK, NoAddressMissed, TypeOK,
             mapVars, userVars
<1>2. CASE UpdateFails(s)
  <2>1. /\ task[s] = "post" /\ task' = [task EXCEPT ![s] = "put"]
        /\ unposted' = unposted \cup current[s] /\ current' = [current EXCEPT ![s] = {}]
        /\ UNCHANGED <<posting, known, registered, userVars>>
    BY <1>2 DEF UpdateFails, GotoTask
  <2>2. ASSUME NEW a \in known' \ unposted', NEW u \in User, OnItsWay(a, u)
        PROVE  OnItsWay(a, u)'
    <3>1. PICK r \in Source : a \in current[r] /\ (task[r] = "deliver" => u \in posting[r])
      BY <2>2 DEF OnItsWay
    <3>2. r # s
      BY <2>1, <2>2, <3>1
    <3>3. a \in current'[r] /\ task'[r] = task[r] /\ posting' = posting
      BY <1>0, <2>1, <3>1, <3>2 DEF TypeOK
    <3> QED  BY <3>1, <3>3 DEF OnItsWay
  <2> QED  BY <1>0, <2>1, <2>2 DEF AddressInv, RegisteredOK, NoAddressMissed, userVars
<1>3. CASE PostEvent(s)
  <2>1. /\ task[s] = "post" /\ UNCHANGED <<todo, mapVars, registered, userVars>>
        /\ posting' = [posting EXCEPT ![s] = registered]
        /\ current' = [current EXCEPT ![s] = IF registered = {} THEN {} ELSE @]
        /\ task' = [task EXCEPT ![s] = IF registered = {} THEN "put" ELSE "deliver"]
    BY <1>3 DEF PostEvent, GotoNextPut, GotoTask
  <2>2. ASSUME NEW a \in Address, NEW u \in User, u \in registered, OnItsWay(a, u)
        PROVE  OnItsWay(a, u)'
    <3>1. PICK r \in Source : a \in current[r] /\ (task[r] = "deliver" => u \in posting[r])
      BY <2>2 DEF OnItsWay
    <3>2. current'[r] = current[r] /\ (task'[r] = "deliver" => u \in posting'[r])
      <4>1. CASE r = s
        BY <1>0, <2>1, <2>2, <4>1 DEF TypeOK
      <4>2. CASE r # s
        BY <1>0, <2>1, <3>1, <4>2 DEF TypeOK
      <4> QED  BY <4>1, <4>2
    <3> QED  BY <3>1, <3>2 DEF OnItsWay
  <2> QED  BY <1>0, <2>1, <2>2 DEF AddressInv, RegisteredOK, NoAddressMissed, TypeOK,
             mapVars, userVars
<1>4. CASE \E a \in Address : PutDeviceAddress(s, a)
  <2>1. PICK b \in Address : PutDeviceAddress(s, b)
    BY <1>4
  <2>2. /\ task[s] = "put" /\ task' = [task EXCEPT ![s] = "post"]
        /\ known' = known \cup {b} /\ current' = [current EXCEPT ![s] = {b}]
        /\ UNCHANGED <<posting, unposted, registered, userVars>>
    BY <2>1 DEF PutDeviceAddress, GotoTask
  <2>3. ASSUME NEW a \in Address, NEW u \in User, OnItsWay(a, u)
        PROVE  OnItsWay(a, u)'
    <3>1. PICK r \in Source : a \in current[r] /\ (task[r] = "deliver" => u \in posting[r])
      BY <2>3 DEF OnItsWay
    <3>2. r # s
      BY <1>0, <2>2, <3>1 DEF CurrentOK
    <3>3. current'[r] = current[r] /\ task'[r] = task[r] /\ posting' = posting
      BY <1>0, <2>2, <3>2 DEF TypeOK
    <3> QED  BY <3>1, <3>3 DEF OnItsWay
  <2>4. \A u \in User : OnItsWay(b, u)'
    BY <1>0, <2>2 DEF OnItsWay, TypeOK
  <2> QED  BY <1>0, <2>2, <2>3, <2>4 DEF AddressInv, RegisteredOK, NoAddressMissed, TypeOK,
             userVars
<1>5. CASE \E u \in User : HandleNewAddress(s, u)
  <2>1. PICK w \in User : HandleNewAddress(s, w)
    BY <1>5
  <2> DEFINE left == posting[s] \ {w}
  <2>2. /\ task[s] = "deliver" /\ w \in posting[s]
        /\ posting' = [posting EXCEPT ![s] = left]
        /\ current' = [current EXCEPT ![s] = IF left = {} THEN {} ELSE @]
        /\ task' = [task EXCEPT ![s] = IF left = {} THEN "put" ELSE "deliver"]
        /\ UNCHANGED <<mapVars, registered, deviceIds, tried>>
        /\ user' = [user EXCEPT ![w] = IF user[w] = "waiting" THEN "woken" ELSE user[w]]
    BY <2>1 DEF HandleNewAddress, GotoNextPut, GotoTask, Goto
  <2>3. \A v \in User, a \in Address :
          queue'[v][a] = queue[v][a] + IF v = w /\ a \in current[s] THEN 1 ELSE 0
    BY <1>0, <2>1, EnqueueType DEF HandleNewAddress
  <2>4. queue \in [User -> [Address -> Nat]]
    BY <1>0 DEF TypeOK
  <2>5. ASSUME NEW a \in Address, NEW u \in User, OnItsWay(a, u)
        PROVE  OnItsWay(a, u)' \/ queue'[u][a] > 0
    <3>1. PICK r \in Source : a \in current[r] /\ (task[r] = "deliver" => u \in posting[r])
      BY <2>5 DEF OnItsWay
    <3>2. CASE r # s
      <4>1. current'[r] = current[r] /\ task'[r] = task[r] /\ posting'[r] = posting[r]
        BY <1>0, <2>2, <3>2 DEF TypeOK
      <4> QED  BY <3>1, <4>1 DEF OnItsWay
    <3>3. CASE r = s /\ u # w
      <4>1. u \in left
        BY <2>2, <3>1, <3>3
      <4>2. current'[s] = current[s] /\ posting'[s] = left
        BY <1>0, <2>2, <4>1 DEF TypeOK
      <4> QED  BY <3>1, <3>3, <4>1, <4>2 DEF OnItsWay
    <3>4. CASE r = s /\ u = w
      BY <2>3, <2>4, <3>1, <3>4
    <3> QED  BY <3>2, <3>3, <3>4
  <2>6. \A u \in User : Supplied(u)' <=> Supplied(u)
    BY <1>0, <2>2 DEF Supplied, TypeOK
  <2>7. RegisteredOK'
    BY <1>0, <2>2 DEF RegisteredOK, TypeOK
  <2>8. ASSUME NEW u \in User, NEW a \in known' \ unposted', Supplied(u)'
        PROVE  Reached(a, u)'
    <3>1. Reached(a, u) /\ a \in Address
      BY <1>0, <2>2, <2>6, <2>8, MissedReached DEF TypeOK, mapVars
    <3>2. queue[u][a] > 0 => queue'[u][a] > 0
      BY <2>3, <2>4, <3>1
    <3> QED  BY <2>2, <2>5, <3>1, <3>2 DEF Reached
  <2> QED  BY <2>7, <2>8, MissedReachedPrime DEF AddressInv
<1> QED  BY <1>1, <1>2, <1>3, <1>4, <1>5 DEF RunTask

LEMMA UserAddressInv ==
  ASSUME TypeInv, AddressInv, NEW u \in User, Register(u) \/ RunUser(u) \/ ConnectionCut(u)
  PROVE  AddressInv'
<1>0. TypeOK /\ RegisteredOK /\ NoAddressMissed
  BY DEF TypeInv, AddressInv
<1>1. CASE Register(u)
  <2>1. /\ registered' = registered \cup {u} /\ user' = [user EXCEPT ![u] = "constructing"]
        /\ UNCHANGED <<taskVars, mapVars, queue, deviceIds, tried>>
    BY <1>1 DEF Register, Goto
  <2> QED  BY <1>0, <2>1 DEF AddressInv, RegisteredOK, NoAddressMissed, OnItsWay, TypeOK,
             taskVars, mapVars
<1>2. CASE AddKnown(u)
  <2>1. /\ user[u] = "constructing" /\ user' = [user EXCEPT ![u] = "load"]
        /\ UNCHANGED <<taskVars, mapVars, registered, deviceIds, tried>>
    BY <1>2 DEF AddKnown, Constructing, Goto
  <2>2. /\ queue \in [User -> [Address -> Nat]]
        /\ \A v \in User, a \in Address :
             queue'[v][a] = queue[v][a] + IF v = u /\ a \in known THEN 1 ELSE 0
    BY <1>0, <1>2, EnqueueType DEF AddKnown, TypeOK
  <2>3. ASSUME NEW v \in User, NEW a \in known \ unposted, Supplied(v)'
        PROVE  Reached(a, v)'
    <3>1. a \in Address
      BY <1>0 DEF TypeOK
    <3>2. CASE v = u
      <4>1. queue'[v][a] > 0
        BY <2>2, <3>1, <3>2
      <4> QED  BY <4>1 DEF Reached
    <3>3. CASE v # u
      <4>1. Supplied(v) /\ queue'[v][a] = queue[v][a]
        BY <1>0, <2>1, <2>2, <2>3, <3>1, <3>3 DEF Supplied, TypeOK
      <4>2. Reached(a, v)
        BY <1>0, <4>1, MissedReached
      <4> QED  BY <2>1, <4>1, <4>2 DEF Reached, OnItsWay, taskVars
    <3> QED  BY <3>2, <3>3
  <2>4. RegisteredOK'
    BY <1>0, <2>1 DEF RegisteredOK, TypeOK
  <2> QED  BY <2>1, <2>3, <2>4, MissedReachedPrime DEF AddressInv, mapVars
<1>3. CASE UpdateAddresses(u)
  <2>1. /\ user[u] = "load" /\ user' = [user EXCEPT ![u] = "poll"]
        /\ task' = [s \in Source |-> IF task[s] = "off" THEN "ready" ELSE task[s]]
        /\ UNCHANGED <<posting, current, mapVars, registered, queue, deviceIds, tried>>
    BY <1>3 DEF UpdateAddresses, Goto
  <2>2. \A s \in Source : task'[s] = "deliver" => task[s] = "deliver"
    BY <2>1
  <2> QED  BY <1>0, <2>1, <2>2 DEF AddressInv, RegisteredOK, NoAddressMissed, OnItsWay, TypeOK,
             mapVars
<1>4. CASE \/ AddKnownThrows(u) \/ Wait(u) \/ Timeout(u) \/ NoConnection(u)
           \/ ReturnConnection(u) \/ CloseConnection(u) \/ ConnectionCut(u)
  <2>1. \/ Goto(u, "thrown")
        \/ /\ user[u] \in {"poll", "waiting", "woken", "blocked", "connected"}
           /\ \E l \in {"waiting", "woken", "failed", "returned", "poll"} : Goto(u, l)
    BY <1>4 DEF AddKnownThrows, Wait, Timeout, NoConnection, ReturnConnection, CloseConnection,
         ConnectionCut
  <2>2. user[u] # "call"
    BY <1>4 DEF AddKnownThrows, Constructing, Wait, Timeout, NoConnection, ReturnConnection,
         CloseConnection, ConnectionCut
  <2>3. UNCHANGED <<taskVars, mapVars, registered, queue, deviceIds, tried>>
    BY <1>4 DEF AddKnownThrows, Wait, Timeout, NoConnection, ReturnConnection, CloseConnection,
         ConnectionCut
  <2>4. RegisteredOK'
    BY <1>0, <2>1, <2>2, <2>3 DEF RegisteredOK, Goto, TypeOK
  <2>5. \A v \in User : Supplied(v)' => Supplied(v)
    BY <1>0, <2>1 DEF Supplied, Goto, TypeOK
  <2> QED  BY <1>0, <2>3, <2>4, <2>5 DEF AddressInv, NoAddressMissed, OnItsWay, Supplied,
             taskVars, mapVars
<1>5. CASE \E a \in Address : Try(u, a)
  <2>1. PICK b \in Address : Try(u, b)
    BY <1>5
  <2>2. /\ user[u] \in {"poll", "woken"}
        /\ \E l \in {"poll", "blocked", "connected"} : user' = [user EXCEPT ![u] = l]
        /\ UNCHANGED <<taskVars, mapVars, registered>>
    BY <2>1 DEF Try, SkipAddress, ConnectFails, ConnectBlocks, Connect, Connected, Poll, Goto
  <2>3. \A v \in User, a \in Address : ~(v = u /\ a = b) => queue'[v][a] = queue[v][a]
    BY <1>0, <2>1, PollType DEF Try, SkipAddress, ConnectFails, ConnectBlocks, Connect
  <2>4. /\ \A v \in User : tried[v] \subseteq tried'[v] /\ deviceIds[v] \subseteq deviceIds'[v]
        /\ b \in tried'[u] \/ DeviceOf[b] \in deviceIds'[u]
    <3>1. \/ UNCHANGED <<tried, deviceIds>> /\ DeviceOf[b] \in deviceIds[u]
          \/ tried' = [tried EXCEPT ![u] = @ \cup {b}] /\ UNCHANGED deviceIds
          \/ /\ tried' = [tried EXCEPT ![u] = @ \cup {b}]
             /\ deviceIds' = [deviceIds EXCEPT ![u] = @ \cup {DeviceOf[b]}]
      BY <2>1 DEF Try, SkipAddress, ConnectFails, ConnectBlocks, Connect, Connected
    <3>2. tried \in [User -> SUBSET Address] /\ deviceIds \in [User -> SUBSET Device]
      BY <1>0 DEF TypeOK
    <3> QED  BY <3>1, <3>2
  <2>5. RegisteredOK'
    BY <1>0, <2>2 DEF RegisteredOK, TypeOK
  <2>6. \A v \in User : Supplied(v)' <=> Supplied(v)
    BY <1>0, <2>2 DEF Supplied, TypeOK
  <2>7. ASSUME NEW v \in User, NEW a \in known \ unposted, Supplied(v)'
        PROVE  Reached(a, v)'
    <3>1. Reached(a, v) /\ a \in Address
      BY <1>0, <2>6, <2>7, MissedReached DEF TypeOK
    <3>2. CASE v = u /\ a = b
      BY <2>4, <3>2 DEF Reached
    <3>3. CASE ~(v = u /\ a = b)
      <4>1. queue'[v][a] = queue[v][a]
        BY <2>3, <3>1, <3>3
      <4> QED  BY <2>2, <2>4, <3>1, <4>1 DEF Reached, OnItsWay, taskVars
    <3> QED  BY <3>2, <3>3
  <2> QED  BY <2>2, <2>5, <2>7, MissedReachedPrime DEF AddressInv, mapVars
<1> QED  BY <1>1, <1>2, <1>3, <1>4, <1>5 DEF RunUser, Try

(* A supplier is given every address of the map, whenever it was made and  *)
(* whatever the sources do meanwhile, unless its event was never posted.   *)
THEOREM AddressesSupplied == Spec => []NoAddressMissed
<1>1. Init => AddressInv
  BY DEF Init, AddressInv, RegisteredOK, NoAddressMissed
<1>2. TypeInv /\ AddressInv /\ Next => AddressInv'
  BY TaskAddressInv, UserAddressInv DEF Next
<1>3. AddressInv /\ UNCHANGED vars => AddressInv'
  BY DEF AddressInv, RegisteredOK, NoAddressMissed, OnItsWay, vars, taskVars, mapVars, userVars
<1>4. AddressInv => NoAddressMissed
  BY DEF AddressInv
<1> QED  BY TypeCorrect, <1>1, <1>2, <1>3, <1>4, PTL DEF Spec

(***************************************************************************)
(* A user that gives up.                                                   *)
(***************************************************************************)
OpenOK == \A u \in User : open[u] # {} => user[u] \in {"connected", "returned"}

LEMMA NextOpenOK == ASSUME TypeInv, OpenOK, [Next]_vars PROVE OpenOK'
<1>0. TypeOK
  BY DEF TypeInv
<1>1. CASE \E s \in Source : RunTask(s)
  <2>1. /\ open' = open
        /\ user' = user \/ \E v \in User : Goto(v, IF user[v] = "waiting" THEN "woken" ELSE user[v])
    BY <1>1 DEF RunTask, Process, TestAndRank, UpdateFails, PostEvent, PutDeviceAddress,
         HandleNewAddress, userVars
  <2> QED  BY <1>0, <2>1 DEF OpenOK, Goto, TypeOK
<1>2. CASE \E u \in User : Register(u) \/ RunUser(u) \/ ConnectionCut(u)
  <2>1. PICK u \in User : Register(u) \/ RunUser(u) \/ ConnectionCut(u)
    BY <1>2
  <2>2. CASE \E a \in Address : Connect(u, a)
    <3>1. /\ user' = [user EXCEPT ![u] = "connected"]
          /\ \E d : open' = [open EXCEPT ![u] = @ \cup {d}]
      BY <2>2 DEF Connect, Connected, Goto
    <3> QED  BY <1>0, <3>1 DEF OpenOK, TypeOK
  <2>3. CASE ReturnConnection(u)
    BY <1>0, <2>3 DEF ReturnConnection, Goto, OpenOK, TypeOK
  <2>4. CASE CloseConnection(u)
    BY <1>0, <2>4 DEF CloseConnection, Goto, OpenOK, TypeOK
  <2>5. CASE ~(ReturnConnection(u) \/ CloseConnection(u) \/ \E a \in Address : Connect(u, a))
    <3>1. /\ open' = open /\ user[u] \notin {"connected", "returned"}
          /\ \E l : user' = [user EXCEPT ![u] = l]
      BY <2>1, <2>5 DEF RunUser, Register, AddKnown, AddKnownThrows, Constructing, UpdateAddresses,
           Wait, Timeout, NoConnection, SkipAddress, ConnectFails, ConnectBlocks, ConnectionCut,
           Poll, Goto
    <3> QED  BY <1>0, <3>1 DEF OpenOK, TypeOK
  <2> QED  BY <2>2, <2>3, <2>4, <2>5
<1>3. CASE UNCHANGED vars
  BY <1>3 DEF OpenOK, vars, userVars
<1> QED  BY <1>1, <1>2, <1>3 DEF Next

(* A user who is told "unable to aquire connection" has tried every        *)
(* address its supplier was given, and holds no connection.                *)
THEOREM FailedTried == Spec => FailedMeansTried
<1> DEFINE Tells(u) ==
      user[u] # "failed" /\ user'[u] = "failed"
        => /\ open[u] = {}
           /\ \A a \in known \ unposted :
                OnItsWay(a, u) \/ a \in tried[u] \/ DeviceOf[a] \in deviceIds[u]
<1>1. ASSUME TypeInv, NoAddressMissed, OpenOK, [Next]_vars PROVE \A u \in User : Tells(u)
  <2> SUFFICES ASSUME NEW u \in User, user[u] # "failed", user'[u] = "failed"
               PROVE  Tells(u)
    OBVIOUS
  <2>0. TypeOK
    BY <1>1 DEF TypeInv
  <2>1. NoConnection(u)
    <3>1. CASE \E s \in Source : RunTask(s)
      <4>1. user' = user
            \/ \E v \in User : Goto(v, IF user[v] = "waiting" THEN "woken" ELSE user[v])
        BY <3>1 DEF RunTask, Process, TestAndRank, UpdateFails, PostEvent, PutDeviceAddress,
             HandleNewAddress, userVars
      <4> QED  BY <2>0, <4>1 DEF Goto, TypeOK
    <3>2. CASE \E v \in User : Register(v) \/ RunUser(v) \/ ConnectionCut(v)
      <4>1. PICK v \in User : Register(v) \/ RunUser(v) \/ ConnectionCut(v)
        BY <3>2
      <4>2. NoConnection(v) \/ \E l \in {"constructing", "load", "thrown", "poll", "waiting",
                                         "woken", "blocked", "connected", "returned"} : Goto(v, l)
        BY <4>1 DEF RunUser, Register, AddKnown, AddKnownThrows, UpdateAddresses, Wait, Timeout,
             SkipAddress, ConnectFails, ConnectBlocks, ConnectionCut, Connect, Connected,
             ReturnConnection, CloseConnection
      <4>3. NoConnection(v) => Goto(v, "failed")
        BY DEF NoConnection
      <4> QED  BY <2>0, <4>2, <4>3 DEF Goto, TypeOK
    <3>3. CASE UNCHANGED vars
      BY <3>3 DEF vars, userVars
    <3> QED  BY <1>1, <3>1, <3>2, <3>3 DEF Next
  <2>2. user[u] = "woken" /\ \A a \in Address : queue[u][a] = 0
    BY <2>1 DEF NoConnection, Empty
  <2>3. open[u] = {}
    BY <1>1, <2>2 DEF OpenOK
  <2>4. \A a \in known \ unposted : a \in Address
    BY <2>0 DEF TypeOK
  <2> QED  BY <1>1, <2>2, <2>3, <2>4 DEF NoAddressMissed
<1>2. Init => OpenOK
  BY DEF Init, OpenOK
<1>3. TypeInv /\ OpenOK /\ [Next]_vars => OpenOK'
  BY NextOpenOK
<1>4. TypeInv /\ NoAddressMissed /\ OpenOK /\ [Next]_vars => [\A u \in User : Tells(u)]_vars
  BY <1>1
<1>5. Spec => [][\A u \in User : Tells(u)]_vars
  BY TypeCorrect, AddressesSupplied, <1>2, <1>3, <1>4, PTL DEF Spec
<1> QED  BY <1>5 DEF FailedMeansTried
=============================================================================
