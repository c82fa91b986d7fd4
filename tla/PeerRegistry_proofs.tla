------------------------ MODULE PeerRegistry_proofs ------------------------
(***************************************************************************)
(* Proofs about PeerRegistry, for every set of peers, resources and        *)
(* requests and every lease: the store converges, a query lists peers that *)
(* are alive, and the API names providers that are there.                  *)
(***************************************************************************)
EXTENDS PeerRegistry, FiniteSetTheorems, TLAPS

(* A command changes whether a peer is registered. *)
IsCommand(e, p) == e.type \in {"register", "unregister"} /\ e.peer = p
Has(s, p) == \E i \in 1 .. Len(s) : IsCommand(s[i], p)

(* A command about the peer is between its write to the store and its      *)
(* handler, or never gets there.                                           *)
Commanded(p) ==
  \/ \E c \in Calls : pc[c] = "publish" /\ IsCommand(cevt[c], p)
  \/ Has(bus, p)
  \/ p \in lost

(* The callback goroutine is between Get and Set for the peer. *)
Working == hpc \in {"heartbeat", "report"}
WorksOn(p) == Working /\ hevt.peer = p

(* The goroutines work on what they were given. *)
EventsHeld ==
  /\ Working => hevt \in Event /\ hevt.type = hpc /\ hpeer \in PeerInfo
  /\ ~Working => hevt = None
  /\ \A c \in Calls : pc[c] = "publish" => cevt[c] \in Event
  /\ \A c \in Calls :
       pc[c] = "catalog" => cevt[c] \in Event /\ cevt[c].type = "register"

(* No lease in the store, nor the one a handler will write back, is newer  *)
(* than the last sign of life.                                             *)
Leased ==
  /\ \A p \in PeerIds : peers[p] # None => peers[p].lastHeartbeatAt <= alive[p]
  /\ Working => hpeer.lastHeartbeatAt <= alive[hevt.peer]

(* The record is what the delivered events make of it. *)
Agrees(p) ==
  IF expected[p].registered
  THEN peers[p] # None /\ peers[p].resources = expected[p].resources
  ELSE peers[p] = None

(* Without a command under way the store agrees with the events, unless a  *)
(* handler is about to make it agree.                                      *)
Converging ==
  \A p \in PeerIds :
    ~Commanded(p) =>
      /\ ~WorksOn(p) => Agrees(p)
      /\ WorksOn(p) =>
           /\ expected[p].registered /\ peers[p] # None
           /\ hpc = "heartbeat" => hpeer.resources = expected[p].resources
           /\ hpc = "report" => hevt.resources = expected[p].resources

IInv == TypeOK /\ EventsHeld /\ Leased /\ Converging

USE DEF handlerVars, callVars, historyVars

-----------------------------------------------------------------------------
(* Events and the queue. *)

(* What every event has, and what those of a type have. *)
LEMMA EventFields ==
  ASSUME NEW e \in Event
  PROVE  /\ e.peer \in PeerIds
         /\ e.type \in {"register", "unregister", "heartbeat", "report"}
         /\ e.type \in {"register", "report"} => e.resources \in SUBSET Resources
         /\ e.type = "heartbeat" => e.timestamp \in Nat \cup {None}
  BY DEF Event, RegisterEvent, UnregisterEvent, HeartbeatEvent, ReportEvent

(* The events other nodes send are events. *)
LEMMA RemoteIsEvent == RemoteEvents \subseteq Event
  BY RegistryAssumption
  DEF RemoteEvents, Event, RegisterEvent, UnregisterEvent, HeartbeatEvent,
      ReportEvent

(* A record of the store. *)
LEMMA InfoFields ==
  ASSUME NEW r \in PeerInfo
  PROVE  /\ r # None /\ r.status \in PeerStatus
         /\ r.lastHeartbeatAt \in Nat /\ r.resources \in SUBSET Resources
  BY NoneAssumption DEF PeerInfo

(* Publish puts an event behind the others. *)
LEMMA HasAppend ==
  ASSUME NEW s \in Seq(Event), NEW e \in Event, NEW p
  PROVE  /\ Append(s, e) \in Seq(Event)
         /\ Has(Append(s, e), p) <=> Has(s, p) \/ IsCommand(e, p)
<1>1. /\ Append(s, e) \in Seq(Event) /\ Len(s) \in Nat
      /\ Len(Append(s, e)) = Len(s) + 1
      /\ \A i \in 1 .. Len(s) : Append(s, e)[i] = s[i]
      /\ Append(s, e)[Len(s) + 1] = e
  OBVIOUS
<1>2. \A i : i \in 1 .. Len(s) + 1 <=> i \in 1 .. Len(s) \/ i = Len(s) + 1
  BY <1>1
<1> QED BY <1>1, <1>2 DEF Has

(* Delivery takes the first. *)
LEMMA HasTail ==
  ASSUME NEW s \in Seq(Event), s # <<>>, NEW p
  PROVE  /\ Tail(s) \in Seq(Event) /\ Head(s) \in Event
         /\ Has(s, p) <=> Has(Tail(s), p) \/ IsCommand(Head(s), p)
<1>1. /\ Tail(s) \in Seq(Event) /\ Head(s) \in Event /\ Head(s) = s[1]
      /\ Len(s) \in Nat \ {0} /\ Len(Tail(s)) = Len(s) - 1
      /\ \A i \in 1 .. Len(s) - 1 : Tail(s)[i] = s[i + 1]
  OBVIOUS
<1>2. ASSUME Has(s, p) PROVE Has(Tail(s), p) \/ IsCommand(Head(s), p)
  <2>1. PICK i \in 1 .. Len(s) : IsCommand(s[i], p)
    BY <1>2 DEF Has
  <2>2. CASE i = 1
    BY <1>1, <2>1, <2>2
  <2>3. CASE i # 1
    <3>1. i - 1 \in 1 .. Len(s) - 1 /\ Tail(s)[i - 1] = s[i]
      BY <1>1, <2>3
    <3> QED BY <1>1, <2>1, <3>1 DEF Has
  <2> QED BY <2>2, <2>3
<1>3. ASSUME Has(Tail(s), p) PROVE Has(s, p)
  <2>1. PICK i \in 1 .. Len(s) - 1 : IsCommand(Tail(s)[i], p)
    BY <1>1, <1>3 DEF Has
  <2>2. i + 1 \in 1 .. Len(s) /\ IsCommand(s[i + 1], p)
    BY <1>1, <2>1
  <2> QED BY <2>2 DEF Has
<1>4. IsCommand(Head(s), p) => Has(s, p)
  BY <1>1 DEF Has
<1> QED BY <1>1, <1>2, <1>3, <1>4

-----------------------------------------------------------------------------
(* Requests. *)

(* Nothing is registered, nothing is under way. *)
LEMMA InitIInv == Init => IInv
<1> SUFFICES ASSUME Init PROVE IInv
  OBVIOUS
<1> USE RegistryAssumption, NoneAssumption
<1>1. /\ peers \in [PeerIds -> PeerInfo \cup {None}]
      /\ index \in [Resources -> SUBSET PeerIds]
      /\ gauge \in [active : Nat, stale : Nat]
      /\ bus \in Seq(Event)
      /\ hpc \in HandlerSteps /\ hevt = None /\ hpeer = None
      /\ pc \in [Calls -> CallSteps]
      /\ cevt \in [Calls -> Event \cup {None}]
  BY DEF Init, HandlerSteps, CallSteps
<1>2. /\ now \in Nat /\ remote \in 0 .. MaxRemote
      /\ expected \in [PeerIds -> Outcome]
      /\ alive \in [PeerIds -> Nat] /\ lost \subseteq PeerIds
  BY DEF Init, Outcome, Unregistered
<1>3. TypeOK
  BY <1>1, <1>2 DEF TypeOK
<1>4. EventsHeld /\ Leased
  BY DEF Init, EventsHeld, Leased, Working
<1>5. Converging
  BY DEF Init, Converging, Agrees, Unregistered, WorksOn, Working
<1> QED BY <1>3, <1>4, <1>5 DEF IInv

(* RegisterPeer and UnregisterPeer write the store and have a command to   *)
(* publish.                                                                *)
LEMMA CommandKeeps ==
  ASSUME IInv, NEW c \in Calls, NEW p \in PeerIds,
         NEW resources \in SUBSET Resources,
         RegisterPeer(c, p, resources) \/ UnregisterPeer(c, p)
  PROVE  IInv'
<1> USE RegistryAssumption, NoneAssumption
<1>1. /\ now \in Nat /\ alive \in [PeerIds -> Nat]
      /\ Registering(resources) \in PeerInfo
  BY DEF IInv, TypeOK, PeerInfo, Registering, PeerStatus
<1>2. /\ [type |-> "register", peer |-> p, resources |-> resources] \in Event
      /\ [type |-> "unregister", peer |-> p] \in Event
  BY DEF Event, RegisterEvent, UnregisterEvent
<1>3. /\ \/ peers'[p] = None
         \/ peers'[p] = Registering(resources) /\ alive'[p] >= now
      /\ \A q \in PeerIds : q # p => peers'[q] = peers[q]
      /\ \A q \in PeerIds : alive'[q] \in Nat /\ alive'[q] >= alive[q]
      /\ peers' \in [PeerIds -> PeerInfo \cup {None}]
      /\ alive' \in [PeerIds -> Nat]
  <2>1. CASE RegisterPeer(c, p, resources)
    <3>1. peers' = [peers EXCEPT ![p] = Registering(resources)]
          /\ alive' = [alive EXCEPT ![p] = Later(@, now)]
      BY <2>1 DEF RegisterPeer, Set, SignOfLife
    <3>2. \A a \in Nat : Later(a, now) \in Nat /\ Later(a, now) >= a /\ Later(a, now) >= now
      BY <1>1 DEF Later
    <3> QED BY <1>1, <3>1, <3>2 DEF IInv, TypeOK
  <2>2. CASE UnregisterPeer(c, p)
    <3>1. peers' = [peers EXCEPT ![p] = None] /\ alive' = alive
      BY <2>2 DEF UnregisterPeer, Delete
    <3> QED BY <1>1, <3>1 DEF IInv, TypeOK
  <2> QED BY <2>1, <2>2
<1>4. /\ pc[c] = "idle" /\ pc'[c] = "publish"
      /\ IsCommand(cevt'[c], p) /\ cevt'[c] \in Event
      /\ \A d \in Calls : d # c => pc'[d] = pc[d] /\ cevt'[d] = cevt[d]
      /\ pc' \in [Calls -> CallSteps] /\ cevt' \in [Calls -> Event \cup {None}]
  <2>1. /\ pc[c] = "idle" /\ pc' = [pc EXCEPT ![c] = "publish"]
        /\ \E e \in Event : IsCommand(e, p) /\ cevt' = [cevt EXCEPT ![c] = e]
    <3>1. /\ IsCommand([type |-> "register", peer |-> p, resources |-> resources], p)
          /\ IsCommand([type |-> "unregister", peer |-> p], p)
      BY DEF IsCommand
    <3> QED BY <1>2, <3>1 DEF RegisterPeer, UnregisterPeer
  <2> QED BY <2>1 DEF IInv, TypeOK, CallSteps
<1>5. UNCHANGED <<index, gauge, bus, hpc, hevt, hpeer, now, remote, expected, lost>>
  BY DEF RegisterPeer, UnregisterPeer
<1>6. TypeOK'
  BY <1>3, <1>4, <1>5 DEF IInv, TypeOK
<1>7. EventsHeld'
  BY <1>4, <1>5 DEF IInv, EventsHeld, Working
<1>8. Leased'
  <2>1. \A q \in PeerIds : peers'[q] # None => peers'[q].lastHeartbeatAt <= alive'[q]
    <3> SUFFICES ASSUME NEW q \in PeerIds, peers'[q] # None
                 PROVE  peers'[q].lastHeartbeatAt <= alive'[q]
      OBVIOUS
    <3>1. CASE q = p
      BY <1>1, <1>3, <3>1 DEF Registering
    <3>2. CASE q # p
      <4>1. peers[q] \in PeerInfo /\ peers[q].lastHeartbeatAt <= alive[q]
        BY <1>3, <3>2 DEF IInv, TypeOK, Leased
      <4> QED BY <1>1, <1>3, <3>2, <4>1, InfoFields
    <3> QED BY <3>1, <3>2
  <2>2. Working' => hpeer'.lastHeartbeatAt <= alive'[hevt'.peer]
    <3> SUFFICES ASSUME Working PROVE hpeer.lastHeartbeatAt <= alive'[hevt.peer]
      BY <1>5 DEF Working
    <3>1. /\ hevt.peer \in PeerIds /\ hpeer.lastHeartbeatAt \in Nat
          /\ hpeer.lastHeartbeatAt <= alive[hevt.peer]
      BY EventFields, InfoFields DEF IInv, EventsHeld, Leased
    <3> QED BY <1>1, <1>3, <3>1
  <2> QED BY <2>1, <2>2 DEF Leased
<1>9. Converging'
  <2> SUFFICES ASSUME NEW q \in PeerIds, ~Commanded(q)'
               PROVE  /\ ~WorksOn(q)' => Agrees(q)'
                      /\ WorksOn(q)' =>
                           /\ expected'[q].registered /\ peers'[q] # None
                           /\ hpc' = "heartbeat" => hpeer'.resources = expected'[q].resources
                           /\ hpc' = "report" => hevt'.resources = expected'[q].resources
    BY DEF Converging
  <2>1. q # p
    BY <1>4 DEF Commanded
  <2>2. ~Commanded(q)
    BY <1>4, <1>5 DEF Commanded
  <2> QED BY <1>3, <1>5, <2>1, <2>2 DEF IInv, Converging, WorksOn, Working, Agrees
<1> QED BY <1>6, <1>7, <1>8, <1>9 DEF IInv

(* A step that leaves the store and the handler's record alone, and no     *)
(* command behind, disturbs neither the leases nor the convergence.        *)
LEMMA StoreUntouched ==
  ASSUME IInv, UNCHANGED <<peers, hevt, hpeer, expected>>,
         hpc' = hpc \/ ~(Working \/ Working'),
         alive' \in [PeerIds -> Nat],
         \A q \in PeerIds : alive[q] <= alive'[q],
         \A q \in PeerIds : Commanded(q) => Commanded(q)'
  PROVE  Leased' /\ Converging'
<1>1. alive \in [PeerIds -> Nat] /\ peers \in [PeerIds -> PeerInfo \cup {None}]
  BY DEF IInv, TypeOK
<1>2. ASSUME NEW q \in PeerIds, peers[q] # None
      PROVE  peers[q].lastHeartbeatAt <= alive'[q]
  <2>1. peers[q].lastHeartbeatAt \in Nat /\ peers[q].lastHeartbeatAt <= alive[q]
    BY <1>1, <1>2, InfoFields DEF IInv, Leased
  <2>2. alive[q] \in Nat /\ alive'[q] \in Nat /\ alive[q] <= alive'[q]
    BY <1>1
  <2> QED BY <2>1, <2>2
<1>3. ASSUME Working PROVE hpeer.lastHeartbeatAt <= alive'[hevt.peer]
  <2>1. /\ hevt.peer \in PeerIds /\ hpeer.lastHeartbeatAt \in Nat
        /\ hpeer.lastHeartbeatAt <= alive[hevt.peer]
    BY <1>3, EventFields, InfoFields DEF IInv, EventsHeld, Leased
  <2>2. /\ alive[hevt.peer] \in Nat /\ alive'[hevt.peer] \in Nat
        /\ alive[hevt.peer] <= alive'[hevt.peer]
    BY <1>1, <2>1
  <2> QED BY <2>1, <2>2
<1>4. Working' => Working
  BY DEF Working
<1>5. Leased'
  BY <1>2, <1>3, <1>4 DEF Leased
<1>6. Converging'
  <2> SUFFICES ASSUME NEW q \in PeerIds, ~Commanded(q)'
               PROVE  /\ ~WorksOn(q)' => Agrees(q)'
                      /\ WorksOn(q)' =>
                           /\ expected'[q].registered /\ peers'[q] # None
                           /\ hpc' = "heartbeat" => hpeer'.resources = expected'[q].resources
                           /\ hpc' = "report" => hevt'.resources = expected'[q].resources
    BY DEF Converging
  <2>1. ~Commanded(q)
    OBVIOUS
  <2> QED BY <2>1 DEF IInv, Converging, WorksOn, Working, Agrees
<1> QED BY <1>5, <1>6

(* HeartbeatPeer has no command to publish. *)
LEMMA HeartbeatPeerKeeps ==
  ASSUME IInv, NEW c \in Calls, NEW p \in PeerIds, HeartbeatPeer(c, p)
  PROVE  IInv'
<1> USE RegistryAssumption, NoneAssumption
<1> DEFINE e == [type |-> "heartbeat", peer |-> p, timestamp |-> now]
<1>1. e \in Event
  BY DEF IInv, TypeOK, Event, HeartbeatEvent
<1>2. /\ pc[c] = "idle" /\ pc' = [pc EXCEPT ![c] = "publish"]
      /\ cevt' = [cevt EXCEPT ![c] = e]
      /\ alive' = [alive EXCEPT ![p] = Later(@, now)]
      /\ UNCHANGED <<peers, index, gauge, bus, hpc, hevt, hpeer, now, remote,
                     expected, lost>>
  BY DEF HeartbeatPeer, SignOfLife
<1>3. \A a \in Nat : Later(a, now) \in Nat /\ a <= Later(a, now)
  BY DEF Later, IInv, TypeOK
<1>4. /\ alive' \in [PeerIds -> Nat]
      /\ \A q \in PeerIds : alive[q] <= alive'[q]
  BY <1>2, <1>3 DEF IInv, TypeOK
<1> HIDE DEF e
<1>5. TypeOK'
  BY <1>1, <1>2, <1>4 DEF IInv, TypeOK, CallSteps
<1>6. EventsHeld'
  BY <1>1, <1>2 DEF IInv, TypeOK, EventsHeld, Working
<1>7. \A q \in PeerIds : Commanded(q) => Commanded(q)'
  <2>1. \A d \in Calls : pc[d] = "publish" => pc'[d] = "publish" /\ cevt'[d] = cevt[d]
    BY <1>2 DEF IInv, TypeOK
  <2> QED BY <1>2, <2>1 DEF Commanded
<1> QED BY <1>2, <1>4, <1>5, <1>6, <1>7, StoreUntouched DEF IInv

(* Publish and its failure hand the command on, or mark it as lost. *)
LEMMA PublishKeeps ==
  ASSUME IInv, NEW c \in Calls, Publish(c) \/ PublishFails(c)
  PROVE  IInv'
<1> DEFINE e == cevt[c]
<1>1. pc[c] = "publish" /\ e \in Event /\ e.peer \in PeerIds
  BY EventFields DEF IInv, EventsHeld, Publish, PublishFails
<1>2. bus \in Seq(Event) /\ pc \in [Calls -> CallSteps]
  BY DEF IInv, TypeOK
<1>3. /\ \/ bus' = Append(bus, e) /\ lost' = lost
         \/ bus' = bus /\ lost' = lost \cup {e.peer}
      /\ \E to \in {"catalog", "done"} :
           pc' = [pc EXCEPT ![c] = to] /\ (to = "catalog" => e.type = "register")
      /\ UNCHANGED <<peers, index, gauge, hpc, hevt, hpeer, cevt, now, remote,
                     expected, alive>>
  BY DEF Publish, PublishFails
<1>4. /\ \A d \in Calls : d # c => pc'[d] = pc[d]
      /\ pc'[c] \in {"catalog", "done"} /\ (pc'[c] = "catalog" => e.type = "register")
      /\ pc' \in [Calls -> CallSteps]
  BY <1>2, <1>3 DEF CallSteps
<1>5. /\ bus' \in Seq(Event)
      /\ \A q : Has(bus, q) => Has(bus', q)
      /\ \A q : IsCommand(e, q) => Has(bus', q) \/ q \in lost'
      /\ lost \subseteq lost' /\ lost' \subseteq PeerIds
  <2>1. CASE bus' = Append(bus, e) /\ lost' = lost
    BY <1>1, <1>2, <2>1, HasAppend DEF IInv, TypeOK
  <2>2. CASE bus' = bus /\ lost' = lost \cup {e.peer}
    BY <1>1, <1>2, <2>2 DEF IInv, TypeOK, IsCommand
  <2> QED BY <1>3, <2>1, <2>2
<1>6. TypeOK'
  BY <1>3, <1>4, <1>5 DEF IInv, TypeOK
<1>7. EventsHeld'
  BY <1>1, <1>3, <1>4 DEF IInv, EventsHeld, Working
<1>8. ASSUME NEW q \in PeerIds, Commanded(q) PROVE Commanded(q)'
  <2>1. CASE \E d \in Calls : pc[d] = "publish" /\ IsCommand(cevt[d], q)
    <3>1. PICK d \in Calls : pc[d] = "publish" /\ IsCommand(cevt[d], q)
      BY <2>1
    <3>2. CASE d = c
      BY <1>5, <3>1, <3>2 DEF Commanded
    <3>3. CASE d # c
      <4>1. pc'[d] = "publish" /\ IsCommand(cevt'[d], q)
        BY <1>3, <1>4, <3>1, <3>3 DEF IsCommand
      <4> QED BY <4>1 DEF Commanded
    <3> QED BY <3>2, <3>3
  <2>2. CASE Has(bus, q) \/ q \in lost
    BY <1>5, <2>2 DEF Commanded
  <2> QED BY <1>8, <2>1, <2>2 DEF Commanded
<1>9. /\ alive' \in [PeerIds -> Nat]
      /\ \A q \in PeerIds : alive[q] <= alive'[q]
  BY <1>3 DEF IInv, TypeOK
<1> QED BY <1>3, <1>6, <1>7, <1>8, <1>9, StoreUntouched DEF IInv

(* The catalog is written after the command is on its way. *)
LEMMA OnPeerRegisteredKeeps ==
  ASSUME IInv, NEW c \in Calls, OnPeerRegistered(c)
  PROVE  IInv'
<1>1. /\ pc[c] = "catalog" /\ pc' = [pc EXCEPT ![c] = "done"]
      /\ UNCHANGED <<peers, gauge, bus, hpc, hevt, hpeer, cevt, now, remote,
                     expected, alive, lost>>
  BY DEF OnPeerRegistered
<1>2. cevt[c].peer \in PeerIds
  BY <1>1, EventFields DEF IInv, EventsHeld
<1>3. index' \in [Resources -> SUBSET PeerIds]
  BY <1>2 DEF IInv, TypeOK, OnPeerRegistered, addProvider
<1>4. TypeOK'
  BY <1>1, <1>3 DEF IInv, TypeOK, CallSteps
<1>5. EventsHeld'
  BY <1>1 DEF IInv, TypeOK, EventsHeld, Working
<1>6. \A q \in PeerIds : Commanded(q) => Commanded(q)'
  BY <1>1 DEF IInv, TypeOK, Commanded
<1>7. /\ alive' \in [PeerIds -> Nat]
      /\ \A q \in PeerIds : alive[q] <= alive'[q]
  BY <1>1 DEF IInv, TypeOK
<1> QED BY <1>1, <1>4, <1>5, <1>6, <1>7, StoreUntouched DEF IInv

-----------------------------------------------------------------------------
(* The callback goroutine and the environment. *)

(* A handled command leaves the peer as the command says. *)
LEMMA HandleCommandKeeps ==
  ASSUME IInv, HandleRegister \/ HandleUnregister
  PROVE  IInv'
<1> USE RegistryAssumption, NoneAssumption
<1>1. bus \in Seq(Event) /\ bus # <<>> /\ hpc = "idle" /\ now \in Nat
  BY DEF IInv, TypeOK, HandleRegister, HandleUnregister, NextEvent
<1>e. PICK e \in Event : e = Head(bus)
  BY <1>1, HasTail
<1> DEFINE p == e.peer
<1>2. /\ p \in PeerIds
      /\ e.type = "register" => e.resources \in SUBSET Resources
  BY <1>e, EventFields
<1>3. /\ bus' \in Seq(Event)
      /\ \A q : q # p /\ Has(bus, q) => Has(bus', q)
  <2>1. CASE bus' = bus
    BY <1>1, <2>1
  <2>2. CASE bus' = Tail(bus)
    BY <1>1, <1>e, <2>2, HasTail DEF IsCommand
  <2> QED BY <2>1, <2>2 DEF HandleRegister, HandleUnregister, TakeQos1
<1>4. UNCHANGED <<index, gauge, hevt, hpeer, pc, cevt, now, remote, lost>>
      /\ hpc' \in {"idle", "metrics"}
  BY <1>1 DEF HandleRegister, HandleUnregister
<1>5. /\ peers' \in [PeerIds -> PeerInfo \cup {None}]
      /\ alive' \in [PeerIds -> Nat]
      /\ expected' \in [PeerIds -> Outcome]
      /\ \A q \in PeerIds : alive[q] <= alive'[q]
      /\ \A q \in PeerIds : q # p => peers'[q] = peers[q] /\ expected'[q] = expected[q]
      /\ Agrees(p)'
      /\ peers'[p] # None => peers'[p].lastHeartbeatAt <= alive'[p]
  <2>1. CASE HandleRegister
    <3> DEFINE r == Registering(e.resources)
    <3>1. /\ peers' = [peers EXCEPT ![p] = r]
          /\ alive' = [alive EXCEPT ![p] = Later(@, now)]
          /\ expected' = [expected EXCEPT ![p] = RegisteredWith(e.resources)]
          /\ e.type = "register"
      BY <1>e, <2>1 DEF HandleRegister, NextEvent, Set, SignOfLife
    <3>2. /\ r \in PeerInfo /\ r # None /\ r.lastHeartbeatAt = now
          /\ r.resources = e.resources
      BY <1>1, <1>2, <3>1, InfoFields DEF Registering, PeerInfo, PeerStatus
    <3>3. /\ RegisteredWith(e.resources) \in Outcome
          /\ RegisteredWith(e.resources).registered
          /\ RegisteredWith(e.resources).resources = e.resources
      BY <1>2, <3>1 DEF RegisteredWith, Outcome
    <3>4. \A a \in Nat : Later(a, now) \in Nat /\ a <= Later(a, now) /\ now <= Later(a, now)
      BY <1>1 DEF Later
    <3> HIDE DEF r, p
    <3>5. /\ peers' \in [PeerIds -> PeerInfo \cup {None}] /\ peers'[p] = r
          /\ expected' \in [PeerIds -> Outcome]
          /\ expected'[p] = RegisteredWith(e.resources)
          /\ \A q \in PeerIds : q # p => peers'[q] = peers[q] /\ expected'[q] = expected[q]
      BY <1>2, <3>1, <3>2, <3>3 DEF IInv, TypeOK
    <3>6. /\ alive' \in [PeerIds -> Nat] /\ now <= alive'[p]
          /\ \A q \in PeerIds : alive[q] <= alive'[q]
      <4>1. alive[p] \in Nat /\ alive'[p] = Later(alive[p], now)
        BY <1>2, <3>1 DEF IInv, TypeOK
      <4>2. now <= alive'[p]
        BY <3>4, <4>1
      <4>3. ASSUME NEW q \in PeerIds
            PROVE  alive'[q] \in Nat /\ alive[q] <= alive'[q]
        <5>1. CASE q = p
          BY <3>4, <4>1, <5>1
        <5>2. CASE q # p
          <6>1. alive'[q] = alive[q] /\ alive[q] \in Nat
            BY <3>1, <5>2 DEF IInv, TypeOK
          <6> QED BY <6>1
        <5> QED BY <5>1, <5>2
      <4> QED BY <1>2, <3>1, <4>2, <4>3 DEF IInv, TypeOK
    <3>7. Agrees(p)'
      BY <3>2, <3>3, <3>5 DEF Agrees
    <3> QED BY <3>2, <3>5, <3>6, <3>7
  <2>2. CASE HandleUnregister
    <3>1. /\ peers' = [peers EXCEPT ![p] = None] /\ alive' = alive
          /\ expected' = [expected EXCEPT ![p] = Unregistered]
      BY <1>e, <2>2 DEF HandleUnregister, Delete
    <3>2. Unregistered \in Outcome /\ ~Unregistered.registered
      BY DEF Unregistered, Outcome
    <3> HIDE DEF p
    <3>3. /\ peers' \in [PeerIds -> PeerInfo \cup {None}] /\ peers'[p] = None
          /\ expected' \in [PeerIds -> Outcome] /\ expected'[p] = Unregistered
          /\ \A q \in PeerIds : q # p => peers'[q] = peers[q] /\ expected'[q] = expected[q]
      BY <1>2, <3>1, <3>2 DEF IInv, TypeOK
    <3>4. /\ alive' \in [PeerIds -> Nat]
          /\ \A q \in PeerIds : alive[q] <= alive'[q]
      BY <3>1 DEF IInv, TypeOK
    <3>5. Agrees(p)'
      BY <3>2, <3>3 DEF Agrees
    <3> QED BY <3>3, <3>4, <3>5
  <2> QED BY <2>1, <2>2
<1> HIDE DEF p
<1>6. TypeOK'
  BY <1>3, <1>4, <1>5 DEF IInv, TypeOK, HandlerSteps
<1>7. ~Working /\ ~Working'
  BY <1>1, <1>4 DEF Working
<1>8. EventsHeld'
  BY <1>4, <1>7 DEF IInv, EventsHeld
<1>9. Leased'
  <2> SUFFICES ASSUME NEW q \in PeerIds, peers'[q] # None, q # p
               PROVE  peers'[q].lastHeartbeatAt <= alive'[q]
    BY <1>5, <1>7 DEF Leased
  <2>1. /\ peers'[q] = peers[q] /\ peers[q].lastHeartbeatAt \in Nat
        /\ peers[q].lastHeartbeatAt <= alive[q]
    BY <1>5, InfoFields DEF IInv, TypeOK, Leased
  <2>2. alive[q] \in Nat /\ alive'[q] \in Nat /\ alive[q] <= alive'[q]
    BY <1>5 DEF IInv, TypeOK
  <2> QED BY <2>1, <2>2
<1>10. Converging'
  <2>1. ASSUME NEW q \in PeerIds, ~Commanded(q)' PROVE Agrees(q)'
    <3>1. CASE q = p
      BY <1>5, <3>1
    <3>2. CASE q # p
      <4>1. ~Commanded(q)
        BY <1>3, <1>4, <2>1, <3>2 DEF Commanded, IsCommand
      <4>2. Agrees(q)
        BY <1>7, <4>1 DEF IInv, Converging, WorksOn
      <4> QED BY <1>5, <3>2, <4>2 DEF Agrees
    <3> QED BY <3>1, <3>2
  <2> QED BY <1>7, <2>1 DEF Converging, WorksOn
<1> QED BY <1>6, <1>8, <1>9, <1>10 DEF IInv

(* The gauges count records. *)
LEMMA SyncPeerMetricsKeeps ==
  ASSUME IInv, SyncPeerMetrics
  PROVE  IInv'
<1>1. \A S : Cardinality(WithStatus(S)) \in Nat
  <2> TAKE S
  <2>1. WithStatus(S) \subseteq PeerIds
    BY DEF WithStatus
  <2> QED BY <2>1, RegistryAssumption, FS_Subset, FS_CardinalityType
<1>2. gauge' \in [active : Nat, stale : Nat]
  BY <1>1 DEF SyncPeerMetrics
<1>3. /\ hpc = "metrics" /\ hpc' = "idle"
      /\ UNCHANGED <<peers, index, bus, hevt, hpeer, pc, cevt, now, remote,
                     expected, alive, lost>>
  BY DEF SyncPeerMetrics
<1>4. TypeOK'
  BY <1>2, <1>3 DEF IInv, TypeOK, HandlerSteps
<1>5. EventsHeld'
  BY <1>3 DEF IInv, EventsHeld, Working
<1>6. \A q \in PeerIds : Commanded(q) => Commanded(q)'
  BY <1>3 DEF Commanded
<1>7. /\ alive' \in [PeerIds -> Nat]
      /\ \A q \in PeerIds : alive[q] <= alive'[q]
      /\ ~(Working \/ Working')
  BY <1>3 DEF IInv, TypeOK, Working
<1> QED BY <1>3, <1>4, <1>5, <1>6, <1>7, StoreUntouched DEF IInv

(* The environment adds events and takes those that are no commands. *)
LEMMA EnvironmentKeeps ==
  ASSUME IInv, (\E e \in RemoteEvents : RemoteEvent(e)) \/ LoseEvent \/ Tick
  PROVE  IInv'
<1>1. UNCHANGED <<peers, index, gauge, hpc, hevt, hpeer, pc, cevt, expected,
                  alive, lost>>
  BY DEF RemoteEvent, LoseEvent, Tick
<1>2. now' \in Nat /\ remote' \in 0 .. MaxRemote
  BY RegistryAssumption DEF IInv, TypeOK, RemoteEvent, LoseEvent, Tick
<1>3. bus' \in Seq(Event) /\ \A q : Has(bus, q) => Has(bus', q)
  <2>0. bus \in Seq(Event)
    BY DEF IInv, TypeOK
  <2>1. ASSUME NEW e \in RemoteEvents, RemoteEvent(e)
        PROVE  bus' \in Seq(Event) /\ \A q : Has(bus, q) => Has(bus', q)
    <3>1. e \in Event /\ bus' = Append(bus, e)
      BY <2>1, RemoteIsEvent DEF RemoteEvent
    <3> QED BY <2>0, <3>1, HasAppend
  <2>2. CASE LoseEvent
    <3>1. /\ bus # <<>> /\ bus' = Tail(bus)
          /\ \A q : ~IsCommand(Head(bus), q)
      BY <2>2 DEF LoseEvent, IsCommand
    <3> QED BY <2>0, <3>1, HasTail
  <2>3. CASE Tick
    BY <2>0, <2>3 DEF Tick
  <2> QED BY <2>1, <2>2, <2>3
<1>4. TypeOK'
  BY <1>1, <1>2, <1>3 DEF IInv, TypeOK
<1>5. EventsHeld'
  BY <1>1 DEF IInv, EventsHeld, Working
<1>6. \A q \in PeerIds : Commanded(q) => Commanded(q)'
  BY <1>1, <1>3 DEF Commanded
<1>7. /\ alive' \in [PeerIds -> Nat]
      /\ \A q \in PeerIds : alive[q] <= alive'[q]
  BY <1>1 DEF IInv, TypeOK
<1> QED BY <1>1, <1>4, <1>5, <1>6, <1>7, StoreUntouched DEF IInv

(* handleHeartbeat and handleResourceReport take their event and read the  *)
(* record.                                                                 *)
LEMMA GetPeerKeeps ==
  ASSUME IInv, NEW type \in {"heartbeat", "report"}, GetPeer(type)
  PROVE  IInv'
<1>1. /\ bus \in Seq(Event) /\ bus # <<>> /\ hpc = "idle" /\ bus' = Tail(bus)
      /\ Head(bus).type = type
      /\ UNCHANGED <<peers, index, gauge, pc, cevt, now, remote, alive, lost>>
  BY DEF IInv, TypeOK, GetPeer, NextEvent
<1>2. PICK e \in Event : e = Head(bus)
  BY <1>1, HasTail
<1> DEFINE p == e.peer
<1>3. /\ p \in PeerIds /\ e.type = type
      /\ type = "report" => e.resources \in SUBSET Resources
  BY <1>1, <1>2, EventFields
<1>4. bus' \in Seq(Event) /\ \A q : Has(bus, q) => Has(bus', q)
  BY <1>1, <1>2, <1>3, HasTail DEF IsCommand
<1>5. \A q \in PeerIds : Commanded(q) => Commanded(q)'
  BY <1>1, <1>4 DEF Commanded
<1>6. /\ expected' \in [PeerIds -> Outcome]
      /\ \A q \in PeerIds : q # p => expected'[q] = expected[q]
      /\ ~expected[p].registered \/ type = "heartbeat" => expected' = expected
      /\ expected[p].registered /\ type = "report" =>
           expected'[p].registered /\ expected'[p].resources = e.resources
  <2>1. expected' = Reported(e)
    BY <1>2 DEF GetPeer
  <2>2. type = "report" =>
          /\ RegisteredWith(e.resources) \in Outcome
          /\ RegisteredWith(e.resources).registered
          /\ RegisteredWith(e.resources).resources = e.resources
    BY <1>3 DEF RegisteredWith, Outcome
  <2>3. CASE type = "report" /\ expected[p].registered
    <3>1. expected' = [expected EXCEPT ![p] = RegisteredWith(e.resources)]
      BY <1>3, <2>1, <2>3 DEF Reported
    <3> QED BY <1>3, <2>2, <2>3, <3>1 DEF IInv, TypeOK
  <2>4. CASE ~(type = "report" /\ expected[p].registered)
    <3>1. expected' = expected
      BY <1>3, <2>1, <2>4 DEF Reported
    <3> QED BY <2>4, <3>1 DEF IInv, TypeOK
  <2> QED BY <2>3, <2>4
<1>7. ~Working /\ \A q \in PeerIds : ~Commanded(q) => Agrees(q)
  BY <1>1 DEF IInv, Converging, WorksOn, Working
<1>8. CASE peers[p] = None
  <2>1. UNCHANGED <<hpc, hevt, hpeer>>
    BY <1>2, <1>8 DEF GetPeer
  <2>2. TypeOK' /\ EventsHeld' /\ Leased'
    BY <1>1, <1>4, <1>6, <2>1 DEF IInv, TypeOK, EventsHeld, Leased, Working
  <2>3. ASSUME NEW q \in PeerIds, ~Commanded(q)' PROVE Agrees(q)'
    <3>1. Agrees(q)
      BY <1>5, <1>7, <2>3
    <3>2. expected'[q] = expected[q]
      BY <1>6, <1>8, <3>1 DEF Agrees
    <3> QED BY <1>1, <3>1, <3>2 DEF Agrees
  <2>4. ~Working'
    BY <1>1, <2>1 DEF Working
  <2> QED BY <2>2, <2>3, <2>4 DEF IInv, Converging, WorksOn
<1>9. CASE peers[p] # None
  <2>1. hpc' = type /\ hevt' = e /\ hpeer' = peers[p] /\ peers[p] \in PeerInfo
    BY <1>2, <1>3, <1>9 DEF GetPeer, IInv, TypeOK
  <2>2. TypeOK'
    BY <1>1, <1>4, <1>6, <2>1 DEF IInv, TypeOK, HandlerSteps
  <2>3. Working'
    BY <2>1 DEF Working
  <2>4. EventsHeld'
    BY <1>1, <1>3, <2>1, <2>3 DEF IInv, EventsHeld
  <2>5. Leased'
    BY <1>1, <1>3, <1>9, <2>1 DEF IInv, Leased
  <2>6. Converging'
    <3> SUFFICES ASSUME NEW q \in PeerIds, ~Commanded(q)'
                 PROVE  /\ ~WorksOn(q)' => Agrees(q)'
                        /\ WorksOn(q)' =>
                             /\ expected'[q].registered /\ peers'[q] # None
                             /\ hpc' = "heartbeat" => hpeer'.resources = expected'[q].resources
                             /\ hpc' = "report" => hevt'.resources = expected'[q].resources
      BY DEF Converging
    <3>1. Agrees(q)
      BY <1>5, <1>7
    <3>2. CASE q # p
      <4>1. ~WorksOn(q)' /\ expected'[q] = expected[q] /\ peers'[q] = peers[q]
        BY <1>1, <1>6, <2>1, <3>2 DEF WorksOn
      <4> QED BY <3>1, <4>1 DEF Agrees
    <3>3. CASE q = p
      <4>1. WorksOn(q)' /\ peers'[q] = peers[q] /\ peers[q] # None
        BY <1>1, <1>9, <2>1, <2>3, <3>3 DEF WorksOn
      <4>2. expected[q].registered /\ peers[q].resources = expected[q].resources
        BY <3>1, <4>1 DEF Agrees
      <4>3. CASE type = "heartbeat"
        BY <1>6, <2>1, <3>3, <4>1, <4>2, <4>3
      <4>4. CASE type = "report"
        BY <1>6, <2>1, <3>3, <4>1, <4>2, <4>4
      <4> QED BY <4>3, <4>4
    <3> QED BY <3>2, <3>3
  <2> QED BY <2>2, <2>4, <2>5, <2>6 DEF IInv
<1> QED BY <1>8, <1>9

(* The trailing Set writes back the record that was read, with what the    *)
(* event says.                                                             *)
LEMMA SetKeeps ==
  ASSUME IInv, HeartbeatSet \/ ReportSet
  PROVE  IInv'
<1> USE RegistryAssumption, NoneAssumption
<1>1. Working /\ hevt \in Event /\ hevt.type = hpc /\ hpeer \in PeerInfo
  BY DEF IInv, EventsHeld, Working, HeartbeatSet, ReportSet
<1>2. PICK e \in Event : e = hevt
  BY <1>1
<1> DEFINE p == e.peer
<1>3. p \in PeerIds /\ WorksOn(p) /\ \A q : q # p => ~WorksOn(q)
  BY <1>1, <1>2, EventFields DEF WorksOn
<1>4. /\ hpc' = "idle" /\ hevt' = None /\ hpeer' = None
      /\ UNCHANGED <<index, gauge, bus, pc, cevt, now, remote, expected, lost>>
  BY DEF HeartbeatSet, ReportSet, HandlerReturns
<1>5. \E r \in PeerInfo, t \in Nat :
        /\ peers' = [peers EXCEPT ![p] = r] /\ r.lastHeartbeatAt = t
        /\ alive' = [alive EXCEPT ![p] = Later(@, t)]
        /\ hpc = "heartbeat" => r.resources = hpeer.resources
        /\ hpc = "report" => r.resources = hevt.resources
  <2>1. CASE HeartbeatSet
    <3> DEFINE t == IF hevt.timestamp = None THEN now ELSE hevt.timestamp
               r == [hpeer EXCEPT !.lastHeartbeatAt = t, !.status = "active"]
    <3>1. hpc = "heartbeat" /\ t \in Nat
      BY <1>1, <2>1, EventFields DEF HeartbeatSet, IInv, TypeOK
    <3>2. r \in PeerInfo /\ r.lastHeartbeatAt = t /\ r.resources = hpeer.resources
      <4> HIDE DEF t
      <4> QED BY <1>1, <3>1 DEF PeerInfo, PeerStatus
    <3>3. peers' = [peers EXCEPT ![p] = r] /\ alive' = [alive EXCEPT ![p] = Later(@, t)]
      BY <1>2, <2>1 DEF HeartbeatSet, Set, SignOfLife
    <3> HIDE DEF r, t
    <3> QED BY <3>1, <3>2, <3>3
  <2>2. CASE ReportSet
    <3> DEFINE r == [hpeer EXCEPT !.resources = hevt.resources]
               t == hpeer.lastHeartbeatAt
    <3>1. hpc = "report" /\ hevt.resources \in SUBSET Resources /\ t \in Nat
      BY <1>1, <2>2, EventFields, InfoFields DEF ReportSet
    <3>2. r \in PeerInfo /\ r.lastHeartbeatAt = t /\ r.resources = hevt.resources
      BY <1>1, <3>1 DEF PeerInfo
    <3>3. peers' = [peers EXCEPT ![p] = r] /\ alive' = alive
      BY <1>2, <2>2 DEF ReportSet, Set
    <3>4. t <= alive[p] /\ alive \in [PeerIds -> Nat]
      BY <1>1, <1>2 DEF IInv, TypeOK, Leased
    <3>5. alive = [alive EXCEPT ![p] = Later(@, t)]
      <4>1. Later(alive[p], t) = alive[p]
        BY <1>3, <3>1, <3>4 DEF Later
      <4> QED BY <1>3, <3>4, <4>1
    <3> HIDE DEF r, t
    <3> QED BY <3>1, <3>2, <3>3, <3>5
  <2> QED BY <2>1, <2>2
<1>6. PICK r \in PeerInfo, t \in Nat :
        /\ peers' = [peers EXCEPT ![p] = r] /\ r.lastHeartbeatAt = t
        /\ alive' = [alive EXCEPT ![p] = Later(@, t)]
        /\ hpc = "heartbeat" => r.resources = hpeer.resources
        /\ hpc = "report" => r.resources = hevt.resources
  BY <1>5
<1> HIDE DEF p
<1>7. /\ peers' \in [PeerIds -> PeerInfo \cup {None}] /\ peers'[p] = r
      /\ \A q \in PeerIds : q # p => peers'[q] = peers[q] /\ alive'[q] = alive[q]
  BY <1>3, <1>6 DEF IInv, TypeOK
<1>8. alive' \in [PeerIds -> Nat] /\ t <= alive'[p]
  <2>1. alive[p] \in Nat /\ alive'[p] = Later(alive[p], t)
    BY <1>3, <1>6 DEF IInv, TypeOK
  <2>2. Later(alive[p], t) \in Nat /\ t <= Later(alive[p], t)
    BY <2>1 DEF Later
  <2> QED BY <1>6, <2>1, <2>2 DEF IInv, TypeOK
<1>9. TypeOK'
  BY <1>4, <1>7, <1>8 DEF IInv, TypeOK, HandlerSteps
<1>10. ~Working'
  BY <1>4 DEF Working
<1>11. EventsHeld'
  BY <1>4, <1>10 DEF IInv, EventsHeld
<1>12. Leased'
  BY <1>6, <1>7, <1>8, <1>10 DEF IInv, Leased
<1>13. Converging'
  <2>1. ASSUME NEW q \in PeerIds, ~Commanded(q)' PROVE Agrees(q)'
    <3>1. ~Commanded(q)
      BY <1>4, <2>1 DEF Commanded
    <3>2. CASE q # p
      <4>1. Agrees(q)
        BY <1>3, <3>1, <3>2 DEF IInv, Converging
      <4> QED BY <1>4, <1>7, <3>2, <4>1 DEF Agrees
    <3>3. CASE q = p
      <4>1. /\ expected[p].registered
            /\ hpc = "heartbeat" => hpeer.resources = expected[p].resources
            /\ hpc = "report" => hevt.resources = expected[p].resources
        BY <1>3, <3>1, <3>3 DEF IInv, Converging
      <4>2. r.resources = expected[p].resources /\ r # None
        BY <1>1, <1>6, <4>1, InfoFields DEF Working
      <4> QED BY <1>4, <1>7, <3>3, <4>1, <4>2 DEF Agrees
    <3> QED BY <3>2, <3>3
  <2> QED BY <1>10, <2>1 DEF Converging, WorksOn
<1> QED BY <1>9, <1>11, <1>12, <1>13 DEF IInv

(* SweepStale changes the status only. *)
LEMMA SweepStaleKeeps ==
  ASSUME IInv, SweepStale
  PROVE  IInv'
<1>1. /\ UNCHANGED <<index, gauge, bus, hpc, hevt, hpeer, pc, cevt, now, remote,
                     expected, alive, lost>>
      /\ peers' = [q \in PeerIds |->
           IF Expired(q) THEN [peers[q] EXCEPT !.status = "stale"] ELSE peers[q]]
  BY DEF SweepStale
<1>2. ASSUME NEW q \in PeerIds
      PROVE  /\ peers'[q] \in PeerInfo \cup {None}
             /\ peers'[q] = None <=> peers[q] = None
             /\ peers[q] # None => /\ peers'[q].resources = peers[q].resources
                                   /\ peers'[q].lastHeartbeatAt = peers[q].lastHeartbeatAt
  <2>1. CASE Expired(q)
    <3>1. peers[q] \in PeerInfo /\ peers[q] # None
      BY <2>1 DEF Expired, IInv, TypeOK
    <3>2. peers'[q] = [peers[q] EXCEPT !.status = "stale"]
      BY <1>1, <2>1
    <3>3. /\ peers'[q] \in PeerInfo
          /\ peers'[q].resources = peers[q].resources
          /\ peers'[q].lastHeartbeatAt = peers[q].lastHeartbeatAt
      BY <3>1, <3>2 DEF PeerInfo, PeerStatus
    <3> QED BY <3>1, <3>3, InfoFields
  <2>2. CASE ~Expired(q)
    BY <1>1, <2>2 DEF IInv, TypeOK
  <2> QED BY <2>1, <2>2
<1>3. peers' \in [PeerIds -> PeerInfo \cup {None}]
  BY <1>1, <1>2
<1>4. TypeOK'
  BY <1>1, <1>3 DEF IInv, TypeOK
<1>5. EventsHeld' /\ Leased'
  BY <1>1, <1>2 DEF IInv, EventsHeld, Leased, Working
<1>6. Converging'
  <2>1. \A q \in PeerIds : ~Commanded(q)' => ~Commanded(q)
    BY <1>1 DEF Commanded
  <2>2. \A q \in PeerIds : /\ WorksOn(q)' <=> WorksOn(q)
                           /\ Agrees(q) => Agrees(q)'
    BY <1>1, <1>2 DEF WorksOn, Working, Agrees
  <2> QED BY <1>1, <1>2, <2>1, <2>2 DEF IInv, Converging
<1> QED BY <1>4, <1>5, <1>6 DEF IInv

-----------------------------------------------------------------------------
LEMMA StepIInv == IInv /\ [Next]_vars => IInv'
<1> SUFFICES ASSUME IInv, [Next]_vars PROVE IInv'
  OBVIOUS
<1>1. ASSUME NEW c \in Calls, Request(c) PROVE IInv'
  <2>1. PICK p \in PeerIds :
          \/ \E resources \in SUBSET Resources : RegisterPeer(c, p, resources)
          \/ HeartbeatPeer(c, p)
          \/ UnregisterPeer(c, p)
    BY <1>1 DEF Request
  <2>2. CASE \E resources \in SUBSET Resources : RegisterPeer(c, p, resources)
    BY <2>2, CommandKeeps
  <2>3. CASE HeartbeatPeer(c, p)
    BY <2>3, HeartbeatPeerKeeps
  <2>4. CASE UnregisterPeer(c, p)
    <3>1. {} \in SUBSET Resources
      OBVIOUS
    <3> QED BY <2>4, <3>1, CommandKeeps
  <2> QED BY <2>1, <2>2, <2>3, <2>4
<1>2. ASSUME NEW c \in Calls, Publish(c) \/ PublishFails(c) PROVE IInv'
  BY <1>2, PublishKeeps
<1>3. ASSUME NEW c \in Calls, OnPeerRegistered(c) PROVE IInv'
  BY <1>3, OnPeerRegisteredKeeps
<1>4. CASE Handler
  BY <1>4, HandleCommandKeeps, SyncPeerMetricsKeeps, GetPeerKeeps, SetKeeps
  DEF Handler
<1>5. CASE (\E e \in RemoteEvents : RemoteEvent(e)) \/ LoseEvent \/ Tick
  BY <1>5, EnvironmentKeeps
<1>6. CASE SweepStale
  BY <1>6, SweepStaleKeeps
<1>7. CASE UNCHANGED vars
  BY <1>7 DEF vars, IInv, TypeOK, EventsHeld, Leased, Converging, Commanded,
              WorksOn, Working, Agrees
<1> QED BY <1>1, <1>2, <1>3, <1>4, <1>5, <1>6, <1>7 DEF Next

-----------------------------------------------------------------------------
(* The inductive invariant of the registry: who may still change a record. *)
THEOREM Invariance == Spec => []IInv
  BY InitIInv, StepIInv, PTL DEF Spec

(* Type correctness of store, catalog, queue and goroutines. *)
THEOREM TypeCorrect == Spec => []TypeOK
<1>1. IInv => TypeOK
  BY DEF IInv
<1> QED BY <1>1, Invariance, PTL

(* A peer nothing is under way about agrees with the delivered events. *)
LEMMA QuietAgrees ==
  ASSUME IInv, NEW p \in PeerIds, Quiescent(p)
  PROVE  Agrees(p)
<1>1. bus \in Seq(Event) /\ DOMAIN bus = 1 .. Len(bus)
  BY DEF IInv, TypeOK
<1>2. ~Has(bus, p)
  BY <1>1 DEF Has, IsCommand, Quiescent
<1>3. ~WorksOn(p)
  BY NoneAssumption DEF IInv, EventsHeld, Quiescent, About, WorksOn
<1>4. \A c \in Calls : pc[c] = "publish" => ~IsCommand(cevt[c], p)
  BY NoneAssumption DEF IInv, EventsHeld, Quiescent, About, IsCommand
<1> QED BY <1>2, <1>3, <1>4 DEF IInv, Converging, Commanded, Quiescent

(* Whatever way requests, heartbeats, reports and sweeps raced in the      *)
(* store, it agrees with the delivered events once nothing is under way.   *)
THEOREM StoreAgrees == Spec => []StoreConverges
<1>1. IInv => StoreConverges
  BY QuietAgrees DEF StoreConverges, Agrees
<1> QED BY <1>1, Invariance, PTL

(* A peer GetPeers returns is alive. *)
LEMMA ListedAlive ==
  ASSUME IInv, NEW p \in GetPeers
  PROVE  now - alive[p] <= LeaseTtl
<1>1. /\ p \in PeerIds /\ peers[p] # None /\ peers[p] \in PeerInfo
      /\ now - peers[p].lastHeartbeatAt <= LeaseTtl
  BY DEF GetPeers, IInv, TypeOK
<1>2. /\ peers[p].lastHeartbeatAt \in Nat /\ alive[p] \in Nat /\ now \in Nat
      /\ peers[p].lastHeartbeatAt <= alive[p]
  BY <1>1, InfoFields DEF IInv, TypeOK, Leased
<1> QED BY <1>1, <1>2, RegistryAssumption

(* GetPeers lists a peer only within the lease of its last sign of life.   *)
THEOREM ListedPeersAlive == Spec => []ListedIsAlive
<1>1. IInv => ListedIsAlive
  BY ListedAlive DEF ListedIsAlive
<1> QED BY <1>1, Invariance, PTL

(* The API and the protocol index name providers that the delivered events *)
(* know, although the catalog is never cleaned up.                         *)
THEOREM ProvidersAreCurrent == Spec => []ProvidersCurrent
<1>1. IInv => ProvidersCurrent
  <2> SUFFICES ASSUME IInv, NEW r \in Resources
      PROVE  /\ \A p \in handleResourceProviders(r) : Quiescent(p) =>
                  /\ expected[p].registered /\ r \in expected[p].resources
                  /\ now - alive[p] <= LeaseTtl
             /\ \A p \in lookupPeers(r) : Quiescent(p) => expected[p].registered
    BY DEF ProvidersCurrent
  <2>1. ASSUME NEW p \in handleResourceProviders(r), Quiescent(p)
        PROVE  /\ expected[p].registered /\ r \in expected[p].resources
               /\ now - alive[p] <= LeaseTtl
    <3>1. /\ p \in GetPeers /\ p \in PeerIds /\ peers[p] # None
          /\ r \in peers[p].resources
      BY DEF handleResourceProviders, GetPeers
    <3>2. Agrees(p)
      BY <2>1, <3>1, QuietAgrees
    <3> QED BY <3>1, <3>2, ListedAlive DEF Agrees
  <2>2. ASSUME NEW p \in lookupPeers(r), Quiescent(p) PROVE expected[p].registered
    <3>1. p \in PeerIds /\ peers[p] # None
      BY DEF lookupPeers, IInv, TypeOK
    <3>2. Agrees(p)
      BY <2>2, <3>1, QuietAgrees
    <3> QED BY <3>1, <3>2 DEF Agrees
  <2> QED BY <2>1, <2>2
<1> QED BY <1>1, Invariance, PTL
=============================================================================
