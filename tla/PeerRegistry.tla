---------------------------- MODULE PeerRegistry ----------------------------
(***************************************************************************)
(* The peer registry of dd-core: PeerRegistryService, its MemoryStore, the *)
(* ResourceCatalog and the HTTP handlers that drive them.                  *)
(*                                                                         *)
(* A peer is written to the store twice: by the HTTP goroutine that        *)
(* registers or removes it, and again by the callback goroutine of the     *)
(* broker client when the event that goroutine published loops back.       *)
(* Heartbeats and resource reports are read-modify-write: Get and Set are  *)
(* two critical sections of the store.                                     *)
(*                                                                         *)
(* The broker delivers the events of this hub in one order to one callback *)
(* goroutine.  Register and unregister travel with QoS 1 and may be        *)
(* delivered again; heartbeat and report travel with QoS 0 and may be lost *)
(* (qosForTopic, internal/mq/mqtt_client.go).                              *)
(***************************************************************************)
EXTENDS Integers, Sequences, FiniteSets

CONSTANTS
  PeerIds,       \* ids of peers
  Resources,     \* names of resources
  Calls,         \* one element per HTTP request, or main's self-registration
  None,          \* Go's nil / "no entry in the map" / the zero time
  LeaseTtl,      \* leaseTtl, in ticks
  Sweeping,      \* whether anything calls SweepStale; cmd/main.go does not
  MaxRemote,     \* bound: events that other nodes publish
  MaxTime        \* bound: ticks of the clock

ASSUME RegistryAssumption ==
  /\ LeaseTtl \in Nat /\ MaxRemote \in Nat /\ MaxTime \in Nat
  /\ Sweeping \in BOOLEAN
  /\ IsFiniteSet(PeerIds)

PeerStatus == {"registering", "active", "stale", "offline"}
PeerInfo == [status : PeerStatus, lastHeartbeatAt : Nat,
             resources : SUBSET Resources]

RegisterEvent == [type : {"register"}, peer : PeerIds,
                  resources : SUBSET Resources]
UnregisterEvent == [type : {"unregister"}, peer : PeerIds]
HeartbeatEvent == [type : {"heartbeat"}, peer : PeerIds,
                   timestamp : Nat \cup {None}]
ReportEvent == [type : {"report"}, peer : PeerIds,
                resources : SUBSET Resources]
(* What the events delivered so far make of a peer. *)
Outcome == [registered : BOOLEAN, resources : SUBSET Resources]

Event == RegisterEvent \cup UnregisterEvent \cup HeartbeatEvent
           \cup ReportEvent

ASSUME NoneAssumption ==
  None \notin PeerInfo /\ None \notin Event /\ None \notin Nat

VARIABLES
  peers,        \* MemoryStore: peer id -> record
  index,        \* ResourceCatalog: resource -> providers
  gauge,        \* the gauges dd_peer_active_count and dd_peer_stale_count
  bus,          \* events the broker has for this hub, in delivery order
  hpc,          \* callback goroutine: step
  hevt,         \* callback goroutine: event it works on
  hpeer,        \* callback goroutine: record it got from the store
  pc,           \* HTTP request: step
  cevt,         \* HTTP request: event it publishes
  now,          \* time.Now(), in coarse ticks
  remote,       \* number of events other nodes have published
  expected,     \* history: the delivered events applied in their order
  alive,        \* history: last time a peer registered or was alive
  lost          \* history: peers with a command the broker never got

vars == <<peers, index, gauge, bus, hpc, hevt, hpeer, pc, cevt, now, remote,
          expected, alive, lost>>
handlerVars == <<hpc, hevt, hpeer>>
callVars == <<pc, cevt>>
historyVars == <<expected, alive, lost>>

Unregistered == [registered |-> FALSE, resources |-> {}]
RegisteredWith(resources) == [registered |-> TRUE, resources |-> resources]

HandlerSteps == {"idle", "metrics", "heartbeat", "report"}
CallSteps == {"idle", "publish", "catalog", "done"}

TypeOK ==
  /\ peers \in [PeerIds -> PeerInfo \cup {None}]
  /\ index \in [Resources -> SUBSET PeerIds]
  /\ gauge \in [active : Nat, stale : Nat]
  /\ bus \in Seq(Event)
  /\ hpc \in HandlerSteps
  /\ hevt \in Event \cup {None}
  /\ hpeer \in PeerInfo \cup {None}
  /\ pc \in [Calls -> CallSteps]
  /\ cevt \in [Calls -> Event \cup {None}]
  /\ now \in Nat
  /\ remote \in 0 .. MaxRemote
  /\ expected \in [PeerIds -> Outcome]
  /\ alive \in [PeerIds -> Nat]
  /\ lost \subseteq PeerIds

Init ==
  /\ peers = [p \in PeerIds |-> None]
  /\ index = [r \in Resources |-> {}]
  /\ gauge = [active |-> 0, stale |-> 0]
  /\ bus = <<>>
  /\ hpc = "idle"
  /\ hevt = None
  /\ hpeer = None
  /\ pc = [c \in Calls |-> "idle"]
  /\ cevt = [c \in Calls |-> None]
  /\ now = 0
  /\ remote = 0
  /\ expected = [p \in PeerIds |-> Unregistered]
  /\ alive = [p \in PeerIds |-> 0]
  /\ lost = {}

-----------------------------------------------------------------------------
(* The store. *)

Set(p, record) == peers' = [peers EXCEPT ![p] = record]
Delete(p) == peers' = [peers EXCEPT ![p] = None]

Registering(resources) ==
  [status |-> "registering", lastHeartbeatAt |-> now,
   resources |-> resources]

Later(s, t) == IF s < t THEN t ELSE s

(* A peer shows that it is alive at time t. *)
SignOfLife(p, t) == alive' = [alive EXCEPT ![p] = Later(@, t)]

WithStatus(S) == {p \in PeerIds : peers[p] # None /\ peers[p].status \in S}

(* GetPeers: what a query for any resource returns. *)
GetPeers ==
  {p \in PeerIds :
     /\ peers[p] # None
     /\ peers[p].status \notin {"offline", "stale"}
     /\ now - peers[p].lastHeartbeatAt <= LeaseTtl}

(* A bug: the providers are what the catalog says. *)
handleResourceProvidersOfCatalog(r) == index[r]

(* The providers of a resource for the API: in the catalog, and in the     *)
(* answer of GetPeers for the resource.                                    *)
handleResourceProviders(r) ==
  {p \in index[r] : p \in GetPeers /\ r \in peers[p].resources}

(* The providers of a resource in ListHTTP and ListCoap of                 *)
(* ProtocolResourceIndex: in the catalog and in the store, whatever the    *)
(* status.                                                                 *)
lookupPeers(r) == {p \in index[r] : peers[p] # None}

-----------------------------------------------------------------------------
(* HTTP requests. *)

(* RegisterPeer up to its Publish: store first. *)
RegisterPeer(c, p, resources) ==
  /\ pc[c] = "idle"
  /\ Set(p, Registering(resources))
  /\ SignOfLife(p, now)
  /\ pc' = [pc EXCEPT ![c] = "publish"]
  /\ cevt' = [cevt EXCEPT ![c] =
       [type |-> "register", peer |-> p, resources |-> resources]]
  /\ UNCHANGED <<index, gauge, bus, hpc, hevt, hpeer, now, remote, expected,
                 lost>>

(* HeartbeatPeer up to its Publish: the timestamp is taken here. *)
HeartbeatPeer(c, p) ==
  /\ pc[c] = "idle"
  /\ pc' = [pc EXCEPT ![c] = "publish"]
  /\ cevt' = [cevt EXCEPT ![c] =
       [type |-> "heartbeat", peer |-> p, timestamp |-> now]]
  /\ SignOfLife(p, now)
  /\ UNCHANGED <<peers, index, gauge, bus, hpc, hevt, hpeer, now, remote,
                 expected, lost>>

(* UnregisterPeer up to its Publish. *)
UnregisterPeer(c, p) ==
  /\ pc[c] = "idle"
  /\ Delete(p)
  /\ pc' = [pc EXCEPT ![c] = "publish"]
  /\ cevt' = [cevt EXCEPT ![c] = [type |-> "unregister", peer |-> p]]
  /\ UNCHANGED <<index, gauge, bus, hpc, hevt, hpeer, now, remote, expected,
                 alive, lost>>

(* The broker takes the event; only a registration has more to do. *)
Publish(c) ==
  /\ pc[c] = "publish"
  /\ bus' = Append(bus, cevt[c])
  /\ pc' = [pc EXCEPT ![c] =
       IF cevt[c].type = "register" THEN "catalog" ELSE "done"]
  /\ UNCHANGED <<peers, index, gauge, hpc, hevt, hpeer, cevt, now, remote,
                 expected, alive, lost>>

(* Publish returns an error and the request ends; the broker may or may    *)
(* not have taken the event.                                               *)
PublishFails(c) ==
  /\ pc[c] = "publish"
  /\ pc' = [pc EXCEPT ![c] = "done"]
  /\ \/ bus' = Append(bus, cevt[c]) /\ UNCHANGED lost
     \/ bus' = bus /\ lost' = lost \cup {cevt[c].peer}
  /\ UNCHANGED <<peers, index, gauge, hpc, hevt, hpeer, cevt, now, remote,
                 expected, alive>>

(* A resource lists a provider once. *)
addProvider(r, p) == index[r] \cup {p}

(* handlePeerRegister after RegisterPeer. *)
OnPeerRegistered(c) ==
  /\ pc[c] = "catalog"
  /\ pc' = [pc EXCEPT ![c] = "done"]
  /\ index' = [r \in Resources |->
       IF r \in cevt[c].resources THEN addProvider(r, cevt[c].peer)
       ELSE index[r]]
  /\ UNCHANGED <<peers, gauge, bus, hpc, hevt, hpeer, cevt, now, remote,
                 expected, alive, lost>>

-----------------------------------------------------------------------------
(* The callback goroutine. *)

NextEvent(type) ==
  /\ hpc = "idle"
  /\ bus # <<>>
  /\ Head(bus).type = type

(* QoS 1: the broker may deliver the same event once more. *)
TakeQos1 == bus' = Tail(bus) \/ bus' = bus

HandleRegister ==
  /\ NextEvent("register")
  /\ TakeQos1
  /\ LET e == Head(bus)
     IN  /\ Set(e.peer, Registering(e.resources))
         /\ SignOfLife(e.peer, now)
         /\ expected' = [expected EXCEPT ![e.peer] =
                           RegisteredWith(e.resources)]
  /\ hpc' = "metrics"
  /\ UNCHANGED <<index, gauge, hevt, hpeer, callVars, now, remote, lost>>

(* The trailing syncPeerMetrics of handleRegister. *)
SyncPeerMetrics ==
  /\ hpc = "metrics"
  /\ hpc' = "idle"
  /\ gauge' = [active |-> Cardinality(WithStatus({"active", "registering"})),
               stale |-> Cardinality(WithStatus({"stale"}))]
  /\ UNCHANGED <<peers, index, bus, hevt, hpeer, callVars, now, remote,
                 historyVars>>

(* A bug: the removal is left to the node that was asked for it. *)
HandleUnregisterIgnored ==
  /\ NextEvent("unregister")
  /\ TakeQos1
  /\ expected' = [expected EXCEPT ![Head(bus).peer] = Unregistered]
  /\ UNCHANGED <<peers, index, gauge, handlerVars, callVars, now, remote,
                 alive, lost>>

HandleUnregister ==
  /\ NextEvent("unregister")
  /\ TakeQos1
  /\ Delete(Head(bus).peer)
  /\ expected' = [expected EXCEPT ![Head(bus).peer] = Unregistered]
  /\ UNCHANGED <<index, gauge, handlerVars, callVars, now, remote, alive,
                 lost>>

(* What a delivered report means for a peer that is registered. *)
Reported(e) ==
  IF e.type = "report" /\ expected[e.peer].registered
  THEN [expected EXCEPT ![e.peer] = RegisteredWith(e.resources)]
  ELSE expected

(* handleHeartbeat and handleResourceReport start with a Get. *)
GetPeer(type) ==
  /\ NextEvent(type)
  /\ bus' = Tail(bus)
  /\ expected' = Reported(Head(bus))
  /\ IF peers[Head(bus).peer] = None
     THEN UNCHANGED handlerVars
     ELSE /\ hpc' = type
          /\ hevt' = Head(bus)
          /\ hpeer' = peers[Head(bus).peer]
  /\ UNCHANGED <<peers, index, gauge, callVars, now, remote, alive, lost>>

HandlerReturns == hpc' = "idle" /\ hevt' = None /\ hpeer' = None

HeartbeatSet ==
  /\ hpc = "heartbeat"
  /\ LET t == IF hevt.timestamp = None THEN now ELSE hevt.timestamp
     IN  /\ Set(hevt.peer, [hpeer EXCEPT !.lastHeartbeatAt = t,
                                         !.status = "active"])
         /\ SignOfLife(hevt.peer, t)
  /\ HandlerReturns
  /\ UNCHANGED <<index, gauge, bus, callVars, now, remote, expected, lost>>

(* A bug: a report renews the lease. *)
ReportRenewsLease ==
  /\ hpc = "report"
  /\ Set(hevt.peer, [hpeer EXCEPT !.resources = hevt.resources,
                                  !.lastHeartbeatAt = now])
  /\ HandlerReturns
  /\ UNCHANGED <<index, gauge, bus, callVars, now, remote, historyVars>>

ReportSet ==
  /\ hpc = "report"
  /\ Set(hevt.peer, [hpeer EXCEPT !.resources = hevt.resources])
  /\ HandlerReturns
  /\ UNCHANGED <<index, gauge, bus, callVars, now, remote, historyVars>>

-----------------------------------------------------------------------------
(* The environment. *)

(* Another node publishes an event about one of its peers; its clock is    *)
(* never ahead of this hub's.                                              *)
RemoteEvent(e) ==
  /\ remote < MaxRemote
  /\ e.type = "heartbeat" => e.timestamp \in 0 .. now \cup {None}
  /\ remote' = remote + 1
  /\ bus' = Append(bus, e)
  /\ UNCHANGED <<peers, index, gauge, handlerVars, callVars, now,
                 historyVars>>

(* QoS 0: the broker may drop a heartbeat or a report. *)
LoseEvent ==
  /\ bus # <<>>
  /\ Head(bus).type \in {"heartbeat", "report"}
  /\ bus' = Tail(bus)
  /\ UNCHANGED <<peers, index, gauge, handlerVars, callVars, now, remote,
                 historyVars>>

Expired(p) == peers[p] # None /\ now - peers[p].lastHeartbeatAt > LeaseTtl

SweepStale ==
  /\ Sweeping
  /\ \E p \in PeerIds : Expired(p) /\ peers[p].status # "stale"
  /\ peers' = [p \in PeerIds |->
       IF Expired(p) THEN [peers[p] EXCEPT !.status = "stale"] ELSE peers[p]]
  /\ UNCHANGED <<index, gauge, bus, handlerVars, callVars, now, remote,
                 historyVars>>

Tick ==
  /\ now < MaxTime
  /\ now' = now + 1
  /\ UNCHANGED <<peers, index, gauge, bus, handlerVars, callVars, remote,
                 historyVars>>

-----------------------------------------------------------------------------

(* Events as another node can build them while the clock is bounded. *)
RemoteEvents ==
  [type : {"register", "report"}, peer : PeerIds,
   resources : SUBSET Resources]
    \cup UnregisterEvent
    \cup [type : {"heartbeat"}, peer : PeerIds,
          timestamp : 0 .. MaxTime \cup {None}]

Request(c) ==
  \E p \in PeerIds :
    \/ \E resources \in SUBSET Resources : RegisterPeer(c, p, resources)
    \/ HeartbeatPeer(c, p)
    \/ UnregisterPeer(c, p)

Handler ==
  \/ HandleRegister
  \/ SyncPeerMetrics
  \/ HandleUnregister
  \/ GetPeer("heartbeat")
  \/ GetPeer("report")
  \/ HeartbeatSet
  \/ ReportSet

Next ==
  \/ \E c \in Calls :
       Request(c) \/ Publish(c) \/ PublishFails(c) \/ OnPeerRegistered(c)
  \/ Handler
  \/ \E e \in RemoteEvents : RemoteEvent(e)
  \/ LoseEvent
  \/ SweepStale
  \/ Tick

Spec == Init /\ [][Next]_vars

-----------------------------------------------------------------------------
(* Properties. *)

About(e, p) == e # None /\ e.peer = p

(* Nothing about the peer is under way: no event is queued, the callback   *)
(* goroutine works on no event about it, no request is between its write   *)
(* to the store and its Publish, and every command reached the broker.     *)
Quiescent(p) ==
  /\ \A i \in DOMAIN bus : bus[i].peer # p
  /\ ~About(hevt, p)
  /\ \A c \in Calls : pc[c] = "publish" => ~About(cevt[c], p)
  /\ p \notin lost

(* The store converges: whatever way requests, heartbeats and reports      *)
(* raced, once nothing is under way a peer is in the store, with the       *)
(* resources it has there, exactly as the delivered events say when they   *)
(* are applied one after the other.  A request's own write and the         *)
(* read-modify-write of handleHeartbeat and handleResourceReport may       *)
(* overwrite each other; the looped-back event repairs it.                 *)
StoreConverges ==
  \A p \in PeerIds : Quiescent(p) =>
    IF expected[p].registered
    THEN peers[p] # None /\ peers[p].resources = expected[p].resources
    ELSE peers[p] = None

(* A query lists a peer only within LeaseTtl of its last registration or   *)
(* heartbeat: neither a resource report that races with SweepStale nor a   *)
(* late read-modify-write brings a silent peer back.                       *)
ListedIsAlive ==
  \A p \in GetPeers : now - alive[p] <= LeaseTtl

(* The API never names a provider on the word of the catalog alone, which  *)
(* keeps the peers that were removed or no longer have the resource: once  *)
(* nothing is under way, a provider it names is registered and alive and   *)
(* has the resource, and one the protocol index names is registered.       *)
ProvidersCurrent ==
  \A r \in Resources :
    /\ \A p \in handleResourceProviders(r) : Quiescent(p) =>
         /\ expected[p].registered /\ r \in expected[p].resources
         /\ now - alive[p] <= LeaseTtl
    /\ \A p \in lookupPeers(r) : Quiescent(p) => expected[p].registered

=============================================================================
