---------------------------- MODULE HubDiscovery ----------------------------
(***************************************************************************)
(* Discovery of hubs and auth peers (internal/service/hub_discovery.go):   *)
(* hubs publish a broadcast on a ticker, an auth peer publishes one when   *)
(* it starts, and every node keeps the last broadcast of each and takes it *)
(* for active until the TTL in it is over.  The view of one node is        *)
(* modelled.                                                               *)
(*                                                                         *)
(* Broadcasts have QoS 0: the broker may lose them, but those of one       *)
(* sender stay in order.  Times are ages, which grow with the clock; the   *)
(* sender's clock may differ from the reader's by Skew.                    *)
(***************************************************************************)
EXTENDS Integers

CONSTANTS
  Nodes,      \* the peers that broadcast
  Role,       \* cfg.Peer.Role of each
  Skew,       \* clock of the node minus clock of the reader, in ticks
  Interval,   \* s.interval, in ticks
  Ttl,        \* s.ttlSec, in ticks
  MaxDelay,   \* the longest a broadcast is under way, in ticks
  MaxMissed,  \* bound: consecutive losses are counted up to here
  MaxAge,     \* bound: ages are told apart up to here
  None

(* The consecutive losses the TTL leaves room for. *)
Tolerated(n) == (Ttl + Skew[n] - MaxDelay) \div Interval - 1

ASSUME HubAssumption ==
  /\ Role \in [Nodes -> {"hub", "edge_hub", "auth"}]
  /\ Skew \in [Nodes -> Int]
  /\ Interval \in Nat \ {0} /\ Ttl \in Nat /\ MaxMissed \in Nat
  /\ MaxDelay \in 0 .. Interval - 1
  /\ MaxAge \in Nat /\ MaxDelay <= MaxAge
  /\ \A n \in Nodes : Ttl + Skew[n] < MaxAge /\ Tolerated(n) < MaxMissed
  /\ None \notin Int

Hubs == {n \in Nodes : Role[n] \in {"hub", "edge_hub"}}
Auths == {n \in Nodes : Role[n] = "auth"}

Age == 0 .. MaxAge

VARIABLES
  loop,      \* node -> "running" (in its select), "exited", or "none"
  stopped,   \* node -> stopCh is closed
  timer,     \* node -> ticks since the ticker fired
  quiet,     \* node -> age of the last broadcast it published, or None
  flight,    \* node -> age of its broadcast under way, or None
  active,    \* activeHubs and activeAuth of the reader: age of the entry, or None
  missed     \* node -> broadcasts lost since the reader heard one

vars == <<loop, stopped, timer, quiet, flight, active, missed>>

TypeOK ==
  /\ loop \in [Nodes -> {"running", "exited", "none"}]
  /\ stopped \in [Nodes -> BOOLEAN]
  /\ timer \in [Nodes -> 0 .. Interval]
  /\ quiet \in [Nodes -> Age \cup {None}]
  /\ flight \in [Nodes -> (0 .. MaxDelay) \cup {None}]
  /\ active \in [Nodes -> Age \cup {None}]
  /\ missed \in [Nodes -> 0 .. MaxMissed]

(* Start: the loop runs for hubs; main calls BroadcastAuth for an auth     *)
(* peer, once, after Start.                                                *)
Init ==
  /\ loop = [n \in Nodes |-> IF n \in Hubs THEN "running" ELSE "none"]
  /\ stopped = [n \in Nodes |-> FALSE]
  /\ timer = [n \in Nodes |-> 0]
  /\ quiet = [n \in Nodes |-> IF n \in Auths THEN 0 ELSE None]
  /\ flight = [n \in Nodes |-> IF n \in Auths THEN 0 ELSE None]
  /\ active = [n \in Nodes |-> None]
  /\ missed = [n \in Nodes |-> 0]

-----------------------------------------------------------------------------
Miss(n) == IF missed[n] < MaxMissed THEN missed[n] + 1 ELSE MaxMissed

(* The ticker of a loop that is in its select. *)
Fired(n) == loop[n] = "running" /\ timer[n] = Interval

(* The select takes the ticker case.  With stopCh closed both cases are    *)
(* ready and either may be taken.  Publish fails on a broken connection.   *)
broadcast(n, sent) ==
  /\ Fired(n)
  /\ timer' = [timer EXCEPT ![n] = 0]
  /\ flight' = [flight EXCEPT ![n] = IF sent THEN 0 ELSE @]
  /\ quiet' = [quiet EXCEPT ![n] = IF sent THEN 0 ELSE @]
  /\ missed' = [missed EXCEPT ![n] = IF sent THEN @ ELSE Miss(n)]
  /\ UNCHANGED <<loop, stopped, active>>

(* Stop; main never calls it, and a hub that crashes is silent the same way. *)
Stop(n) ==
  /\ ~stopped[n]
  /\ stopped' = [stopped EXCEPT ![n] = TRUE]
  /\ UNCHANGED <<loop, timer, quiet, flight, active, missed>>

(* The select takes the stopCh case. *)
Exit(n) ==
  /\ loop[n] = "running" /\ stopped[n]
  /\ loop' = [loop EXCEPT ![n] = "exited"]
  /\ UNCHANGED <<stopped, timer, quiet, flight, active, missed>>

(* A bug: the entry is as old as its arrival. *)
handleBroadcastOnArrival(n) == 0

(* What the handlers store of a broadcast: its Timestamp decides its age.  *)
handleBroadcast(n) == flight[n]

Deliver(n) ==
  /\ flight[n] # None
  /\ active' = [active EXCEPT ![n] = handleBroadcast(n)]
  /\ flight' = [flight EXCEPT ![n] = None]
  /\ missed' = [missed EXCEPT ![n] = 0]
  /\ UNCHANGED <<loop, stopped, timer, quiet>>

Lose(n) ==
  /\ flight[n] # None
  /\ flight' = [flight EXCEPT ![n] = None]
  /\ missed' = [missed EXCEPT ![n] = Miss(n)]
  /\ UNCHANGED <<loop, stopped, timer, quiet, active>>

Older(age) == IF age # None /\ age < MaxAge THEN age + 1 ELSE age

(* The clock; it waits for a ticker that has fired and for a broadcast     *)
(* that is due.                                                            *)
Tick ==
  /\ \A n \in Nodes : ~Fired(n) /\ flight[n] # MaxDelay
  /\ timer' = [n \in Nodes |->
                 IF loop[n] = "running" THEN timer[n] + 1 ELSE timer[n]]
  /\ quiet' = [n \in Nodes |-> Older(quiet[n])]
  /\ flight' = [n \in Nodes |-> Older(flight[n])]
  /\ active' = [n \in Nodes |-> Older(active[n])]
  /\ UNCHANGED <<loop, stopped, missed>>

Next ==
  \/ \E n \in Hubs : \E sent \in BOOLEAN : broadcast(n, sent)
  \/ \E n \in Hubs : Stop(n)
  \/ \E n \in Hubs : Exit(n)
  \/ \E n \in Nodes : Deliver(n)
  \/ \E n \in Nodes : Lose(n)
  \/ Tick

Spec == Init /\ [][Next]_vars

(* The clock goes on, and a goroutine whose select is ready runs. *)
FairSpec ==
  /\ Spec
  /\ WF_vars(Tick)
  /\ \A n \in Hubs : WF_vars(\E sent \in BOOLEAN : broadcast(n, sent)) /\ WF_vars(Exit(n))
  /\ \A n \in Nodes : WF_vars(Deliver(n) \/ Lose(n))

-----------------------------------------------------------------------------
(* A bug: an entry expires with its TTL and not after it. *)
ActiveBefore(n) == active[n] # None /\ active[n] - Skew[n] < Ttl

(* A bug: the entry is kept for good. *)
ActiveForEver(n) == active[n] # None

(* GetActiveHub, GetActiveAuth and ListActiveHubs: the age, by the         *)
(* reader's clock and the sender's timestamp, is within the TTL.           *)
Active(n) == active[n] # None /\ active[n] - Skew[n] <= Ttl

ListActiveHubs == {n \in Hubs : Active(n)}

(* A hub that runs and was heard of stays listed as long as no more than   *)
(* the tolerated number of broadcasts in a row is lost.                    *)
KnownWhileHeard ==
  \A n \in Hubs :
    loop[n] = "running" /\ active[n] # None /\ missed[n] <= Tolerated(n)
      => n \in ListActiveHubs

(* No peer is active on the strength of a broadcast that is older than its *)
(* TTL and the difference of the clocks: delays do not add up.             *)
NoGhost ==
  \A n \in Nodes : Active(n) => quiet[n] # None /\ quiet[n] <= Ttl + Skew[n]

(* A hub that has stopped or crashed leaves the list of active hubs for    *)
(* good, although its loop may broadcast once more, broadcasts are late    *)
(* and nothing removes it from the map.                                    *)
SilentForgotten ==
  \A n \in Hubs : stopped[n] ~> [](n \notin ListActiveHubs)

(* The claim of the auth design: an auth peer broadcasts again and again,  *)
(* as hubs do.  BroadcastAuth is called once by main.                      *)
AuthBroadcasts == \A n \in Auths : []<>(flight[n] # None)

=============================================================================
