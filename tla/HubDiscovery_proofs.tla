------------------------ MODULE HubDiscovery_proofs ------------------------
(***************************************************************************)
(* Proofs about HubDiscovery, for every set of nodes, every interval, TTL, *)
(* delay and difference of clocks.                                         *)
(***************************************************************************)
EXTENDS HubDiscovery, TLAPS

(* What the reader knows of a node is no older than what the node sent     *)
(* last: neither the broadcast under way nor the entry of the map.         *)
NotOlder ==
  \A n \in Nodes :
    /\ flight[n] # None => quiet[n] # None /\ quiet[n] <= flight[n]
    /\ active[n] # None => quiet[n] # None /\ quiet[n] <= active[n]

(* The broadcasts the reader has not got since the one in its map. *)
Pending(n) == missed[n] + (IF flight[n] # None THEN 1 ELSE 0)

(* While the loop runs, a broadcast under way is as old as the ticker, and *)
(* the entry of the map is as old as the intervals since.                  *)
Paced ==
  \A n \in Hubs :
    loop[n] = "running" =>
      /\ flight[n] # None => flight[n] = timer[n]
      /\ active[n] # None /\ missed[n] < MaxMissed
           => active[n] <= Pending(n) * Interval + timer[n]

IInv == TypeOK /\ NotOlder /\ Paced

-----------------------------------------------------------------------------
(* Arithmetic. *)

(* One more interval. *)
LEMMA OneMore ==
  ASSUME NEW m \in Nat, NEW i \in Nat
  PROVE  /\ (m + 1) * i = m * i + i
         /\ m * i \in Nat
  BY SMT

(* The intervals that fit into a span of time. *)
LEMMA Fits ==
  ASSUME NEW a \in Int, NEW i \in Nat \ {0}, NEW m \in Nat,
         m <= (a \div i) - 1
  PROVE  (m + 1) * i <= a
<1> DEFINE q == a \div i
<1>1. q \in Int /\ i * q <= a
  BY SMT
<1>2. m + 1 <= q
  BY <1>1
<1>3. (m + 1) * i <= q * i
  <2> HIDE DEF q
  <2> QED BY <1>1, <1>2, SMT
<1> QED BY <1>1, <1>3

-----------------------------------------------------------------------------
LEMMA InitIInv == Init => IInv
<1> SUFFICES ASSUME Init PROVE IInv
  OBVIOUS
<1> USE HubAssumption
<1>1. TypeOK
  BY DEF Init, TypeOK, Age
<1>2. NotOlder
  <2> SUFFICES ASSUME NEW n \in Nodes
               PROVE  /\ flight[n] # None => quiet[n] # None /\ quiet[n] <= flight[n]
                      /\ active[n] # None => quiet[n] # None /\ quiet[n] <= active[n]
    BY DEF NotOlder
  <2>1. active[n] = None /\ flight[n] = quiet[n]
    BY DEF Init
  <2>2. CASE n \in Auths
    <3>1. flight[n] = 0
      BY <2>2 DEF Init
    <3> QED BY <2>1, <3>1
  <2>3. CASE n \notin Auths
    <3>1. flight[n] = None
      BY <2>3 DEF Init
    <3> QED BY <2>1, <3>1
  <2> QED BY <2>2, <2>3
<1>3. Paced
  BY DEF Init, Paced, Hubs, Auths
<1> QED BY <1>1, <1>2, <1>3 DEF IInv

LEMMA StepIInv == IInv /\ [Next]_vars => IInv'
<1> SUFFICES ASSUME IInv, [Next]_vars PROVE IInv'
  OBVIOUS
<1> USE HubAssumption
<1> USE DEF IInv, Age
<1>0. \A n \in Nodes : Pending(n) \in Nat
  BY DEF TypeOK, Pending
<1>1. ASSUME NEW n \in Hubs, NEW sent \in BOOLEAN, broadcast(n, sent)
      PROVE  IInv'
  <2>1. n \in Nodes /\ flight[n] = None
    BY <1>1 DEF broadcast, Fired, Paced, TypeOK, Hubs
  <2>2. TypeOK'
    BY <1>1, <2>1 DEF broadcast, Fired, TypeOK, Miss
  <2>3. NotOlder'
    BY <1>1, <2>1 DEF broadcast, TypeOK, NotOlder
  <2>4. Paced'
    <3> SUFFICES ASSUME NEW k \in Hubs, loop'[k] = "running"
                 PROVE  /\ flight'[k] # None => flight'[k] = timer'[k]
                        /\ active'[k] # None /\ missed'[k] < MaxMissed
                             => active'[k] <= Pending(k)' * Interval + timer'[k]
      BY DEF Paced
    <3>1. CASE k # n
      BY <1>1, <3>1 DEF broadcast, TypeOK, Paced, Pending, Hubs
    <3>2. CASE k = n
      <4>1. active[n] # None /\ missed[n] < MaxMissed
              => active[n] <= missed[n] * Interval + Interval
        BY <1>1, <2>1, <3>2 DEF broadcast, Fired, Paced, Pending, TypeOK
      <4>2. missed[n] \in Nat
        BY <2>1 DEF TypeOK
      <4>3. (missed[n] + 1) * Interval = missed[n] * Interval + Interval
        BY <4>2, OneMore
      <4>4. CASE sent
        <5>1. Pending(n)' = missed[n] + 1 /\ timer'[n] = 0 /\ flight'[n] = 0
          BY <1>1, <2>1, <4>4 DEF broadcast, Pending, TypeOK
        <5>2. active'[n] = active[n] /\ missed'[n] = missed[n]
          BY <1>1, <2>1, <4>4 DEF broadcast, TypeOK
        <5> QED BY <3>2, <4>1, <4>2, <4>3, <5>1, <5>2, <2>1 DEF TypeOK
      <4>5. CASE ~sent
        <5>1. Pending(n)' = missed'[n] /\ timer'[n] = 0 /\ flight'[n] = None
          BY <1>1, <2>1, <2>2, <4>5 DEF broadcast, Pending, TypeOK
        <5>2. active'[n] = active[n]
              /\ (missed'[n] < MaxMissed => missed'[n] = missed[n] + 1)
              /\ (missed'[n] < MaxMissed => missed[n] < MaxMissed)
          BY <1>1, <2>1, <4>5 DEF broadcast, Miss, TypeOK
        <5> QED BY <3>2, <4>1, <4>2, <4>3, <5>1, <5>2, <2>1 DEF TypeOK
      <4> QED BY <4>4, <4>5
    <3> QED BY <3>1, <3>2
  <2> QED BY <2>2, <2>3, <2>4
<1>2. ASSUME NEW n \in Hubs, Stop(n) PROVE IInv'
  BY <1>2 DEF Stop, TypeOK, NotOlder, Paced, Pending, Hubs
<1>3. ASSUME NEW n \in Hubs, Exit(n) PROVE IInv'
  BY <1>3 DEF Exit, TypeOK, NotOlder, Paced, Pending, Hubs
<1>4. ASSUME NEW n \in Nodes, Deliver(n) PROVE IInv'
  <2>1. TypeOK'
    BY <1>4 DEF Deliver, handleBroadcast, TypeOK
  <2>2. NotOlder'
    BY <1>4 DEF Deliver, handleBroadcast, TypeOK, NotOlder
  <2>3. Paced'
    <3> SUFFICES ASSUME NEW k \in Hubs, loop'[k] = "running"
                 PROVE  /\ flight'[k] # None => flight'[k] = timer'[k]
                        /\ active'[k] # None /\ missed'[k] < MaxMissed
                             => active'[k] <= Pending(k)' * Interval + timer'[k]
      BY DEF Paced
    <3>1. CASE k # n
      BY <1>4, <3>1 DEF Deliver, TypeOK, Paced, Pending, Hubs
    <3>2. CASE k = n
      <4>1. Pending(n)' = 0 /\ flight'[n] = None /\ active'[n] = timer'[n]
        BY <1>4, <3>2 DEF Deliver, handleBroadcast, Pending, Paced, TypeOK
      <4>2. timer'[n] \in Nat
        BY <2>1 DEF TypeOK
      <4> QED BY <3>2, <4>1, <4>2
    <3> QED BY <3>1, <3>2
  <2> QED BY <2>1, <2>2, <2>3
<1>5. ASSUME NEW n \in Nodes, Lose(n) PROVE IInv'
  <2>1. TypeOK'
    BY <1>5 DEF Lose, Miss, TypeOK
  <2>2. NotOlder'
    BY <1>5 DEF Lose, TypeOK, NotOlder
  <2>3. Paced'
    <3> SUFFICES ASSUME NEW k \in Hubs, loop'[k] = "running"
                 PROVE  /\ flight'[k] # None => flight'[k] = timer'[k]
                        /\ active'[k] # None /\ missed'[k] < MaxMissed
                             => active'[k] <= Pending(k)' * Interval + timer'[k]
      BY DEF Paced
    <3>1. CASE k # n
      BY <1>5, <3>1 DEF Lose, TypeOK, Paced, Pending, Hubs
    <3>2. CASE k = n
      <4>1. flight'[n] = None /\ active'[n] = active[n] /\ timer'[n] = timer[n]
        BY <1>5 DEF Lose, TypeOK
      <4>2. missed'[n] < MaxMissed =>
              missed[n] < MaxMissed /\ Pending(n)' = Pending(n)
        BY <1>5 DEF Lose, Miss, Pending, TypeOK
      <4> QED BY <1>5, <3>2, <4>1, <4>2 DEF Lose, Paced
    <3> QED BY <3>1, <3>2
  <2> QED BY <2>1, <2>2, <2>3
<1>6. ASSUME Tick PROVE IInv'
  <2>1. TypeOK'
    <3>1. timer' \in [Nodes -> 0 .. Interval]
      <4>1. \A n \in Nodes : loop[n] = "running" => timer[n] + 1 \in 0 .. Interval
        BY <1>6 DEF Tick, Fired, TypeOK
      <4> QED BY <1>6, <4>1 DEF Tick, TypeOK
    <3>2. \A a \in Age \cup {None} : Older(a) \in Age \cup {None}
      BY DEF Older
    <3>3. quiet' \in [Nodes -> Age \cup {None}] /\ active' \in [Nodes -> Age \cup {None}]
      BY <1>6, <3>2 DEF Tick, TypeOK
    <3>4. flight' \in [Nodes -> (0 .. MaxDelay) \cup {None}]
      <4>1. \A n \in Nodes : Older(flight[n]) \in (0 .. MaxDelay) \cup {None}
        BY <1>6 DEF Tick, Older, TypeOK
      <4> QED BY <1>6, <4>1 DEF Tick
    <3> QED BY <1>6, <3>1, <3>3, <3>4 DEF Tick, TypeOK
  <2>2. NotOlder'
    BY <1>6 DEF Tick, Older, TypeOK, NotOlder
  <2>3. Paced'
    <3> SUFFICES ASSUME NEW k \in Hubs, loop'[k] = "running"
                 PROVE  /\ flight'[k] # None => flight'[k] = timer'[k]
                        /\ active'[k] # None /\ missed'[k] < MaxMissed
                             => active'[k] <= Pending(k)' * Interval + timer'[k]
      BY DEF Paced
    <3>1. k \in Nodes /\ loop[k] = "running"
      BY <1>6 DEF Tick, Hubs
    <3>2. timer'[k] = timer[k] + 1 /\ missed' = missed
      BY <1>6, <3>1 DEF Tick, TypeOK
    <3>3. /\ flight[k] = None => flight'[k] = None
          /\ flight[k] # None => flight'[k] # None /\ flight'[k] = flight[k] + 1
      BY <1>6, <3>1 DEF Tick, Older, TypeOK
    <3>4. /\ active[k] = None => active'[k] = None
          /\ active[k] # None => active'[k] <= active[k] + 1
      BY <1>6, <3>1 DEF Tick, Older, TypeOK
    <3>5. Pending(k)' = Pending(k)
      BY <3>2, <3>3 DEF Pending
    <3>6. Pending(k) * Interval \in Nat
      BY <1>0, <3>1, OneMore
    <3> DEFINE span == Pending(k) * Interval
    <3>7. active[k] # None /\ missed[k] < MaxMissed => active[k] <= span + timer[k]
      BY <3>1 DEF Paced
    <3>8. active'[k] # None /\ missed'[k] < MaxMissed => active'[k] <= span + timer'[k]
      <4> HIDE DEF span
      <4> QED BY <2>1, <3>1, <3>2, <3>4, <3>6, <3>7 DEF TypeOK, span
    <3>9. flight'[k] # None => flight'[k] = timer'[k]
      BY <3>1, <3>2, <3>3 DEF Paced
    <3> QED BY <3>5, <3>8, <3>9
  <2> QED BY <2>1, <2>2, <2>3
<1>7. CASE UNCHANGED vars
  BY <1>7 DEF vars, TypeOK, NotOlder, Paced, Pending
<1> QED BY <1>1, <1>2, <1>3, <1>4, <1>5, <1>6, <1>7 DEF Next

(* The inductive invariant holds in every behaviour of the discovery. *)
THEOREM Invariance == Spec => []IInv
  BY InitIInv, StepIInv, PTL DEF Spec

(* Type correctness of the broadcast loops, the broker and the reader. *)
THEOREM TypeCorrect == Spec => []TypeOK
<1>1. IInv => TypeOK
  BY DEF IInv
<1> QED BY <1>1, Invariance, PTL

(* GetActiveHub, GetActiveAuth and ListActiveHubs never give a peer whose  *)
(* last broadcast is older than its TTL allows, whatever was delayed.      *)
THEOREM NoGhosts == Spec => []NoGhost
<1>1. IInv => NoGhost
  <2> SUFFICES ASSUME IInv, NEW n \in Nodes, Active(n)
               PROVE  quiet[n] # None /\ quiet[n] <= Ttl + Skew[n]
    BY DEF NoGhost
  <2>1. active[n] # None /\ active[n] <= Ttl + Skew[n] /\ Skew[n] \in Int
    BY HubAssumption DEF IInv, TypeOK, Active, Age
  <2> QED BY <2>1, HubAssumption DEF IInv, TypeOK, NotOlder, Age
<1> QED BY <1>1, Invariance, PTL

(* A hub that runs stays listed while no more broadcasts in a row are lost *)
(* than its TTL leaves room for, whatever the interval, the delay and the  *)
(* difference of the clocks.                                               *)
THEOREM KnownHubsListed == Spec => []KnownWhileHeard
<1>1. IInv => KnownWhileHeard
  <2> SUFFICES ASSUME IInv, NEW n \in Hubs, loop[n] = "running",
                      active[n] # None, missed[n] <= Tolerated(n)
               PROVE  n \in ListActiveHubs
    BY DEF KnownWhileHeard
  <2> USE HubAssumption
  <2>1. n \in Nodes /\ missed[n] \in Nat /\ missed[n] < MaxMissed
    BY DEF Hubs, IInv, TypeOK, Tolerated
  <2>2. active[n] <= Pending(n) * Interval + timer[n]
    BY <2>1 DEF IInv, Paced
  <2> DEFINE room == Ttl + Skew[n] - MaxDelay
  <2>3. room \in Int /\ missed[n] <= (room \div Interval) - 1
    BY <2>1 DEF Tolerated
  <2>4. (missed[n] + 1) * Interval <= room
    <3> HIDE DEF room
    <3> QED BY <2>1, <2>3, Fits
  <2>5. (missed[n] + 1) * Interval = missed[n] * Interval + Interval
        /\ missed[n] * Interval \in Nat
    BY <2>1, OneMore
  <2>6. active[n] <= (missed[n] + 1) * Interval + MaxDelay
    <3>1. CASE flight[n] # None
      <4>1. timer[n] \in 0 .. MaxDelay /\ Pending(n) = missed[n] + 1
        BY <2>1, <3>1 DEF IInv, Paced, TypeOK, Pending
      <4> QED BY <2>1, <2>2, <2>5, <4>1 DEF IInv, TypeOK, Age
    <3>2. CASE flight[n] = None
      <4>1. timer[n] \in 0 .. Interval /\ Pending(n) = missed[n]
        BY <2>1, <3>2 DEF IInv, TypeOK, Pending
      <4> QED BY <2>1, <2>2, <2>5, <4>1 DEF IInv, TypeOK, Age
    <3> QED BY <3>1, <3>2
  <2>7. active[n] - Skew[n] <= Ttl
    BY <2>1, <2>4, <2>5, <2>6 DEF IInv, TypeOK, Age
  <2> QED BY <2>7 DEF ListActiveHubs, Active
<1> QED BY <1>1, Invariance, PTL
=============================================================================
