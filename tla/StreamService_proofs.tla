------------------------ MODULE StreamService_proofs ------------------------
(***************************************************************************)
(* Proofs about StreamService, for every set of streams, every timeout and *)
(* every number of reconnects.                                             *)
(***************************************************************************)
EXTENDS StreamService, TLAPS

Opens(e, s) == e.kind = "open" /\ e.id = s
Closes(e, s) == e.kind = "close" /\ e.id = s

(* OpenStream makes a new id for every call. *)
OpenedOnce ==
  \A s \in Streams : \A i, j \in 1 .. Len(log) :
    Opens(log[i], s) /\ Opens(log[j], s) => i = j

IInv == TypeOK /\ OpenedOnce /\ CloseWins

(* What makes ClosedIn true. *)
LEMMA ClosedInSays ==
  ASSUME NEW n, NEW s
  PROVE  ClosedIn(n, s) <=>
           \E i, j \in 1 .. n : i < j /\ Opens(log[i], s) /\ Closes(log[j], s)
  BY DEF ClosedIn, Opens, Closes

-----------------------------------------------------------------------------
(* What an event is. *)
LEMMA EventFields ==
  ASSUME NEW e \in OpenEvent \cup CloseEvent
  PROVE  e.id \in Streams /\ e.timeout \in Nat /\ e.kind \in {"open", "close"}
<1>1. CASE e \in OpenEvent
  BY <1>1, StreamAssumption DEF OpenEvent
<1>2. CASE e \in CloseEvent
  BY <1>2 DEF CloseEvent
<1> QED BY <1>1, <1>2

(* Publishing keeps the events before. *)
LEMMA LogAppend ==
  ASSUME NEW e \in OpenEvent \cup CloseEvent, TypeOK, log' = Append(log, e)
  PROVE  /\ log' \in Seq(OpenEvent \cup CloseEvent) /\ Len(log) \in Nat
         /\ Len(log') = Len(log) + 1
         /\ \A i \in 1 .. Len(log) : log'[i] = log[i]
         /\ log'[Len(log) + 1] = e
  BY DEF TypeOK

(* NewStreamService. *)
LEMMA InitIInv == Init => IInv
<1> SUFFICES ASSUME Init PROVE IInv
  OBVIOUS
<1>1. Len(log) = 0 /\ pos = 0
  BY DEF Init
<1>2. TypeOK
  BY StreamAssumption, SessionAssumption DEF Init, TypeOK
<1>3. OpenedOnce /\ CloseWins
  BY <1>1 DEF Init, OpenedOnce, CloseWins
<1> QED BY <1>2, <1>3 DEF IInv

(* An event is published: an open of a new stream, or a close of any. *)
LEMMA PublishKeeps ==
  ASSUME IInv, NEW e \in OpenEvent \cup CloseEvent, log' = Append(log, e),
         UNCHANGED <<pos, acked, resends, sessions>>,
         e.kind = "open" => \A i \in 1 .. Len(log) : ~Opens(log[i], e.id)
  PROVE  IInv'
<1> DEFINE n == Len(log)
<1>1. /\ log' \in Seq(OpenEvent \cup CloseEvent) /\ n \in Nat
      /\ Len(log') = n + 1
      /\ \A i \in 1 .. n : log'[i] = log[i]
      /\ log'[n + 1] = e
  BY LogAppend DEF IInv
<1>2. TypeOK'
  BY <1>1 DEF IInv, TypeOK
<1>3. \A i \in 1 .. n + 1 : i \in 1 .. n \/ i = n + 1
  BY <1>1
<1>4. \A s \in Streams : Opens(e, s) => \A i \in 1 .. n : ~Opens(log[i], s)
  BY DEF Opens
<1>5. OpenedOnce'
  <2> SUFFICES ASSUME NEW s \in Streams, NEW i \in 1 .. n + 1, NEW j \in 1 .. n + 1,
                      Opens(log'[i], s), Opens(log'[j], s)
               PROVE  i = j
    BY <1>1 DEF OpenedOnce
  <2>1. CASE i \in 1 .. n /\ j \in 1 .. n
    BY <1>1, <2>1 DEF IInv, OpenedOnce
  <2>2. CASE i = n + 1 \/ j = n + 1
    BY <1>1, <1>3, <1>4, <2>2
  <2> QED BY <1>3, <2>1, <2>2
<1>6. CloseWins'
  <2> SUFFICES ASSUME NEW s \in Streams, sessions[s] # None, ClosedIn(pos, s)'
               PROVE  Closed(s)
    BY DEF CloseWins, Closed
  <2>1. \A i \in 1 .. pos : log'[i] = log[i]
    BY <1>1 DEF IInv, TypeOK
  <2>2. ClosedIn(pos, s)
    <3>1. PICK i, j \in 1 .. pos : i < j /\ Opens(log'[i], s) /\ Closes(log'[j], s)
      BY DEF ClosedIn, Opens, Closes
    <3> QED BY <2>1, <3>1, ClosedInSays
  <2> QED BY <2>2 DEF IInv, CloseWins
<1> QED BY <1>2, <1>5, <1>6 DEF IInv

(* The handlers: a session is never removed, and a close closes it. *)
LEMMA DeliverKeeps ==
  ASSUME IInv, Deliver
  PROVE  IInv'
<1> USE StreamAssumption
<1>1. /\ log \in Seq(OpenEvent \cup CloseEvent) /\ Len(log) \in Nat
      /\ pos \in Nat /\ pos + 1 \in 1 .. Len(log) /\ pos' = pos + 1
      /\ UNCHANGED <<log, acked, resends>>
  BY DEF IInv, TypeOK, Deliver
<1>2. PICK e \in OpenEvent \cup CloseEvent : e = log[pos + 1]
  BY <1>1
<1>3. e.id \in Streams /\ e.timeout \in Nat /\ e.kind \in {"open", "close"}
  BY EventFields
<1>4. handleStreamOpen(e) \in Session
  <2>1. (IF e.timeout <= 0 THEN Default ELSE e.timeout) \in Nat /\ 0 \in 0 .. MaxIdle
    BY <1>3
  <2> QED BY <2>1 DEF handleStreamOpen, Session
<1>5. /\ handleStreamClose(None) = None
      /\ \A x \in Session : /\ handleStreamClose(x) \in Session
                            /\ handleStreamClose(x).status = "closed"
  BY SessionAssumption DEF handleStreamClose, Session
<1>6. PICK new : /\ sessions' = [sessions EXCEPT ![e.id] = new]
                 /\ \/ new = handleStreamOpen(e) \/ new = sessions[e.id]
                    \/ new = handleStreamClose(sessions[e.id])
                 /\ e.kind = "close" => new = handleStreamClose(sessions[e.id])
  <2>1. sessions' = [sessions EXCEPT ![e.id] =
          CASE Matches(OpenSubscription, TopicOf(e)) -> handleStreamOpen(e)
            [] Matches(CloseSubscription, TopicOf(e)) -> handleStreamClose(sessions[e.id])
            [] OTHER -> sessions[e.id]]
    BY <1>2 DEF Deliver
  <2>2. e.kind = "close" => TopicOf(e) = StreamClose("*")
    BY DEF TopicOf
  <2>3. CASE Matches(OpenSubscription, TopicOf(e))
    <3>1. e.kind # "close" /\ TopicOf(e) = StreamOpen(Resource)
      BY <1>3, <2>2, <2>3, RoutingAssumption DEF TopicOf
    <3>2. ~Matches(CloseSubscription, TopicOf(e))
      BY <3>1, RoutingAssumption
    <3> QED BY <2>1, <2>3, <3>1, <3>2
  <2>4. CASE ~Matches(OpenSubscription, TopicOf(e)) /\ Matches(CloseSubscription, TopicOf(e))
    BY <2>1, <2>4
  <2>5. CASE ~Matches(OpenSubscription, TopicOf(e)) /\ ~Matches(CloseSubscription, TopicOf(e))
    BY <2>1, <2>2, <2>5, RoutingAssumption
  <2> QED BY <2>3, <2>4, <2>5
<1>7. /\ new \in Session \cup {None}
      /\ sessions[e.id] # None => new # None
      /\ e.kind = "close" /\ sessions[e.id] # None => new.status = "closed"
  <2>1. sessions[e.id] \in Session \cup {None}
    BY <1>3 DEF IInv, TypeOK
  <2> QED BY <1>4, <1>5, <1>6, <2>1, SessionAssumption
<1>8. /\ sessions' \in [Streams -> Session \cup {None}] /\ sessions'[e.id] = new
      /\ \A s \in Streams : s # e.id => sessions'[s] = sessions[s]
  BY <1>3, <1>6, <1>7 DEF IInv, TypeOK
<1>9. TypeOK'
  BY <1>1, <1>8 DEF IInv, TypeOK
<1>10. OpenedOnce'
  BY <1>1 DEF IInv, OpenedOnce
<1>11. CloseWins'
  <2> SUFFICES ASSUME NEW s \in Streams, sessions'[s] # None, ClosedIn(pos, s)'
               PROVE  Closed(s)'
    BY DEF CloseWins
  <2>1. PICK i, j \in 1 .. pos + 1 : i < j /\ Opens(log[i], s) /\ Closes(log[j], s)
    BY <1>1 DEF ClosedIn, Opens, Closes
  <2>2. CASE s = e.id /\ e.kind = "close"
    <3>1. sessions[s] # None
      BY <1>5, <1>6, <1>8, <2>2
    <3> QED BY <1>7, <1>8, <2>2, <3>1 DEF Closed
  <2>3. CASE s # e.id
    <3>1. i # pos + 1 /\ j # pos + 1
      BY <1>2, <2>1, <2>3 DEF Opens, Closes
    <3>2. i \in 1 .. pos /\ j \in 1 .. pos
      BY <1>1, <3>1
    <3>3. ClosedIn(pos, s)
      BY <2>1, <3>2, ClosedInSays
    <3>4. sessions'[s] = sessions[s]
      BY <1>8, <2>3
    <3> QED BY <3>3, <3>4 DEF IInv, CloseWins, Closed
  <2>4. CASE s = e.id /\ e.kind = "open"
    <3>1. Opens(log[pos + 1], s)
      BY <1>2, <2>4 DEF Opens
    <3>2. i = pos + 1
      BY <1>1, <2>1, <3>1 DEF IInv, OpenedOnce
    <3> QED BY <1>1, <2>1, <3>2
  <2> QED BY <1>3, <2>2, <2>3, <2>4
<1> QED BY <1>9, <1>10, <1>11 DEF IInv

(* A step that neither publishes nor delivers keeps the closed sessions. *)
LEMMA SessionsKept ==
  ASSUME IInv, UNCHANGED log,
         pos' \in 0 .. pos, acked' \in 0 .. pos \cup {acked},
         resends' \in 0 .. MaxResends,
         sessions' \in [Streams -> Session \cup {None}],
         \A s \in Streams : sessions'[s] = None <=> sessions[s] = None,
         \A s \in Streams : sessions[s] # None /\ sessions[s].status = "closed"
                              => sessions'[s].status = "closed"
  PROVE  IInv'
<1>1. TypeOK'
  BY DEF IInv, TypeOK
<1>2. OpenedOnce'
  BY DEF IInv, OpenedOnce
<1>3. ASSUME NEW s \in Streams, ClosedIn(pos, s)' PROVE ClosedIn(pos, s)
  <2>1. PICK i, j \in 1 .. pos' : i < j /\ Opens(log[i], s) /\ Closes(log[j], s)
    BY <1>3 DEF ClosedIn, Opens, Closes
  <2>2. i \in 1 .. pos /\ j \in 1 .. pos
    BY DEF IInv, TypeOK
  <2> QED BY <2>1, <2>2, ClosedInSays
<1>4. CloseWins'
  BY <1>3 DEF IInv, CloseWins, Closed
<1> QED BY <1>1, <1>2, <1>4 DEF IInv

LEMMA StepIInv == IInv /\ [Next]_vars => IInv'
<1> SUFFICES ASSUME IInv, [Next]_vars PROVE IInv'
  OBVIOUS
<1> USE StreamAssumption, SessionAssumption
<1>0. /\ pos \in Nat /\ pos \in 0 .. pos /\ acked \in Nat /\ acked \in 0 .. pos \cup {acked}
      /\ resends \in 0 .. MaxResends
      /\ sessions \in [Streams -> Session \cup {None}]
      /\ DOMAIN log = 1 .. Len(log)
  BY DEF IInv, TypeOK
<1>1. ASSUME NEW s \in Streams, NEW t \in Timeouts, OpenStream(s, t) PROVE IInv'
  <2> DEFINE e == [kind |-> "open", id |-> s, timeout |-> t]
  <2>1. e \in OpenEvent \cup CloseEvent /\ e.kind = "open" /\ e.id = s
    BY DEF OpenEvent
  <2>2. /\ log' = Append(log, e) /\ UNCHANGED <<pos, acked, resends, sessions>>
        /\ ~Published(e)
    BY <1>1 DEF OpenStream
  <2>3. \A i \in 1 .. Len(log) : ~Opens(log[i], e.id)
    BY <1>0, <2>1, <2>2 DEF Published, Opens
  <2> HIDE DEF e
  <2> QED BY <2>1, <2>2, <2>3, PublishKeeps
<1>2. ASSUME NEW s \in Streams, CloseStream(s) PROVE IInv'
  <2> DEFINE e == [kind |-> "close", id |-> s, timeout |-> 0]
  <2>1. e \in OpenEvent \cup CloseEvent /\ e.kind = "close" /\ e.id = s
    BY DEF CloseEvent
  <2>2. log' = Append(log, e) /\ UNCHANGED <<pos, acked, resends, sessions>>
    BY <1>2 DEF CloseStream
  <2> HIDE DEF e
  <2> QED BY <2>1, <2>2, PublishKeeps
<1>3. CASE Deliver
  BY <1>3, DeliverKeeps
<1>4. CASE Acknowledge
  <2>1. acked' \in 0 .. pos /\ UNCHANGED <<log, pos, resends, sessions>>
    BY <1>0, <1>4 DEF Acknowledge
  <2> QED BY <1>0, <2>1, SessionsKept
<1>5. CASE Reconnect
  <2>1. /\ pos' \in 0 .. pos /\ UNCHANGED <<log, acked, sessions>>
        /\ resends' \in 0 .. MaxResends
    BY <1>0, <1>5 DEF Reconnect
  <2> QED BY <1>0, <2>1, SessionsKept
<1>6. CASE SweepIdle
  <2>1. /\ UNCHANGED <<log, pos, acked, resends>>
        /\ sessions' = [s \in Streams |->
             IF sessions[s] # None /\ Expired(sessions[s])
             THEN [sessions[s] EXCEPT !.status = "timeout"] ELSE sessions[s]]
    BY <1>6 DEF SweepIdle
  <2>2. \A x \in Session : /\ [x EXCEPT !.status = "timeout"] \in Session
                           /\ x.status = "closed" => ~Expired(x)
    BY DEF Session, Expired
  <2>3. \A s \in Streams :
          /\ sessions'[s] \in Session \cup {None}
          /\ sessions'[s] = None <=> sessions[s] = None
          /\ sessions[s] # None /\ sessions[s].status = "closed"
               => sessions'[s].status = "closed"
    BY <1>0, <2>1, <2>2
  <2>4. sessions' \in [Streams -> Session \cup {None}]
    BY <2>1, <2>3
  <2> QED BY <1>0, <2>1, <2>3, <2>4, SessionsKept
<1>7. CASE Tick
  <2>1. /\ UNCHANGED <<log, pos, acked, resends>>
        /\ sessions' = [s \in Streams |->
             IF sessions[s] # None /\ sessions[s].idle < MaxIdle
             THEN [sessions[s] EXCEPT !.idle = @ + 1] ELSE sessions[s]]
    BY <1>7 DEF Tick
  <2>2. \A x \in Session : x.idle < MaxIdle =>
          /\ [x EXCEPT !.idle = @ + 1] \in Session
          /\ [x EXCEPT !.idle = @ + 1].status = x.status
    BY DEF Session
  <2>3. \A s \in Streams :
          /\ sessions'[s] \in Session \cup {None}
          /\ sessions'[s] = None <=> sessions[s] = None
          /\ sessions[s] # None /\ sessions[s].status = "closed"
               => sessions'[s].status = "closed"
    BY <1>0, <2>1, <2>2
  <2>4. sessions' \in [Streams -> Session \cup {None}]
    BY <2>1, <2>3
  <2> QED BY <1>0, <2>1, <2>3, <2>4, SessionsKept
<1>8. CASE UNCHANGED vars
  BY <1>0, <1>8, SessionsKept DEF vars
<1> QED BY <1>1, <1>2, <1>3, <1>4, <1>5, <1>6, <1>7, <1>8 DEF Next

-----------------------------------------------------------------------------
(* The inductive invariant of the stream service: types, no stream is      *)
(* opened twice, and CloseWins.                                            *)
THEOREM Invariance == Spec => []IInv
  BY InitIInv, StepIInv, PTL DEF Spec

(* handleStreamClose has the last word on a stream whose open and close    *)
(* are delivered, whatever the sweeper does and however often a reconnect  *)
(* delivers events again.                                                  *)
THEOREM CloseHasLastWord == Spec => []CloseWins
<1>1. IInv => CloseWins
  BY DEF IInv
<1> QED BY <1>1, Invariance, PTL
=============================================================================
