--------------------------- MODULE StreamService ---------------------------
(***************************************************************************)
(* Stream sessions of dd-core (internal/service/stream_service.go).  The   *)
(* API only publishes open and close events; the sessions are written by   *)
(* the handlers of those events, and swept by a ticker of main.            *)
(*                                                                         *)
(* The events of this node are a log: the client hands them to the broker  *)
(* in order and, when it reconnects, again from the first one that was not *)
(* acknowledged.  Times are idle times, which grow with the clock.         *)
(***************************************************************************)
EXTENDS Topics

CONSTANTS
  Streams,        \* one id per OpenStream call
  Resource,       \* the resource the streams are of
  Timeouts,       \* idle_timeout_ms of requests, in ticks; may be 0
  Default,        \* the timeout of a request without one (15000), in ticks
  SweepTimeout,   \* the argument of SweepIdle in main (15 s), in ticks
  MaxIdle,        \* bound: idle times are told apart up to here
  MaxResends,     \* bound: reconnects that send events again
  MaxLog,         \* bound: events
  Matches(_, _),  \* how the client matches subscriptions with topics
  None

ASSUME StreamAssumption ==
  /\ Timeouts \subseteq Nat /\ Default \in Nat \ {0} /\ SweepTimeout \in Nat
  /\ MaxIdle \in Nat /\ MaxResends \in Nat /\ MaxLog \in Nat
  /\ \A t \in Timeouts \cup {Default} : t < MaxIdle

OpenEvent == [kind : {"open"}, id : Streams, timeout : Timeouts]
CloseEvent == [kind : {"close"}, id : Streams, timeout : {0}]
Session == [status : {"active", "closed", "timeout"}, timeout : Nat,
            idle : 0 .. MaxIdle]

(* No session is None. *)
ASSUME SessionAssumption == None \notin Session

VARIABLES
  log,       \* events in the order they were published
  pos,       \* how many of them have been delivered
  acked,     \* how many the broker has acknowledged to the client
  resends,   \* reconnects so far
  sessions   \* s.sessions: stream id -> session or None

vars == <<log, pos, acked, resends, sessions>>

TypeOK ==
  /\ log \in Seq(OpenEvent \cup CloseEvent)
  /\ pos \in 0 .. Len(log) /\ acked \in 0 .. Len(log)
  /\ resends \in 0 .. MaxResends
  /\ sessions \in [Streams -> Session \cup {None}]

Init ==
  /\ log = <<>>
  /\ pos = 0
  /\ acked = 0
  /\ resends = 0
  /\ sessions = [s \in Streams |-> None]

-----------------------------------------------------------------------------
(* The API. *)

Published(e) == \E i \in DOMAIN log : log[i].kind = e.kind /\ log[i].id = e.id

(* OpenStream makes a new id for every call. *)
OpenStream(s, timeout) ==
  LET e == [kind |-> "open", id |-> s, timeout |-> timeout] IN
  /\ Len(log) < MaxLog
  /\ ~Published(e)
  /\ log' = Append(log, e)
  /\ UNCHANGED <<pos, acked, resends, sessions>>

(* CloseStream publishes for whatever id the caller gives, be it that of a *)
(* session, of a stream whose open is still under way, or of none.         *)
CloseStream(s) ==
  /\ Len(log) < MaxLog
  /\ log' = Append(log, [kind |-> "close", id |-> s, timeout |-> 0])
  /\ UNCHANGED <<pos, acked, resends, sessions>>

-----------------------------------------------------------------------------
(* Handlers and sweeper. *)

OpenSubscription == StreamOpen("*")
CloseSubscription == StreamClose("*")
TopicOf(e) ==
  IF e.kind = "open" THEN StreamOpen(Resource) ELSE StreamClose("*")

(* Whatever the matcher, a close event reaches the close handler, and no   *)
(* event the handler of the other kind.                                    *)
ASSUME RoutingAssumption ==
  /\ Matches(CloseSubscription, StreamClose("*"))
  /\ ~Matches(OpenSubscription, StreamClose("*"))
  /\ ~Matches(CloseSubscription, StreamOpen(Resource))

(* The session an open event leaves, whatever was there. *)
handleStreamOpen(e) ==
  [status |-> "active", timeout |-> IF e.timeout <= 0 THEN Default ELSE e.timeout,
   idle |-> 0]

(* A bug: only an active session can be closed. *)
handleStreamCloseActive(session) ==
  IF session # None /\ session.status = "active"
  THEN [session EXCEPT !.status = "closed"] ELSE session

(* The session a close event leaves. *)
handleStreamClose(session) ==
  IF session # None THEN [session EXCEPT !.status = "closed"] ELSE session

(* The next event reaches the handler that is subscribed to its topic, if  *)
(* any.                                                                    *)
Deliver ==
  /\ pos < Len(log)
  /\ pos' = pos + 1
  /\ LET e == log[pos + 1] IN
       sessions' = [sessions EXCEPT ![e.id] =
         CASE Matches(OpenSubscription, TopicOf(e)) -> handleStreamOpen(e)
           [] Matches(CloseSubscription, TopicOf(e)) -> handleStreamClose(@)
           [] OTHER -> @]
  /\ UNCHANGED <<log, acked, resends>>

Acknowledge ==
  /\ acked < pos
  /\ acked' = acked + 1
  /\ UNCHANGED <<log, pos, resends, sessions>>

(* The client reconnects and sends again what was not acknowledged. *)
Reconnect ==
  /\ resends < MaxResends
  /\ acked < pos
  /\ pos' = acked
  /\ resends' = resends + 1
  /\ UNCHANGED <<log, acked, sessions>>

(* A bug: the sweeper leaves sessions with a timeout of their own alone. *)
ExpiredDefaultOnly(s) ==
  s.status = "active" /\ s.timeout <= 0 /\ s.idle > SweepTimeout

Expired(s) ==
  LET timeout == IF s.timeout <= 0 THEN SweepTimeout ELSE s.timeout
  IN s.status = "active" /\ s.idle > timeout

(* SweepIdle, called by the ticker. *)
SweepIdle ==
  /\ \E s \in Streams : sessions[s] # None /\ Expired(sessions[s])
  /\ sessions' = [s \in Streams |->
       IF sessions[s] # None /\ Expired(sessions[s])
       THEN [sessions[s] EXCEPT !.status = "timeout"]
       ELSE sessions[s]]
  /\ UNCHANGED <<log, pos, acked, resends>>

(* LastActiveAt stays, the clock goes on. *)
Tick ==
  /\ \E s \in Streams : sessions[s] # None /\ sessions[s].idle < MaxIdle
  /\ sessions' = [s \in Streams |->
       IF sessions[s] # None /\ sessions[s].idle < MaxIdle
       THEN [sessions[s] EXCEPT !.idle = @ + 1]
       ELSE sessions[s]]
  /\ UNCHANGED <<log, pos, acked, resends>>

Next ==
  \/ \E s \in Streams, t \in Timeouts : OpenStream(s, t)
  \/ \E s \in Streams : CloseStream(s)
  \/ Deliver
  \/ Acknowledge
  \/ Reconnect
  \/ SweepIdle
  \/ Tick

Spec == Init /\ [][Next]_vars

(* Events are delivered in the end, the ticker and the clock go on. *)
FairSpec == Spec /\ WF_vars(Deliver) /\ WF_vars(SweepIdle) /\ WF_vars(Tick)

-----------------------------------------------------------------------------
(* Properties. *)

(* The first n events close the stream behind its open. *)
ClosedIn(n, s) ==
  \E i, j \in 1 .. n :
    /\ i < j
    /\ log[i].kind = "open" /\ log[i].id = s
    /\ log[j].kind = "close" /\ log[j].id = s

Closed(s) == sessions[s] # None /\ sessions[s].status = "closed"

(* handleStreamClose has the last word: behind a delivered open and close  *)
(* the session is closed, whichever sweeps ran in between, and however     *)
(* often both were delivered.  A close that overtakes its open, and one    *)
(* for an id without a session, are forgotten.                             *)
CloseWins ==
  \A s \in Streams : sessions[s] # None /\ ClosedIn(pos, s) => Closed(s)

(* An open that is delivered again makes a closed session active, but only *)
(* until its close is delivered again: once the reconnects end, a stream   *)
(* that was closed behind its open is closed for good.                     *)
ClosedInTheEnd ==
  \A s \in Streams : ClosedIn(Len(log), s) ~> []Closed(s)

Active(s) == sessions[s] # None /\ sessions[s].status = "active"

(* No session stays active for ever: it is closed or times out.            *)
SessionsEnd ==
  \A s \in Streams : Active(s) ~> ~Active(s)

(* What the plan says of the stream handlers: after an open the session is *)
(* in the registry.                                                        *)
OpenIsRegistered ==
  \A s \in Streams :
    (\E i \in DOMAIN log : log[i].kind = "open" /\ log[i].id = s)
      ~> sessions[s] # None

=============================================================================
