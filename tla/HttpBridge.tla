----------------------------- MODULE HttpBridge -----------------------------
(***************************************************************************)
(* The HTTP bridge of dd-core (internal/adapter/http_bridge.go): callbacks *)
(* of the broker client carry messages of the peer's request and event     *)
(* topics to an HTTP target, with retries behind a circuit breaker, and    *)
(* publish the answer of a sync message.  There is no queue: a callback    *)
(* keeps its goroutine for the whole call, and Stop does nothing.          *)
(***************************************************************************)
EXTENDS Integers, Sequences, FiniteSets

CONSTANTS
  Messages,       \* identities of messages
  Foreign,        \* those that other nodes publish to this peer's topics
  ForeignKinds,   \* what those are like
  Callbacks,      \* goroutines of the broker client that run handlers
  None,           \* no message
  Retries,        \* retries (2)
  FailLimit,      \* failures in a row that open the breaker (3)
  OpenTicks,      \* how long the breaker stays open (5 seconds), in ticks
  MaxDeliveries,  \* bound: deliveries of one sync message (QoS 1)
  MaxTime         \* bound: ticks of the clock

ASSUME BridgeAssumption ==
  /\ Retries \in Nat \ {0} /\ FailLimit \in Nat \ {0}
  /\ OpenTicks \in Nat /\ MaxDeliveries \in Nat /\ MaxTime \in Nat
  /\ IsFiniteSet(Callbacks)
  /\ None \notin Messages /\ Foreign \subseteq Messages

(* What the handlers tell apart: the message does not decode or validate,  *)
(* its method or path makes no HTTP request, or it can be sent.  The       *)
(* protocol of the message is not among it: this bridge never looks at it. *)
Kinds == [sync : BOOLEAN, class : {"invalid", "unbuildable", "plain"}]

ASSUME ForeignAssumption == ForeignKinds \subseteq Kinds

(* Outcomes of doHttp: the three statuses it makes up itself (503, 400 and *)
(* 502), and those of the target below and from 500 on.                    *)
Outcomes == {"circuit", "unbuilt", "gateway", "ok", "serverError"}

VARIABLES
  sent,         \* what was published of each message, or None
  deliveries,   \* how often each message was handed to a callback
  hpc,          \* callback: step
  hmsg,         \* callback: message it handles
  hattempt,     \* callback: attempt of doHttp
  hanswered,    \* callback: the target executed the current attempt
  houtcome,     \* callback: what doHttp returned
  cbFails,      \* circuit breaker: failures since the last success
  cbOpenUntil,  \* circuit breaker: open before this time
  replies,      \* published answers
  dead,         \* messages and replies sent to the dead-letter topic
  executed,     \* target: how often it executed each message
  abandoned,    \* target: requests it may still execute, nobody waits for
  now,          \* time.Now(), in coarse ticks
  openAttempts  \* history: requests sent since the breaker last opened

handlerVars == <<hpc, hmsg, hattempt, hanswered, houtcome>>
breakerVars == <<cbFails, cbOpenUntil, openAttempts>>
targetVars == <<executed, abandoned>>
bridgeVars == <<sent, deliveries, handlerVars, breakerVars, replies, dead,
                targetVars, now>>

Reply == [msg : Messages, outcome : Outcomes]

BridgeTypeOK ==
  /\ sent \in [Messages -> Kinds \cup {None}]
  /\ deliveries \in [Messages -> Nat]
  /\ executed \in [Messages -> Nat] /\ abandoned \in [Messages -> Nat]
  /\ hpc \in [Callbacks -> {"idle", "handle", "attempt", "inflight", "finish"}]
  /\ hmsg \in [Callbacks -> Messages \cup {None}]
  /\ hattempt \in [Callbacks -> 0 .. Retries]
  /\ hanswered \in [Callbacks -> BOOLEAN]
  /\ houtcome \in [Callbacks -> Outcomes \cup {None}]
  /\ cbFails \in Nat /\ cbOpenUntil \in Nat /\ now \in Nat
  /\ openAttempts \in Nat
  /\ replies \subseteq Reply /\ dead \subseteq Messages

BridgeInit ==
  /\ sent = [m \in Messages |-> None]
  /\ deliveries = [m \in Messages |-> 0]
  /\ hpc = [h \in Callbacks |-> "idle"]
  /\ hmsg = [h \in Callbacks |-> None]
  /\ hattempt = [h \in Callbacks |-> 0]
  /\ hanswered = [h \in Callbacks |-> FALSE]
  /\ houtcome = [h \in Callbacks |-> None]
  /\ cbFails = 0
  /\ cbOpenUntil = 0
  /\ replies = {}
  /\ dead = {}
  /\ executed = [m \in Messages |-> 0]
  /\ abandoned = [m \in Messages |-> 0]
  /\ now = 0
  /\ openAttempts = 0

-----------------------------------------------------------------------------
(* The circuit breaker. *)

isCircuitOpen == now < cbOpenUntil

markFailure ==
  /\ cbFails' = cbFails + 1
  /\ IF cbFails + 1 >= FailLimit
     THEN /\ cbOpenUntil' = now + OpenTicks
          /\ openAttempts' = IF isCircuitOpen THEN openAttempts ELSE 0
     ELSE UNCHANGED <<cbOpenUntil, openAttempts>>

markSuccess == cbFails' = 0 /\ cbOpenUntil' = 0 /\ openAttempts' = 0

-----------------------------------------------------------------------------
(* Callbacks. *)

Step(h, from, to) == hpc[h] = from /\ hpc' = [hpc EXCEPT ![h] = to]

(* The callback returns to the client. *)
Return(h) ==
  /\ hpc' = [hpc EXCEPT ![h] = "idle"]
  /\ hmsg' = [hmsg EXCEPT ![h] = None]
  /\ hattempt' = [hattempt EXCEPT ![h] = 0]
  /\ hanswered' = [hanswered EXCEPT ![h] = FALSE]
  /\ houtcome' = [houtcome EXCEPT ![h] = None]

(* doHttp returns. *)
Ends(h, from, outcome) ==
  /\ Step(h, from, "finish")
  /\ houtcome' = [houtcome EXCEPT ![h] = outcome]

(* Another node publishes to the request or event topic of this peer. *)
ForeignPublish(m, k) ==
  /\ sent[m] = None
  /\ sent' = [sent EXCEPT ![m] = k]
  /\ UNCHANGED <<deliveries, handlerVars, breakerVars, replies, dead,
                 targetVars, now>>

(* The broker hands a message to an idle callback: a request (QoS 1) at    *)
(* any time and perhaps again, an event (QoS 0) at most once.              *)
Deliver(h, m) ==
  /\ Step(h, "idle", "handle")
  /\ sent[m] # None
  /\ deliveries[m] < (IF sent[m].sync THEN MaxDeliveries ELSE 1)
  /\ deliveries' = [deliveries EXCEPT ![m] = @ + 1]
  /\ hmsg' = [hmsg EXCEPT ![h] = m]
  /\ UNCHANGED <<sent, hattempt, hanswered, houtcome, breakerVars, replies,
                 dead, targetVars, now>>

(* publishDLQ: nobody looks at the result of that publish. *)
publishDLQ(m) == dead' = dead \cup {m}

(* The handlers before doHttp. *)
Reject(h) ==
  /\ hpc[h] = "handle"
  /\ sent[hmsg[h]].class = "invalid"
  /\ Return(h)
  /\ publishDLQ(hmsg[h])
  /\ UNCHANGED <<sent, deliveries, breakerVars, replies, targetVars, now>>

(* doHttp does not get to its first attempt. *)
Refuse(h) ==
  /\ hpc[h] = "handle"
  /\ sent[hmsg[h]].class # "invalid"
  /\ \/ isCircuitOpen /\ Ends(h, "handle", "circuit")
     \/ /\ ~isCircuitOpen
        /\ sent[hmsg[h]].class = "unbuildable"
        /\ Ends(h, "handle", "unbuilt")
  /\ UNCHANGED <<sent, deliveries, hmsg, hattempt, hanswered, breakerVars,
                 replies, dead, targetVars, now>>

(* A bug: doHttp does not look at the breaker. *)
StartUnchecked(h) ==
  /\ Step(h, "handle", "attempt")
  /\ sent[hmsg[h]].class = "plain"
  /\ hattempt' = [hattempt EXCEPT ![h] = 1]
  /\ UNCHANGED <<sent, deliveries, hmsg, hanswered, houtcome, breakerVars,
                 replies, dead, targetVars, now>>

StartAttempts(h) ==
  /\ Step(h, "handle", "attempt")
  /\ sent[hmsg[h]].class = "plain"
  /\ ~isCircuitOpen
  /\ hattempt' = [hattempt EXCEPT ![h] = 1]
  /\ UNCHANGED <<sent, deliveries, hmsg, hanswered, houtcome, breakerVars,
                 replies, dead, targetVars, now>>

(* httpClient.Do sends the request; the loop does not ask the breaker      *)
(* again.                                                                  *)
Attempt(h) ==
  /\ Step(h, "attempt", "inflight")
  /\ openAttempts' = IF isCircuitOpen THEN openAttempts + 1 ELSE openAttempts
  /\ UNCHANGED <<sent, deliveries, hmsg, hattempt, hanswered, houtcome,
                 cbFails, cbOpenUntil, replies, dead, targetVars, now>>

(* The target executes what it received, while the callback waits ... *)
TargetExecutes(h) ==
  /\ hpc[h] = "inflight"
  /\ ~hanswered[h]
  /\ hanswered' = [hanswered EXCEPT ![h] = TRUE]
  /\ executed' = [executed EXCEPT ![hmsg[h]] = @ + 1]
  /\ UNCHANGED <<sent, deliveries, hpc, hmsg, hattempt, houtcome,
                 breakerVars, replies, dead, abandoned, now>>

(* ... or after the caller gave the request up. *)
LateExecution(m) ==
  /\ abandoned[m] > 0
  /\ abandoned' = [abandoned EXCEPT ![m] = @ - 1]
  /\ executed' = [executed EXCEPT ![m] = @ + 1]
  /\ UNCHANGED <<sent, deliveries, handlerVars, breakerVars, replies, dead,
                 now>>

(* The caller of a request the target has not executed yet gives it up. *)
Abandon(m, answered) ==
  abandoned' = [abandoned EXCEPT ![m] = IF answered THEN @ ELSE @ + 1]

(* A failed attempt: sleep and go on, or give up with this outcome. *)
RetryOr(h, outcome) ==
  \/ /\ hattempt[h] < Retries
     /\ Step(h, "inflight", "attempt")
     /\ hattempt' = [hattempt EXCEPT ![h] = @ + 1]
     /\ UNCHANGED houtcome
  \/ /\ hattempt[h] >= Retries
     /\ Ends(h, "inflight", outcome)
     /\ UNCHANGED hattempt

(* Do or ReadAll fails, whether or not the target executed the request. *)
AttemptFails(h) ==
  /\ RetryOr(h, "gateway")
  /\ markFailure
  /\ Abandon(hmsg[h], hanswered[h])
  /\ hanswered' = [hanswered EXCEPT ![h] = FALSE]
  /\ UNCHANGED <<sent, deliveries, hmsg, replies, dead, executed, now>>

(* The target answers with a status from 500 on. *)
AttemptRefused(h) ==
  /\ hanswered[h]
  /\ RetryOr(h, "serverError")
  /\ markFailure
  /\ hanswered' = [hanswered EXCEPT ![h] = FALSE]
  /\ UNCHANGED <<sent, deliveries, hmsg, replies, dead, targetVars, now>>

AttemptSucceeds(h) ==
  /\ hanswered[h]
  /\ Ends(h, "inflight", "ok")
  /\ markSuccess
  /\ UNCHANGED <<sent, deliveries, hmsg, hattempt, hanswered, replies, dead,
                 targetVars, now>>

(* After doHttp.  A sync answer, which may be an error body, is published; *)
(* when that fails it is dead-lettered, and nothing is sent when it does   *)
(* not encode.  An event has nobody to answer.                             *)
Finish(h) ==
  /\ hpc[h] = "finish"
  /\ Return(h)
  /\ LET m == hmsg[h] IN
       IF sent[m].sync
       THEN \/ /\ replies' = replies \cup {[msg |-> m, outcome |-> houtcome[h]]}
               /\ UNCHANGED dead
            \/ publishDLQ(m) /\ UNCHANGED replies
            \/ UNCHANGED <<replies, dead>>
       ELSE UNCHANGED <<replies, dead>>
  /\ UNCHANGED <<sent, deliveries, breakerVars, targetVars, now>>

Tick ==
  /\ now < MaxTime
  /\ now' = now + 1
  /\ UNCHANGED <<sent, deliveries, handlerVars, breakerVars, replies, dead,
                 targetVars>>

(* What a callback does once it has a message. *)
Handle(h) ==
  \/ Reject(h) \/ Refuse(h) \/ StartAttempts(h) \/ Attempt(h)
  \/ AttemptFails(h) \/ AttemptRefused(h) \/ AttemptSucceeds(h) \/ Finish(h)

BridgeNext ==
  \/ \E h \in Callbacks :
       \/ \E m \in Messages : Deliver(h, m)
       \/ TargetExecutes(h)
       \/ Handle(h)
  \/ \E m \in Messages : LateExecution(m)
  \/ \E m \in Foreign, k \in ForeignKinds : ForeignPublish(m, k)
  \/ Tick

-----------------------------------------------------------------------------
(* Properties. *)

(* While the breaker is open the target gets at most the attempts of the   *)
(* callbacks that had passed the breaker before, all of them but the one   *)
(* whose failure opened it.                                                *)
BreakerShields ==
  isCircuitOpen => openAttempts < Cardinality(Callbacks) * Retries

=============================================================================
