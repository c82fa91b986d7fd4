--------------------------- MODULE Transfer_proofs ---------------------------
(***************************************************************************)
(* Proofs about Transfer and the HttpBridge in it, for every number of     *)
(* requests, items, callbacks, messages and retries.                       *)
(***************************************************************************)
EXTENDS Transfer, FiniteSetTheorems, TLAPS

Own == Requests \X (1 .. MaxItems)
Slots == Callbacks \X (1 .. Retries)

-----------------------------------------------------------------------------
(* The bridge. *)

(* A callback that is not idle has a message that was published; what it   *)
(* knows of the target is true of that message.                            *)
CallbackOK(h) ==
  /\ hpc[h] = "idle" <=> hmsg[h] = None
  /\ hmsg[h] # None => sent[hmsg[h]] # None
  /\ hpc[h] \in {"attempt", "inflight"} => hattempt[h] >= 1
  /\ hanswered[h] => hmsg[h] # None /\ executed[hmsg[h]] > 0
  /\ houtcome[h] \in {"ok", "serverError"} => hmsg[h] # None /\ executed[hmsg[h]] > 0
  /\ hpc[h] = "finish" => houtcome[h] \in Outcomes

CallbackSound == \A h \in Callbacks : CallbackOK(h)

UnsentUndelivered == \A m \in Messages : sent[m] = None => deliveries[m] = 0

(* A reply with a status of the target follows an execution. *)
AnswersGenuine ==
  \A r \in replies :
    r.outcome \in {"ok", "serverError"} => executed[r.msg] > 0

BridgeSound == CallbackSound /\ UnsentUndelivered /\ AnswersGenuine

(* The requests that callbacks which have passed the breaker may still     *)
(* send: callback and attempt.                                             *)
AttemptsLeft ==
  {p \in Slots :
     \/ hpc[p[1]] = "attempt" /\ hattempt[p[1]] <= p[2]
     \/ hpc[p[1]] = "inflight" /\ hattempt[p[1]] < p[2]}

Shielded ==
  isCircuitOpen =>
    openAttempts + Cardinality(AttemptsLeft) < Cardinality(Callbacks) * Retries

-----------------------------------------------------------------------------
(* The handlers. *)

Active == {"item", "direct", "send", "wait"}

(* Where a handler is, and the results it has noted by then. *)
HandlerSound ==
  \A c \in Requests :
    /\ idx[c] = Len(results[c]) + 1
    /\ apc[c] = "new" <=> input[c] = None
    /\ apc[c] = "new" => results[c] = <<>>
    /\ apc[c] \in Active => Len(results[c]) < Len(input[c].items)
    /\ apc[c] = "done" => Len(results[c]) = Len(input[c].items)
    /\ apc[c] = "done" <=> answer[c] # None
    /\ apc[c] = "direct" <=> route[c] = "direct"
    /\ apc[c] = "wait" => Sync(c)

(* A message is with the broker or on the direct route only once its       *)
(* handler has got so far, and with the bridge only through the broker.    *)
PathOK(c) ==
  /\ \A i \in 1 .. MaxItems :
       <<c, i>> \in published \cup directly =>
         \/ i <= Len(results[c])
         \/ i = idx[c] /\ apc[c] \in {"direct", "send", "wait"}
  /\ apc[c] \in {"direct", "send"} => msg(c) \notin published
  /\ apc[c] = "direct" => msg(c) \in directly
  /\ apc[c] = "wait" => msg(c) \in published
  /\ apc[c] = "wait" /\ it(c).resource = "other" => sent[msg(c)] = None
  /\ dexec[c] => apc[c] \in {"direct", "send", "wait"} /\ executed[msg(c)] > 0

PathSound ==
  /\ published \cup directly \subseteq Own
  /\ \A m \in Own : sent[m] # None => m \in published
  /\ \A c \in Requests : PathOK(c)

(* A noted result tells what happened to its message. *)
ResultSound(c, i, r) ==
  /\ r.ok /\ r.route = "direct" =>
       executed[<<c, i>>] > 0 /\ <<c, i>> \notin published /\ <<c, i>> \in directly
  /\ r.ok /\ r.route = "broker" => <<c, i>> \in published
  /\ r.code \in {400, 403} => <<c, i>> \notin published
  /\ r.code = 200 => r.ok /\ (r.route = "direct" \/ \E q \in replies : q.msg = <<c, i>>)

ResultsSound ==
  \A c \in Requests : \A i \in 1 .. Len(results[c]) : ResultSound(c, i, results[c][i])

(* The counters of a batch, and the answers. *)
Oks(c) == {i \in 1 .. Len(results[c]) : results[c][i].ok}

Counted ==
  \A c \in Requests :
    /\ accepted[c] = Cardinality(Oks(c))
    /\ accepted[c] + failed[c] = Len(results[c])

AnswerSound ==
  \A c \in Requests :
    answer[c] # None =>
      IF input[c].mode = "batch"
      THEN /\ answer[c].code \in {202, 400}
           /\ answer[c].code = 202 <=> accepted[c] > 0
           /\ answer[c].status = "ok" <=> accepted[c] > 0 /\ failed[c] = 0
      ELSE answer[c].code = results[c][1].code

-----------------------------------------------------------------------------
(* Executions. *)

(* The executions of message m that callbacks may still cause. *)
Potential(m) ==
  {p \in Slots :
     /\ hmsg[p[1]] = m
     /\ \/ hpc[p[1]] = "handle"
        \/ hpc[p[1]] = "attempt" /\ hattempt[p[1]] <= p[2]
        \/ /\ hpc[p[1]] = "inflight"
           /\ \/ hattempt[p[1]] < p[2]
              \/ hattempt[p[1]] = p[2] /\ ~hanswered[p[1]]}

(* A direct call of m that the target has not executed is under way. *)
Due(m) ==
  IF \E c \in Requests : apc[c] = "direct" /\ ~dexec[c] /\ msg(c) = m
  THEN 1 ELSE 0

Direct(m) == IF m \in directly THEN 1 ELSE 0
Elsewhere(m) == IF m \in published /\ sent[m] = None THEN 1 ELSE 0
Spent(m) == executed[m] + abandoned[m] + Cardinality(Potential(m)) + Due(m)
Budget(m) == Direct(m) + deliveries[m] * Retries

(* What the target did, does or may still do with m is paid for; the       *)
(* execution by another peer is the first one.                             *)
Paid(m) ==
  /\ Spent(m) <= Budget(m) + Elsewhere(m)
  /\ executed[m] = 0 => Spent(m) <= Budget(m)

AllPaid == \A m \in Messages : Paid(m)

(* The handlers and their messages. *)
FlowInv == HandlerSound /\ PathSound /\ ResultsSound

IInv ==
  /\ TypeOK /\ BridgeSound /\ Shielded /\ FlowInv
  /\ Counted /\ AnswerSound /\ AllPaid

USE DEF handlerVars, breakerVars, targetVars

-----------------------------------------------------------------------------
(* Types of the bridge. *)

LEMMA MessageFacts ==
  /\ None \notin Messages /\ Own \subseteq Messages /\ Foreign \subseteq Messages
  /\ Own \cap Foreign = {}
  /\ Messages = Own \cup Foreign
  BY BridgeAssumption, TransferAssumption DEF Own

(* A callback that is not idle, and its message. *)
LEMMA BusyCallback ==
  ASSUME BridgeTypeOK, CallbackSound, NEW h \in Callbacks, hpc[h] # "idle"
  PROVE  hmsg[h] \in Messages /\ hmsg[h] # None /\ sent[hmsg[h]] \in Kinds
  BY DEF BridgeTypeOK, CallbackSound, CallbackOK

LEMMA BridgeTypeStep ==
  ASSUME BridgeTypeOK, CallbackSound, BridgeNext
  PROVE  BridgeTypeOK'
<1> USE BridgeAssumption
<1>1. ASSUME NEW h \in Callbacks, NEW m \in Messages, Deliver(h, m)
      PROVE  BridgeTypeOK'
  BY <1>1 DEF Deliver, Step, BridgeTypeOK
<1>2. ASSUME NEW h \in Callbacks, TargetExecutes(h) PROVE BridgeTypeOK'
  <2>1. hmsg[h] \in Messages
    BY <1>2, BusyCallback DEF TargetExecutes
  <2> QED BY <1>2, <2>1 DEF TargetExecutes, BridgeTypeOK
<1>3. ASSUME NEW h \in Callbacks, Reject(h) PROVE BridgeTypeOK'
  <2>1. hmsg[h] \in Messages
    BY <1>3, BusyCallback DEF Reject
  <2> QED BY <1>3, <2>1 DEF Reject, Return, publishDLQ, BridgeTypeOK
<1>4. ASSUME NEW h \in Callbacks, Refuse(h) PROVE BridgeTypeOK'
  BY <1>4 DEF Refuse, Ends, Step, BridgeTypeOK, Outcomes
<1>5. ASSUME NEW h \in Callbacks, StartAttempts(h) \/ Attempt(h) PROVE BridgeTypeOK'
  BY <1>5 DEF StartAttempts, Attempt, Step, BridgeTypeOK
<1>6. ASSUME NEW h \in Callbacks, NEW o \in Outcomes, RetryOr(h, o)
      PROVE  /\ hpc' \in [Callbacks -> {"idle", "handle", "attempt", "inflight", "finish"}]
             /\ hattempt' \in [Callbacks -> 0 .. Retries]
             /\ houtcome' \in [Callbacks -> Outcomes \cup {None}]
             /\ hpc[h] = "inflight"
  BY <1>6 DEF RetryOr, Ends, Step, BridgeTypeOK
<1>7. ASSUME markFailure
      PROVE  cbFails' \in Nat /\ cbOpenUntil' \in Nat /\ openAttempts' \in Nat
  BY <1>7 DEF markFailure, BridgeTypeOK
<1>8. ASSUME NEW h \in Callbacks, AttemptFails(h) PROVE BridgeTypeOK'
  <2>1. "gateway" \in Outcomes /\ RetryOr(h, "gateway") /\ markFailure
    BY <1>8 DEF Outcomes, AttemptFails
  <2>2. hmsg[h] \in Messages
    BY <1>6, <2>1, BusyCallback
  <2>3. abandoned' \in [Messages -> Nat] /\ hanswered' \in [Callbacks -> BOOLEAN]
    BY <1>8, <2>2 DEF AttemptFails, Abandon, BridgeTypeOK
  <2> QED BY <1>6, <1>7, <1>8, <2>1, <2>3 DEF AttemptFails, BridgeTypeOK
<1>9. ASSUME NEW h \in Callbacks, AttemptRefused(h) PROVE BridgeTypeOK'
  <2>1. "serverError" \in Outcomes /\ RetryOr(h, "serverError") /\ markFailure
    BY <1>9 DEF Outcomes, AttemptRefused
  <2>2. hanswered' \in [Callbacks -> BOOLEAN]
    BY <1>9 DEF AttemptRefused, BridgeTypeOK
  <2> QED BY <1>6, <1>7, <1>9, <2>1, <2>2 DEF AttemptRefused, BridgeTypeOK
<1>10. ASSUME NEW h \in Callbacks, AttemptSucceeds(h) PROVE BridgeTypeOK'
  BY <1>10 DEF AttemptSucceeds, Ends, Step, markSuccess, BridgeTypeOK, Outcomes
<1>11. ASSUME NEW h \in Callbacks, Finish(h) PROVE BridgeTypeOK'
  <2>1. hmsg[h] \in Messages /\ houtcome[h] \in Outcomes
    BY <1>11, BusyCallback DEF Finish, CallbackSound, CallbackOK
  <2>2. replies' \subseteq Reply /\ dead' \subseteq Messages
    BY <1>11, <2>1 DEF Finish, publishDLQ, BridgeTypeOK, Reply
  <2> QED BY <1>11, <2>2 DEF Finish, Return, BridgeTypeOK
<1>12. ASSUME NEW m \in Messages, LateExecution(m) PROVE BridgeTypeOK'
  BY <1>12 DEF LateExecution, BridgeTypeOK
<1>13. ASSUME NEW m \in Foreign, NEW k \in ForeignKinds, ForeignPublish(m, k)
       PROVE  BridgeTypeOK'
  BY <1>13, ForeignAssumption DEF ForeignPublish, BridgeTypeOK
<1>14. ASSUME Tick PROVE BridgeTypeOK'
  BY <1>14 DEF Tick, BridgeTypeOK
<1> QED BY <1>1, <1>2, <1>3, <1>4, <1>5, <1>8, <1>9, <1>10, <1>11, <1>12, <1>13,
           <1>14
        DEF BridgeNext, Handle

-----------------------------------------------------------------------------
(* What the bridge knows of the target. *)

(* The target never takes an execution back, and no message is unsent;     *)
(* the bridge publishes no message of the API.                             *)
Grows ==
  /\ \A m \in Messages : executed'[m] >= executed[m]
  /\ \A m \in Messages : sent[m] # None => sent'[m] = sent[m]
  /\ replies \subseteq replies'

LEMMA BridgeGrows ==
  ASSUME BridgeTypeOK, CallbackSound, BridgeNext
  PROVE  Grows /\ \A m \in Own : sent'[m] = sent[m]
<1>1. ASSUME NEW h \in Callbacks, TargetExecutes(h)
      PROVE  Grows /\ UNCHANGED sent
  <2>1. hmsg[h] \in Messages
    BY <1>1, BusyCallback DEF TargetExecutes
  <2> QED BY <1>1, <2>1 DEF TargetExecutes, Grows, BridgeTypeOK
<1>2. ASSUME NEW h \in Callbacks,
             Handle(h) \/ \E m \in Messages : Deliver(h, m)
      PROVE  Grows /\ UNCHANGED sent
  <2>1. UNCHANGED <<sent, executed>> /\ replies \subseteq replies'
    BY <1>2 DEF Handle, Deliver, Reject, Refuse, StartAttempts, Attempt,
                AttemptFails, AttemptRefused, AttemptSucceeds, Finish
  <2> QED BY <2>1 DEF Grows, BridgeTypeOK
<1>3. ASSUME NEW m \in Messages, LateExecution(m)
      PROVE  Grows /\ UNCHANGED sent
  BY <1>3 DEF LateExecution, Grows, BridgeTypeOK
<1>4. ASSUME NEW m \in Foreign, NEW k \in ForeignKinds, ForeignPublish(m, k)
      PROVE  Grows /\ \A n \in Own : sent'[n] = sent[n]
  BY <1>4, MessageFacts DEF ForeignPublish, Grows, BridgeTypeOK
<1>5. ASSUME Tick PROVE Grows /\ UNCHANGED sent
  BY <1>5 DEF Tick, Grows, BridgeTypeOK
<1> QED BY <1>1, <1>2, <1>3, <1>4, <1>5 DEF BridgeNext

(* A callback that does not take part in a step. *)
LEMMA CallbackFrame ==
  ASSUME BridgeTypeOK, BridgeTypeOK', Grows, NEW h \in Callbacks, CallbackOK(h),
         hpc'[h] = hpc[h], hmsg'[h] = hmsg[h], hattempt'[h] = hattempt[h],
         hanswered'[h] = hanswered[h], houtcome'[h] = houtcome[h]
  PROVE  CallbackOK(h)'
  BY DEF CallbackOK, Grows, BridgeTypeOK

LEMMA AnswersFrame ==
  ASSUME BridgeTypeOK, BridgeTypeOK', Grows, AnswersGenuine, UNCHANGED replies
  PROVE  AnswersGenuine'
  BY DEF AnswersGenuine, Grows, BridgeTypeOK, Reply

(* Only callback h moves. *)
Alone(h) ==
  \A v \in Callbacks : v # h =>
    /\ hpc'[v] = hpc[v] /\ hmsg'[v] = hmsg[v] /\ hattempt'[v] = hattempt[v]
    /\ hanswered'[v] = hanswered[v] /\ houtcome'[v] = houtcome[v]

LEMMA StepsAlone ==
  ASSUME BridgeTypeOK, NEW h \in Callbacks,
         \/ Handle(h) \/ TargetExecutes(h)
         \/ \E m \in Messages : Deliver(h, m)
  PROVE  Alone(h)
  BY DEF Handle, Deliver, Reject, Refuse, StartAttempts, Attempt, TargetExecutes,
         AttemptFails, AttemptRefused, AttemptSucceeds, Finish, Return, Ends, Step,
         RetryOr, Alone, BridgeTypeOK

LEMMA CallbackStep ==
  ASSUME BridgeTypeOK, BridgeTypeOK', CallbackSound, Grows, NEW h \in Callbacks,
         \/ Handle(h) \/ TargetExecutes(h)
         \/ \E m \in Messages : Deliver(h, m)
  PROVE  CallbackSound'
<1> USE BridgeAssumption, NoneAssumption
<1>1. CallbackOK(h)
  BY DEF CallbackSound
<1>2. ASSUME \E m \in Messages : Deliver(h, m) PROVE CallbackOK(h)'
  BY <1>1, <1>2 DEF Deliver, Step, CallbackOK, BridgeTypeOK
<1>3. ASSUME Reject(h) \/ Finish(h) PROVE CallbackOK(h)'
  BY <1>1, <1>3 DEF Reject, Finish, Return, CallbackOK, BridgeTypeOK, Outcomes
<1>4. ASSUME Refuse(h) PROVE CallbackOK(h)'
  BY <1>1, <1>4 DEF Refuse, Ends, Step, CallbackOK, BridgeTypeOK, Outcomes
<1>5. ASSUME StartAttempts(h) \/ Attempt(h) PROVE CallbackOK(h)'
  BY <1>1, <1>5 DEF StartAttempts, Attempt, Step, CallbackOK, BridgeTypeOK
<1>6. ASSUME TargetExecutes(h) PROVE CallbackOK(h)'
  BY <1>1, <1>6 DEF TargetExecutes, CallbackOK, BridgeTypeOK
<1>7. ASSUME AttemptFails(h) PROVE CallbackOK(h)'
  BY <1>1, <1>7 DEF AttemptFails, RetryOr, Ends, Step, CallbackOK, BridgeTypeOK,
                    Outcomes
<1>8. ASSUME AttemptRefused(h) PROVE CallbackOK(h)'
  BY <1>1, <1>8 DEF AttemptRefused, RetryOr, Ends, Step, CallbackOK, BridgeTypeOK,
                    Outcomes
<1>9. ASSUME AttemptSucceeds(h) PROVE CallbackOK(h)'
  BY <1>1, <1>9 DEF AttemptSucceeds, Ends, Step, CallbackOK, BridgeTypeOK, Outcomes
<1>10. CallbackOK(h)'
  BY <1>2, <1>3, <1>4, <1>5, <1>6, <1>7, <1>8, <1>9 DEF Handle
<1>11. ASSUME NEW v \in Callbacks, v # h PROVE CallbackOK(v)'
  BY <1>11, StepsAlone, CallbackFrame DEF Alone, CallbackSound
<1> QED BY <1>10, <1>11 DEF CallbackSound

LEMMA BridgeSoundStep ==
  ASSUME BridgeTypeOK, BridgeTypeOK', BridgeSound, Grows, BridgeNext
  PROVE  BridgeSound'
<1>1. CallbackSound /\ UnsentUndelivered /\ AnswersGenuine
  BY DEF BridgeSound
<1>2. CallbackSound'
  <2>1. ASSUME UNCHANGED handlerVars PROVE CallbackSound'
    BY <1>1, <2>1, CallbackFrame DEF CallbackSound
  <2>2. ASSUME \/ \E m \in Messages : LateExecution(m)
               \/ \E m \in Foreign, k \in ForeignKinds : ForeignPublish(m, k)
               \/ Tick
        PROVE  CallbackSound'
    BY <2>1, <2>2 DEF LateExecution, ForeignPublish, Tick
  <2> QED BY <1>1, <2>2, CallbackStep DEF BridgeNext
<1>3. UnsentUndelivered'
  <2>1. ASSUME NEW h \in Callbacks, NEW m \in Messages, Deliver(h, m)
        PROVE  UnsentUndelivered'
    BY <1>1, <2>1 DEF Deliver, UnsentUndelivered, BridgeTypeOK
  <2>2. ASSUME UNCHANGED deliveries PROVE UnsentUndelivered'
    BY <1>1, <2>2 DEF UnsentUndelivered, Grows
  <2> QED BY <2>1, <2>2
      DEF BridgeNext, Handle, Reject, Refuse, StartAttempts, Attempt,
          TargetExecutes, LateExecution, AttemptFails, AttemptRefused,
          AttemptSucceeds, Finish, ForeignPublish, Tick
<1>4. AnswersGenuine'
  <2>1. ASSUME NEW h \in Callbacks, Finish(h) PROVE AnswersGenuine'
    <3>1. /\ executed' = executed
          /\ replies' \subseteq replies \cup {[msg |-> hmsg[h], outcome |-> houtcome[h]]}
      BY <2>1 DEF Finish
    <3>2. houtcome[h] \in {"ok", "serverError"} => executed[hmsg[h]] > 0
      BY <1>1 DEF CallbackSound, CallbackOK
    <3> QED BY <1>1, <3>1, <3>2 DEF AnswersGenuine
  <2>2. CASE UNCHANGED replies
    BY <1>1, <2>2, AnswersFrame
  <2> QED BY <2>1, <2>2
      DEF BridgeNext, Handle, Deliver, Reject, Refuse, StartAttempts, Attempt,
          TargetExecutes, LateExecution, AttemptFails, AttemptRefused,
          AttemptSucceeds, ForeignPublish, Tick
<1> QED BY <1>2, <1>3, <1>4 DEF BridgeSound

-----------------------------------------------------------------------------
(* The circuit breaker. *)

(* Attempts can be counted. *)
LEMMA SlotsFinite ==
  /\ IsFiniteSet(Slots)
  /\ Cardinality(Slots) = Cardinality(Callbacks) * Retries
  /\ Cardinality(Callbacks) * Retries \in Nat
  /\ \A S \in SUBSET Slots : IsFiniteSet(S) /\ Cardinality(S) \in Nat
  /\ \A S \in SUBSET Slots, T \in SUBSET Slots :
       S \subseteq T => Cardinality(S) <= Cardinality(T)
<1>1. IsFiniteSet(1 .. Retries) /\ Cardinality(1 .. Retries) = Retries
  BY FS_Interval, BridgeAssumption
<1>2. IsFiniteSet(Slots) /\ Cardinality(Slots) = Cardinality(Callbacks) * Retries
  BY <1>1, FS_Product, BridgeAssumption DEF Slots
<1>3. Cardinality(Callbacks) * Retries \in Nat
  BY <1>2, FS_CardinalityType
<1>4. ASSUME NEW S \in SUBSET Slots PROVE IsFiniteSet(S) /\ Cardinality(S) \in Nat
  BY <1>2, FS_Subset, FS_CardinalityType
<1>5. ASSUME NEW S \in SUBSET Slots, NEW T \in SUBSET Slots, S \subseteq T
      PROVE  Cardinality(S) <= Cardinality(T)
  BY <1>4, <1>5, FS_Subset
<1> QED BY <1>2, <1>3, <1>4, <1>5

(* A step that sends nothing, lets no callback pass and does not open the  *)
(* breaker.                                                                *)
LEMMA FewerLeft ==
  ASSUME BridgeTypeOK, Shielded, AttemptsLeft' \subseteq AttemptsLeft,
         isCircuitOpen' => isCircuitOpen /\ openAttempts' = openAttempts
  PROVE  Shielded'
<1> DEFINE bound == Cardinality(Callbacks) * Retries
<1>1. /\ Cardinality(AttemptsLeft') <= Cardinality(AttemptsLeft)
      /\ Cardinality(AttemptsLeft) \in Nat /\ Cardinality(AttemptsLeft') \in Nat
  BY SlotsFinite DEF AttemptsLeft
<1>2. bound \in Nat
  BY SlotsFinite
<1>3. ASSUME isCircuitOpen'
      PROVE  openAttempts' + Cardinality(AttemptsLeft') < bound
  <2>1. openAttempts + Cardinality(AttemptsLeft) < bound
    BY <1>3 DEF Shielded
  <2> HIDE DEF bound
  <2> QED BY <1>1, <1>2, <1>3, <2>1 DEF BridgeTypeOK
<1> QED BY <1>3 DEF Shielded

(* The request goes out: one attempt less is left. *)
LEMMA AttemptShielded ==
  ASSUME BridgeTypeOK, CallbackSound, Shielded, NEW h \in Callbacks, Attempt(h)
  PROVE  Shielded'
<1> DEFINE p == <<h, hattempt[h]>>
           bound == Cardinality(Callbacks) * Retries
<1>1. hattempt[h] \in 1 .. Retries
  BY BridgeAssumption DEF BridgeTypeOK, CallbackSound, CallbackOK, Attempt, Step
<1>2. p \in AttemptsLeft
  BY <1>1 DEF AttemptsLeft, Slots, Attempt, Step
<1>3. AttemptsLeft' = AttemptsLeft \ {p}
  <2>1. ASSUME NEW q \in Slots
        PROVE  q \in AttemptsLeft' <=> q \in AttemptsLeft /\ q # p
    <3>1. PICK v \in Callbacks, a \in 1 .. Retries : q = <<v, a>>
      BY DEF Slots
    <3>2. CASE v = h
      BY <1>1, <3>1, <3>2, BridgeAssumption DEF AttemptsLeft, Attempt, Step, BridgeTypeOK
    <3>3. CASE v # h
      BY <1>1, <3>1, <3>3 DEF AttemptsLeft, Attempt, Step, BridgeTypeOK
    <3> QED BY <3>2, <3>3
  <2> QED BY <2>1 DEF AttemptsLeft
<1>4. IsFiniteSet(AttemptsLeft) /\ Cardinality(AttemptsLeft) \in Nat /\ bound \in Nat
  BY SlotsFinite DEF AttemptsLeft
<1>5. Cardinality(AttemptsLeft') = Cardinality(AttemptsLeft) - 1
  <2> HIDE DEF p
  <2> QED BY <1>2, <1>3, <1>4, FS_RemoveElement
<1>6. ASSUME isCircuitOpen'
      PROVE  openAttempts' + Cardinality(AttemptsLeft') < bound
  <2>1. isCircuitOpen
    BY <1>6 DEF Attempt, isCircuitOpen
  <2>2. openAttempts' = openAttempts + 1
    BY <2>1 DEF Attempt
  <2>3. openAttempts + Cardinality(AttemptsLeft) < bound
    BY <2>1 DEF Shielded
  <2> HIDE DEF bound
  <2> QED BY <1>4, <1>5, <2>2, <2>3 DEF BridgeTypeOK
<1> QED BY <1>6 DEF Shielded

(* A failure, perhaps the one that opens the breaker: its attempt is spent *)
(* and no other has become possible.                                       *)
LEMMA FailureShielded ==
  ASSUME BridgeTypeOK, CallbackSound, Shielded, NEW h \in Callbacks,
         NEW o \in Outcomes, RetryOr(h, o), markFailure, UNCHANGED now
  PROVE  Shielded'
<1> DEFINE p == <<h, hattempt[h]>>
           bound == Cardinality(Callbacks) * Retries
<1>1. hattempt[h] \in 1 .. Retries /\ hpc[h] = "inflight"
  BY BridgeAssumption
     DEF BridgeTypeOK, CallbackSound, CallbackOK, RetryOr, Ends, Step
<1>2. p \in Slots /\ p \notin AttemptsLeft
  BY <1>1 DEF AttemptsLeft, Slots
<1>3. AttemptsLeft' = AttemptsLeft
  <2>1. ASSUME NEW q \in Slots
        PROVE  q \in AttemptsLeft' <=> q \in AttemptsLeft
    <3>1. PICK v \in Callbacks, a \in 1 .. Retries : q = <<v, a>>
      BY DEF Slots
    <3>2. CASE v = h
      <4>1. CASE /\ hattempt[h] < Retries /\ hpc'[h] = "attempt"
                 /\ hattempt'[h] = hattempt[h] + 1
        BY <1>1, <3>1, <3>2, <4>1, BridgeAssumption DEF AttemptsLeft
      <4>2. CASE hattempt[h] >= Retries /\ hpc'[h] = "finish"
        BY <1>1, <3>1, <3>2, <4>2, BridgeAssumption DEF AttemptsLeft
      <4> QED BY <4>1, <4>2 DEF RetryOr, Ends, Step, BridgeTypeOK
    <3>3. CASE v # h
      BY <1>1, <3>1, <3>3 DEF AttemptsLeft, RetryOr, Ends, Step, BridgeTypeOK
    <3> QED BY <3>2, <3>3
  <2> QED BY <2>1 DEF AttemptsLeft
<1>4. CASE isCircuitOpen
  <2>1. openAttempts' = openAttempts
    BY <1>4 DEF markFailure
  <2> QED BY <1>3, <1>4, <2>1, FewerLeft
<1>5. CASE ~isCircuitOpen /\ isCircuitOpen'
  <2>1. openAttempts' = 0
    BY <1>5 DEF markFailure, isCircuitOpen
  <2>2. Cardinality(AttemptsLeft) \in Nat /\ Cardinality(Slots) \in Nat
    BY SlotsFinite DEF AttemptsLeft
  <2>3. Cardinality(AttemptsLeft) < Cardinality(Slots)
    <3>1. AttemptsLeft \in SUBSET Slots /\ AttemptsLeft # Slots
      BY <1>2 DEF AttemptsLeft
    <3> QED BY <2>2, <3>1, SlotsFinite, FS_Subset
  <2>4. openAttempts' + Cardinality(AttemptsLeft') < bound
    BY <1>3, <2>1, <2>2, <2>3, SlotsFinite
  <2> QED BY <2>4 DEF Shielded
<1>6. CASE ~isCircuitOpen'
  BY <1>6 DEF Shielded
<1> QED BY <1>4, <1>5, <1>6

LEMMA ShieldedFrame ==
  ASSUME BridgeTypeOK, Shielded, UNCHANGED <<hpc, hattempt, breakerVars>>,
         now' \in Nat, now <= now'
  PROVE  Shielded'
<1>1. AttemptsLeft' = AttemptsLeft
  BY DEF AttemptsLeft
<1>2. isCircuitOpen' => isCircuitOpen
  BY DEF isCircuitOpen, BridgeTypeOK
<1> QED BY <1>1, <1>2, FewerLeft

LEMMA ShieldedStep ==
  ASSUME BridgeTypeOK, CallbackSound, Shielded, BridgeNext
  PROVE  Shielded'
<1>1. ASSUME \/ \E m \in Messages : LateExecution(m)
             \/ \E m \in Foreign, k \in ForeignKinds : ForeignPublish(m, k)
             \/ \E h \in Callbacks : TargetExecutes(h)
             \/ Tick
      PROVE  Shielded'
  BY <1>1, ShieldedFrame
     DEF LateExecution, ForeignPublish, TargetExecutes, Tick, BridgeTypeOK
<1>2. ASSUME NEW h \in Callbacks,
             \/ \E m \in Messages : Deliver(h, m)
             \/ Reject(h) \/ Refuse(h) \/ Finish(h)
      PROVE  Shielded'
  <2>1. /\ \E to \in {"idle", "handle", "finish"} : hpc' = [hpc EXCEPT ![h] = to]
        /\ \A v \in Callbacks : v # h => hattempt'[v] = hattempt[v]
        /\ UNCHANGED <<breakerVars, now>>
    BY <1>2 DEF Deliver, Reject, Refuse, Finish, Return, Ends, Step, BridgeTypeOK
  <2>2. AttemptsLeft' \subseteq AttemptsLeft
    BY <2>1 DEF AttemptsLeft, Slots, BridgeTypeOK
  <2> QED BY <2>1, <2>2, FewerLeft DEF isCircuitOpen
<1>3. ASSUME NEW h \in Callbacks, StartAttempts(h) PROVE Shielded'
  BY <1>3 DEF StartAttempts, Shielded, isCircuitOpen
<1>4. ASSUME NEW h \in Callbacks, Attempt(h) PROVE Shielded'
  BY <1>4, AttemptShielded
<1>5. ASSUME NEW h \in Callbacks, AttemptFails(h) \/ AttemptRefused(h)
      PROVE  Shielded'
  BY <1>5, FailureShielded DEF AttemptFails, AttemptRefused, Outcomes
<1>6. ASSUME NEW h \in Callbacks, AttemptSucceeds(h) PROVE Shielded'
  BY <1>6 DEF AttemptSucceeds, markSuccess, Shielded, isCircuitOpen, BridgeTypeOK
<1> QED BY <1>1, <1>2, <1>3, <1>4, <1>5, <1>6 DEF BridgeNext, Handle

-----------------------------------------------------------------------------
(* Executions: the bridge. *)

LEMMA PaidTypes ==
  ASSUME NEW m \in Messages
  PROVE  /\ BridgeTypeOK => /\ Potential(m) \in SUBSET Slots
                            /\ IsFiniteSet(Potential(m))
                            /\ Cardinality(Potential(m)) \in Nat
                            /\ Due(m) \in {0, 1} /\ Direct(m) \in {0, 1}
                            /\ Elsewhere(m) \in {0, 1}
                            /\ executed[m] \in Nat /\ abandoned[m] \in Nat
                            /\ deliveries[m] * Retries \in Nat
         /\ BridgeTypeOK' => /\ Potential(m)' \in SUBSET Slots
                             /\ IsFiniteSet(Potential(m)')
                             /\ Cardinality(Potential(m)') \in Nat
                             /\ Due(m)' \in {0, 1} /\ Direct(m)' \in {0, 1}
                             /\ Elsewhere(m)' \in {0, 1}
                             /\ executed'[m] \in Nat /\ abandoned'[m] \in Nat
                             /\ deliveries'[m] * Retries \in Nat
<1>1. \A d \in Nat : d * Retries \in Nat
  BY BridgeAssumption
<1>2. Potential(m) \in SUBSET Slots /\ Potential(m)' \in SUBSET Slots
  BY DEF Potential
<1>3. /\ Due(m) \in {0, 1} /\ Direct(m) \in {0, 1} /\ Elsewhere(m) \in {0, 1}
      /\ Due(m)' \in {0, 1} /\ Direct(m)' \in {0, 1} /\ Elsewhere(m)' \in {0, 1}
  BY DEF Due, Direct, Elsewhere
<1> QED BY <1>1, <1>2, <1>3, SlotsFinite DEF BridgeTypeOK

(* The arithmetic of a step: what is spent more is paid for more. *)
LEMMA PaidKept ==
  ASSUME BridgeTypeOK, BridgeTypeOK', NEW m \in Messages, Paid(m),
         Spent(m)' + Budget(m) <= Spent(m) + Budget(m)',
         Elsewhere(m) <= Elsewhere(m)', executed[m] <= executed'[m]
  PROVE  Paid(m)'
<1>1. /\ Spent(m) \in Nat /\ Spent(m)' \in Nat
      /\ Budget(m) \in Nat /\ Budget(m)' \in Nat
  BY PaidTypes DEF Spent, Budget
<1> QED BY <1>1, PaidTypes DEF Paid

(* A message that nothing more happens to. *)
LEMMA PaidFrame ==
  ASSUME BridgeTypeOK, BridgeTypeOK', NEW m \in Messages, Paid(m),
         executed'[m] = executed[m], abandoned'[m] = abandoned[m],
         deliveries'[m] = deliveries[m],
         Potential(m)' \subseteq Potential(m),
         Due(m)' <= Due(m), Direct(m) <= Direct(m)',
         Elsewhere(m) <= Elsewhere(m)'
  PROVE  Paid(m)'
<1>1. Cardinality(Potential(m)') <= Cardinality(Potential(m))
  BY PaidTypes, SlotsFinite
<1>2. Spent(m)' <= Spent(m) /\ Spent(m) \in Nat /\ Spent(m)' \in Nat
  BY <1>1, PaidTypes DEF Spent
<1>3. Budget(m) <= Budget(m)' /\ Budget(m) \in Nat /\ Budget(m)' \in Nat
  BY PaidTypes DEF Budget
<1>4. Spent(m)' + Budget(m) <= Spent(m) + Budget(m)'
  BY <1>2, <1>3
<1> QED BY <1>4, PaidTypes, PaidKept

(* In a step of the bridge the handlers rest. *)
LEMMA HandlersRest ==
  ASSUME BridgeTypeOK, CallbackSound, PathSound, BridgeNext,
         UNCHANGED <<handlerState, gone, history>>, NEW m \in Messages
  PROVE  Due(m)' = Due(m) /\ Direct(m)' = Direct(m) /\ Elsewhere(m)' = Elsewhere(m)
<1>1. Due(m)' = Due(m) /\ Direct(m)' = Direct(m)
  BY DEF handlerState, history, Due, Direct, msg
<1>2. Elsewhere(m)' = Elsewhere(m)
  <2>1. m \in Own => sent'[m] = sent[m]
    BY BridgeGrows
  <2>2. m \notin Own => m \notin published
    BY DEF PathSound
  <2> QED BY <2>1, <2>2 DEF history, Elsewhere
<1> QED BY <1>1, <1>2

(* Deliver: one more delivery pays for the attempts of one more callback.  *)
LEMMA DeliverPays ==
  ASSUME BridgeTypeOK, BridgeTypeOK', CallbackSound, NEW h \in Callbacks,
         NEW m \in Messages, Deliver(h, m), Paid(m),
         Due(m)' = Due(m), Direct(m)' = Direct(m), Elsewhere(m)' = Elsewhere(m)
  PROVE  Paid(m)'
<1> DEFINE more == {h} \X (1 .. Retries)
<1>1. IsFiniteSet(more) /\ Cardinality(more) = Retries /\ Retries \in Nat
  <2>1. IsFiniteSet(1 .. Retries) /\ Cardinality(1 .. Retries) = Retries
    BY FS_Interval, BridgeAssumption
  <2>2. IsFiniteSet({h}) /\ Cardinality({h}) = 1
    BY FS_Singleton
  <2>3. /\ IsFiniteSet({h} \X (1 .. Retries))
        /\ Cardinality({h} \X (1 .. Retries))
             = Cardinality({h}) * Cardinality(1 .. Retries)
    BY <2>1, <2>2, FS_Product, Zenon
  <2>4. Retries \in Nat
    BY BridgeAssumption
  <2>5. 1 * Retries = Retries
    BY <2>4
  <2> QED BY <2>1, <2>2, <2>3, <2>4, <2>5, Zenon
<1>2. Potential(m)' \subseteq Potential(m) \cup more
  BY DEF Deliver, Step, Potential, Slots, BridgeTypeOK
<1>3. Cardinality(Potential(m)') <= Cardinality(Potential(m)) + Retries
  <2> HIDE DEF more
  <2>1. /\ IsFiniteSet(Potential(m) \cup more)
        /\ Cardinality(Potential(m) \cup more) =
             Cardinality(Potential(m)) + Cardinality(more)
               - Cardinality(Potential(m) \cap more)
    BY <1>1, PaidTypes, FS_Union
  <2>2. Cardinality(Potential(m) \cap more) \in Nat
    BY <1>1, FS_Intersection, FS_CardinalityType
  <2>3. Cardinality(Potential(m)') <= Cardinality(Potential(m) \cup more)
    BY <1>2, <2>1, FS_Subset
  <2> QED BY <1>1, <2>1, <2>2, <2>3, PaidTypes
<1>4. deliveries'[m] * Retries = deliveries[m] * Retries + Retries
  <2>1. deliveries'[m] = deliveries[m] + 1 /\ deliveries[m] \in Nat
    BY DEF Deliver, BridgeTypeOK
  <2>2. \A d \in Nat : (d + 1) * Retries = d * Retries + Retries
    BY BridgeAssumption
  <2> QED BY <2>1, <2>2
<1>5. Spent(m)' <= Spent(m) + Retries /\ Spent(m) \in Nat /\ Spent(m)' \in Nat
  BY <1>1, <1>3, PaidTypes DEF Deliver, Spent
<1>6. Budget(m)' = Budget(m) + Retries /\ Budget(m) \in Nat
  BY <1>1, <1>4, PaidTypes DEF Budget
<1>7. Spent(m)' + Budget(m) <= Spent(m) + Budget(m)'
  BY <1>1, <1>5, <1>6
<1> QED BY <1>7, PaidTypes, PaidKept DEF Deliver

(* An attempt that has not been executed is executed or given up: either   *)
(* way it is no longer possible, and counted.                              *)
LEMMA AttemptPays ==
  ASSUME BridgeTypeOK, BridgeTypeOK', CallbackSound, NEW h \in Callbacks,
         NEW m \in Messages, hmsg[h] = m, hpc[h] = "inflight", ~hanswered[h], Paid(m),
         Potential(m)' \subseteq Potential(m) \ {<<h, hattempt[h]>>},
         executed'[m] + abandoned'[m] = executed[m] + abandoned[m] + 1,
         executed[m] <= executed'[m], UNCHANGED deliveries,
         Due(m)' = Due(m), Direct(m)' = Direct(m), Elsewhere(m)' = Elsewhere(m)
  PROVE  Paid(m)'
<1> DEFINE p == <<h, hattempt[h]>>
<1>1. hattempt[h] \in 1 .. Retries
  BY BridgeAssumption DEF BridgeTypeOK, CallbackSound, CallbackOK
<1>2. p \in Potential(m)
  BY <1>1 DEF Potential, Slots
<1>3. Cardinality(Potential(m)') <= Cardinality(Potential(m)) - 1
  <2>1. /\ IsFiniteSet(Potential(m) \ {p})
        /\ Cardinality(Potential(m) \ {p}) = Cardinality(Potential(m)) - 1
    BY <1>2, PaidTypes, FS_RemoveElement
  <2>2. Cardinality(Potential(m)') <= Cardinality(Potential(m) \ {p})
    BY <2>1, FS_Subset
  <2> QED BY <2>1, <2>2
<1>4. Spent(m)' <= Spent(m) /\ Spent(m) \in Nat /\ Spent(m)' \in Nat
  BY <1>3, PaidTypes DEF Spent
<1>5. Budget(m)' = Budget(m) /\ Budget(m) \in Nat
  BY PaidTypes DEF Budget
<1>6. Spent(m)' + Budget(m) <= Spent(m) + Budget(m)'
  BY <1>4, <1>5
<1> QED BY <1>6, PaidTypes, PaidKept

(* Messages that callback h does not have keep what is possible for them. *)
LEMMA OthersPotential ==
  ASSUME BridgeTypeOK, NEW h \in Callbacks, NEW m \in Messages, Alone(h), hmsg'[h] # m
  PROVE  Potential(m)' \subseteq Potential(m)
  BY DEF Potential, Slots, Alone

(* A callback that goes on without a new request. *)
LEMMA CallbackPotential ==
  ASSUME BridgeTypeOK, CallbackSound, NEW h \in Callbacks, NEW m \in Messages,
         \/ Reject(h) \/ Refuse(h) \/ StartAttempts(h) \/ Attempt(h)
         \/ AttemptRefused(h) \/ AttemptSucceeds(h) \/ Finish(h)
  PROVE  Potential(m)' \subseteq Potential(m)
<1>0. Alone(h)
  BY StepsAlone DEF Handle
<1>1. CASE hmsg'[h] # m
  BY <1>0, <1>1, OthersPotential
<1>2. CASE hmsg'[h] = m
  <2>1. hmsg[h] = m /\ ~Reject(h) /\ ~Finish(h)
    BY <1>2, MessageFacts
       DEF Reject, Refuse, StartAttempts, Attempt, AttemptRefused, AttemptSucceeds,
           Finish, Return, BridgeTypeOK
  <2> SUFFICES ASSUME NEW a \in 1 .. Retries, <<h, a>> \in Potential(m)'
               PROVE  <<h, a>> \in Potential(m)
    BY <1>0 DEF Potential, Slots, Alone
  <2>2. CASE Refuse(h) \/ AttemptSucceeds(h)
    BY <2>2 DEF Refuse, AttemptSucceeds, Ends, Step, Potential, BridgeTypeOK
  <2>3. CASE StartAttempts(h)
    BY <2>1, <2>3 DEF StartAttempts, Step, Potential, Slots
  <2>4. CASE Attempt(h)
    BY <2>1, <2>4 DEF Attempt, Step, Potential, Slots, BridgeTypeOK
  <2>5. CASE AttemptRefused(h)
    BY <2>1, <2>5, BridgeAssumption
       DEF AttemptRefused, RetryOr, Ends, Step, Potential, Slots, BridgeTypeOK
  <2> QED BY <2>1, <2>2, <2>3, <2>4, <2>5
<1> QED BY <1>1, <1>2

LEMMA BridgePays ==
  ASSUME BridgeTypeOK, BridgeTypeOK', CallbackSound, PathSound, AllPaid, BridgeNext,
         UNCHANGED <<handlerState, gone, history>>
  PROVE  AllPaid'
<1> SUFFICES ASSUME NEW m \in Messages PROVE Paid(m)'
  BY DEF AllPaid
<1>1. Paid(m)
  BY DEF AllPaid
<1>2. Due(m)' = Due(m) /\ Direct(m)' = Direct(m) /\ Elsewhere(m)' = Elsewhere(m)
  BY HandlersRest
<1>3. ASSUME Potential(m)' \subseteq Potential(m), executed'[m] = executed[m],
             abandoned'[m] = abandoned[m], deliveries'[m] = deliveries[m]
      PROVE  Paid(m)'
  BY <1>1, <1>2, <1>3, PaidTypes, PaidFrame
<1>4. ASSUME NEW h \in Callbacks, NEW n \in Messages, Deliver(h, n) PROVE Paid(m)'
  <2>1. CASE m = n
    BY <1>1, <1>2, <1>4, <2>1, DeliverPays
  <2>2. CASE m # n
    <3>1. Potential(m)' \subseteq Potential(m)
      BY <1>4, <2>2, StepsAlone, OthersPotential DEF Deliver, BridgeTypeOK
    <3> QED BY <1>3, <1>4, <2>2, <3>1 DEF Deliver, BridgeTypeOK
  <2> QED BY <2>1, <2>2
<1>5. ASSUME NEW h \in Callbacks, TargetExecutes(h) PROVE Paid(m)'
  <2>1. hmsg[h] \in Messages /\ hmsg' = hmsg
    BY <1>5, BusyCallback DEF TargetExecutes
  <2>2. CASE hmsg[h] = m
    <3>1. Potential(m)' \subseteq Potential(m) \ {<<h, hattempt[h]>>}
      BY <1>5, <2>2 DEF TargetExecutes, Potential, Slots, BridgeTypeOK
    <3>2. executed'[m] = executed[m] + 1 /\ abandoned' = abandoned
      BY <1>5, <2>2 DEF TargetExecutes, BridgeTypeOK
    <3> QED BY <1>1, <1>2, <1>5, <2>2, <3>1, <3>2, PaidTypes, AttemptPays
            DEF TargetExecutes
  <2>3. CASE hmsg[h] # m
    <3>1. Potential(m)' \subseteq Potential(m)
      BY <1>5, <2>1, <2>3, StepsAlone, OthersPotential
    <3> QED BY <1>3, <1>5, <2>1, <2>3, <3>1 DEF TargetExecutes, BridgeTypeOK
  <2> QED BY <2>2, <2>3
<1>6. ASSUME NEW h \in Callbacks, AttemptFails(h) PROVE Paid(m)'
  <2>1. hpc[h] = "inflight" /\ hmsg' = hmsg
    BY <1>6 DEF AttemptFails, RetryOr, Ends, Step
  <2>2. hmsg[h] \in Messages
    BY <2>1, BusyCallback
  <2>3. Alone(h)
    BY <1>6, StepsAlone DEF Handle
  <2>4. CASE hmsg[h] = m /\ ~hanswered[h]
    <3>1. Potential(m)' \subseteq Potential(m) \ {<<h, hattempt[h]>>}
      <4>1. ASSUME NEW a \in 1 .. Retries, <<h, a>> \in Potential(m)'
            PROVE  <<h, a>> \in Potential(m) /\ a # hattempt[h]
        BY <1>6, <2>1, <2>4, <4>1, BridgeAssumption
           DEF AttemptFails, RetryOr, Ends, Step, Potential, Slots, BridgeTypeOK
      <4> QED BY <2>3, <4>1 DEF Potential, Slots, Alone
    <3>2. abandoned'[m] = abandoned[m] + 1 /\ executed' = executed
      BY <1>6, <2>2, <2>4 DEF AttemptFails, Abandon, BridgeTypeOK
    <3> QED BY <1>1, <1>2, <1>6, <2>1, <2>4, <3>1, <3>2, PaidTypes, AttemptPays
            DEF AttemptFails
  <2>5. CASE hmsg[h] = m /\ hanswered[h]
    <3>1. Potential(m)' \subseteq Potential(m)
      <4>1. ASSUME NEW a \in 1 .. Retries, <<h, a>> \in Potential(m)'
            PROVE  <<h, a>> \in Potential(m)
        BY <1>6, <2>1, <2>5, <4>1, BridgeAssumption
           DEF AttemptFails, RetryOr, Ends, Step, Potential, Slots, BridgeTypeOK
      <4> QED BY <2>3, <4>1 DEF Potential, Slots, Alone
    <3> QED BY <1>3, <1>6, <2>5, <3>1 DEF AttemptFails, Abandon, BridgeTypeOK
  <2>6. CASE hmsg[h] # m
    <3>1. Potential(m)' \subseteq Potential(m)
      BY <2>1, <2>3, <2>6, OthersPotential
    <3> QED BY <1>3, <1>6, <2>6, <3>1 DEF AttemptFails, Abandon, BridgeTypeOK
  <2> QED BY <2>4, <2>5, <2>6
<1>7. ASSUME NEW h \in Callbacks,
             \/ Reject(h) \/ Refuse(h) \/ StartAttempts(h) \/ Attempt(h)
             \/ AttemptRefused(h) \/ AttemptSucceeds(h) \/ Finish(h)
      PROVE  Paid(m)'
  <2>1. Potential(m)' \subseteq Potential(m)
    BY <1>7, CallbackPotential
  <2>2. UNCHANGED <<executed, abandoned, deliveries>>
    BY <1>7 DEF Reject, Refuse, StartAttempts, Attempt, AttemptRefused,
                AttemptSucceeds, Finish
  <2> QED BY <1>3, <2>1, <2>2
<1>8. ASSUME NEW n \in Messages, LateExecution(n) PROVE Paid(m)'
  <2>1. Potential(m)' = Potential(m) /\ UNCHANGED deliveries
    BY <1>8 DEF LateExecution, Potential
  <2>2. CASE m = n
    <3>1. /\ executed'[m] = executed[m] + 1
          /\ abandoned'[m] = abandoned[m] - 1
      BY <1>8, <2>2 DEF LateExecution, BridgeTypeOK
    <3>2. Spent(m)' = Spent(m) /\ Budget(m)' = Budget(m)
      BY <1>2, <2>1, <3>1, PaidTypes DEF Spent, Budget
    <3>3. Spent(m)' + Budget(m) <= Spent(m) + Budget(m)'
      BY <3>2, PaidTypes DEF Spent, Budget
    <3> QED BY <1>1, <1>2, <3>1, <3>3, PaidTypes, PaidKept
  <2>3. CASE m # n
    BY <1>3, <1>8, <2>1, <2>3 DEF LateExecution, BridgeTypeOK
  <2> QED BY <2>2, <2>3
<1>9. ASSUME \/ \E n \in Foreign, k \in ForeignKinds : ForeignPublish(n, k)
             \/ Tick
      PROVE  Paid(m)'
  BY <1>3, <1>9 DEF ForeignPublish, Tick, Potential
<1> QED BY <1>4, <1>5, <1>6, <1>7, <1>8, <1>9 DEF BridgeNext, Handle

-----------------------------------------------------------------------------
(* The handlers: the end of an item. *)

(* A request under way, and the item it is at. *)
LEMMA ItemFacts ==
  ASSUME TypeOK, HandlerSound, NEW c \in Requests, apc[c] \in Active
  PROVE  /\ input[c] \in Inputs /\ input[c] \in Input
         /\ Len(results[c]) \in Nat /\ idx[c] = Len(results[c]) + 1
         /\ Len(input[c].items) \in Nat
         /\ idx[c] \in 1 .. Len(input[c].items) /\ idx[c] \in 1 .. MaxItems
         /\ it(c) \in Item
         /\ msg(c) = <<c, idx[c]>> /\ msg(c) \in Own /\ msg(c) \in Messages
         /\ answer[c] = None
<1>1. input[c] \in Inputs /\ answer[c] = None
  BY DEF TypeOK, HandlerSound, Active
<1>2. /\ input[c] \in Input /\ input[c].items \in Seq(Item)
      /\ Len(input[c].items) \in Nat /\ Len(input[c].items) <= MaxItems
  BY <1>1, InputsAssumption DEF Input
<1>3. results[c] \in Seq(Result) /\ Len(results[c]) \in Nat
  BY DEF TypeOK
<1>4. /\ idx[c] = Len(results[c]) + 1 /\ idx[c] \in 1 .. Len(input[c].items)
      /\ idx[c] \in 1 .. MaxItems
  BY <1>2, <1>3, TransferAssumption DEF HandlerSound
<1>5. it(c) \in Item
  BY <1>2, <1>4 DEF it
<1> QED BY <1>1, <1>2, <1>3, <1>4, <1>5, MessageFacts DEF msg, Own

(* The variables of the other requests. *)
OnlyRequest(c) ==
  \A d \in Requests : d # c =>
    /\ input'[d] = input[d] /\ apc'[d] = apc[d] /\ idx'[d] = idx[d]
    /\ route'[d] = route[d] /\ dexec'[d] = dexec[d] /\ results'[d] = results[d]
    /\ accepted'[d] = accepted[d] /\ failed'[d] = failed[d] /\ answer'[d] = answer[d]

HandlerTypeOK ==
  /\ input \in [Requests -> Inputs \cup {None}]
  /\ apc \in [Requests -> {"new", "item", "direct", "send", "wait", "done"}]
  /\ idx \in [Requests -> 1 .. MaxItems + 1]
  /\ route \in [Requests -> Routes] /\ dexec \in [Requests -> BOOLEAN]
  /\ results \in [Requests -> Seq(Result)]
  /\ accepted \in [Requests -> Nat] /\ failed \in [Requests -> Nat]
  /\ answer \in [Requests -> Answer \cup {None}]

LEMMA AppendResult ==
  ASSUME NEW s \in Seq(Result), NEW r \in Result
  PROVE  /\ Append(s, r) \in Seq(Result)
         /\ Len(s) \in Nat
         /\ Len(Append(s, r)) = Len(s) + 1
         /\ \A i \in 1 .. Len(s) : Append(s, r)[i] = s[i]
         /\ Append(s, r)[Len(s) + 1] = r
  OBVIOUS

LEMMA EndItemType ==
  ASSUME TypeOK, HandlerSound, NEW c \in Requests, apc[c] \in Active,
         NEW r \in Result, EndItem(c, r)
  PROVE  HandlerTypeOK' /\ OnlyRequest(c)
<1>0. r.ok \in BOOLEAN /\ idx[c] \in 1 .. MaxItems
  BY ItemFacts DEF Result
<1>1. results' \in [Requests -> Seq(Result)]
  <2>1. results' = [results EXCEPT ![c] = Append(results[c], r)]
    BY DEF EndItem
  <2> QED BY <2>1, AppendResult DEF TypeOK
<1>2. /\ accepted' \in [Requests -> Nat] /\ failed' \in [Requests -> Nat]
      /\ route' \in [Requests -> Routes] /\ dexec' \in [Requests -> BOOLEAN]
      /\ input' \in [Requests -> Inputs \cup {None}]
      /\ apc' \in [Requests -> {"new", "item", "direct", "send", "wait", "done"}]
  <2>1. /\ accepted' = [accepted EXCEPT ![c] = IF r.ok THEN accepted[c] + 1 ELSE accepted[c]]
        /\ failed' = [failed EXCEPT ![c] = IF r.ok THEN failed[c] ELSE failed[c] + 1]
    BY DEF EndItem
  <2>2. accepted' \in [Requests -> Nat] /\ failed' \in [Requests -> Nat]
    BY <1>0, <2>1 DEF TypeOK
  <2>3. \/ apc' = [apc EXCEPT ![c] = "done"] \/ apc' = [apc EXCEPT ![c] = "item"]
    BY DEF EndItem
  <2> QED BY <2>2, <2>3 DEF EndItem, TypeOK, Routes
<1>3. idx' \in [Requests -> 1 .. MaxItems + 1]
  <2>1. idx' = [idx EXCEPT ![c] = idx[c] + 1]
    BY DEF EndItem
  <2> QED BY <1>0, <2>1, TransferAssumption DEF TypeOK
<1>4. answer' \in [Requests -> Answer \cup {None}]
  <2>1. \A a, f : BatchAnswer(a, f) \in Answer
    BY DEF BatchAnswer, Answer, Codes
  <2>2. [code |-> r.code, status |-> ""] \in Answer
    BY DEF Result, Answer
  <2>3. \/ answer' = answer
        \/ \E a \in Answer : answer' = [answer EXCEPT ![c] = a]
    <3>1. CASE idx[c] = Len(input[c].items) /\ input[c].mode = "batch"
      BY <2>1, <3>1 DEF EndItem
    <3>2. CASE idx[c] = Len(input[c].items) /\ input[c].mode # "batch"
      BY <2>2, <3>2 DEF EndItem
    <3> QED BY <3>1, <3>2 DEF EndItem
  <2> QED BY <2>3 DEF TypeOK
<1>5. OnlyRequest(c)
  BY DEF EndItem, TypeOK, OnlyRequest
<1> QED BY <1>1, <1>2, <1>3, <1>4, <1>5 DEF HandlerTypeOK

(* The fields of the request whose item ends. *)
LEMMA EndItemFields ==
  ASSUME TypeOK, HandlerSound, NEW c \in Requests, apc[c] \in Active,
         NEW r \in Result, EndItem(c, r)
  PROVE  /\ results'[c] = Append(results[c], r)
         /\ Len(results'[c]) = Len(results[c]) + 1
         /\ \A i \in 1 .. Len(results[c]) : results'[c][i] = results[c][i]
         /\ results'[c][idx[c]] = r
         /\ idx'[c] = Len(results'[c]) + 1
         /\ input'[c] = input[c] /\ route'[c] = "broker" /\ dexec'[c] = FALSE
         /\ apc'[c] = IF Len(results'[c]) = Len(input[c].items) THEN "done" ELSE "item"
         /\ answer'[c] = IF Len(results'[c]) = Len(input[c].items)
                         THEN IF input[c].mode = "batch"
                              THEN BatchAnswer(accepted'[c], failed'[c])
                              ELSE [code |-> r.code, status |-> ""]
                         ELSE None
         /\ accepted'[c] = accepted[c] + (IF r.ok THEN 1 ELSE 0)
         /\ failed'[c] = failed[c] + (IF r.ok THEN 0 ELSE 1)
<1>1. results[c] \in Seq(Result) /\ accepted[c] \in Nat /\ failed[c] \in Nat
  BY DEF TypeOK
<1>2. results'[c] = Append(results[c], r) /\ idx'[c] = idx[c] + 1
  BY DEF EndItem, TypeOK
<1>3. /\ Len(results'[c]) = Len(results[c]) + 1
      /\ \A i \in 1 .. Len(results[c]) : results'[c][i] = results[c][i]
      /\ results'[c][Len(results[c]) + 1] = r
  BY <1>1, <1>2, AppendResult
<1>4. /\ input'[c] = input[c] /\ route'[c] = "broker" /\ dexec'[c] = FALSE
      /\ accepted'[c] = accepted[c] + (IF r.ok THEN 1 ELSE 0)
      /\ failed'[c] = failed[c] + (IF r.ok THEN 0 ELSE 1)
  <2>1. r.ok \in BOOLEAN
    BY DEF Result
  <2>2. /\ accepted' = [accepted EXCEPT ![c] = IF r.ok THEN accepted[c] + 1 ELSE accepted[c]]
        /\ failed' = [failed EXCEPT ![c] = IF r.ok THEN failed[c] ELSE failed[c] + 1]
    BY DEF EndItem
  <2>3. /\ accepted'[c] = accepted[c] + (IF r.ok THEN 1 ELSE 0)
        /\ failed'[c] = failed[c] + (IF r.ok THEN 0 ELSE 1)
    BY <1>1, <2>1, <2>2 DEF TypeOK
  <2> QED BY <2>3 DEF EndItem, TypeOK
<1>5. idx[c] = Len(results'[c]) /\ answer[c] = None
  BY <1>3, ItemFacts
<1>6. /\ apc'[c] = IF idx[c] = Len(input[c].items) THEN "done" ELSE "item"
      /\ answer'[c] = IF idx[c] = Len(input[c].items)
                      THEN IF input[c].mode = "batch"
                           THEN BatchAnswer(accepted'[c], failed'[c])
                           ELSE [code |-> r.code, status |-> ""]
                      ELSE None
  BY <1>5 DEF EndItem, TypeOK
<1> QED BY <1>2, <1>3, <1>4, <1>5, <1>6, ItemFacts

LEMMA EndItemHandler ==
  ASSUME TypeOK, HandlerSound, NEW c \in Requests, apc[c] \in Active,
         NEW r \in Result, EndItem(c, r)
  PROVE  HandlerSound'
<1> DEFINE OK(d) ==
      /\ idx[d] = Len(results[d]) + 1
      /\ apc[d] = "new" <=> input[d] = None
      /\ apc[d] = "new" => results[d] = <<>>
      /\ apc[d] \in Active => Len(results[d]) < Len(input[d].items)
      /\ apc[d] = "done" => Len(results[d]) = Len(input[d].items)
      /\ apc[d] = "done" <=> answer[d] # None
      /\ apc[d] = "direct" <=> route[d] = "direct"
      /\ apc[d] = "wait" => Sync(d)
<1>1. ASSUME NEW d \in Requests, d # c PROVE OK(d)'
  <2>1. OK(d)
    BY DEF HandlerSound
  <2> QED BY <1>1, <2>1, EndItemType DEF OnlyRequest, Sync
<1>2. OK(c)'
  <2>1. /\ input'[c] = input[c] /\ input[c] # None /\ route'[c] = "broker"
        /\ idx'[c] = Len(results'[c]) + 1
        /\ Len(results'[c]) = idx[c] /\ idx[c] \in 1 .. Len(input[c].items)
        /\ Len(input[c].items) \in Nat
    BY EndItemFields, ItemFacts DEF HandlerSound, Active
  <2>2. CASE Len(results'[c]) = Len(input[c].items)
    <3>1. apc'[c] = "done" /\ answer'[c] # None
      <4>1. \A a, f : BatchAnswer(a, f) \in Answer
        BY DEF BatchAnswer, Answer, Codes
      <4>2. [code |-> r.code, status |-> ""] \in Answer
        BY DEF Result, Answer
      <4>3. /\ apc'[c] = "done"
            /\ \/ answer'[c] = BatchAnswer(accepted'[c], failed'[c])
               \/ answer'[c] = [code |-> r.code, status |-> ""]
        BY <2>2, EndItemFields
      <4> QED BY <4>1, <4>2, <4>3, NoneAssumption
    <3> QED BY <2>1, <2>2, <3>1 DEF Active
  <2>3. CASE Len(results'[c]) # Len(input[c].items)
    <3>1. apc'[c] = "item" /\ answer'[c] = None
      BY <2>3, EndItemFields
    <3> QED BY <2>1, <2>3, <3>1 DEF Active
  <2> QED BY <2>2, <2>3
<1> QED BY <1>1, <1>2 DEF HandlerSound

(* What the results of a batch add up to. *)
LEMMA EndItemCounted ==
  ASSUME TypeOK, HandlerSound, Counted, NEW c \in Requests, apc[c] \in Active,
         NEW r \in Result, EndItem(c, r)
  PROVE  Counted'
<1> DEFINE OK(d) ==
      /\ accepted[d] = Cardinality(Oks(d))
      /\ accepted[d] + failed[d] = Len(results[d])
<1>1. ASSUME NEW d \in Requests, d # c PROVE OK(d)'
  <2>1. OK(d)
    BY DEF Counted
  <2> QED BY <1>1, <2>1, EndItemType DEF OnlyRequest, Oks
<1>2. OK(c)'
  <2>1. /\ accepted[c] = Cardinality(Oks(c))
        /\ accepted[c] + failed[c] = Len(results[c])
        /\ accepted[c] \in Nat /\ failed[c] \in Nat /\ Len(results[c]) \in Nat
        /\ r.ok \in BOOLEAN
    BY ItemFacts DEF Counted, TypeOK, Result
  <2>2. IsFiniteSet(Oks(c)) /\ idx[c] \notin Oks(c)
    <3>1. Len(results[c]) \in Int
      BY <2>1
    <3>2. IsFiniteSet(1 .. Len(results[c]))
      BY <3>1, FS_Interval
    <3> QED BY <3>2, FS_Subset, ItemFacts DEF Oks
  <2>3. Oks(c)' = IF r.ok THEN Oks(c) \cup {idx[c]} ELSE Oks(c)
    <3>1. /\ Len(results'[c]) = Len(results[c]) + 1 /\ idx[c] = Len(results[c]) + 1
          /\ \A i \in 1 .. Len(results[c]) : results'[c][i] = results[c][i]
          /\ results'[c][idx[c]] = r /\ Len(results[c]) \in Nat
      BY EndItemFields, ItemFacts
    <3>2. 1 .. Len(results'[c]) = (1 .. Len(results[c])) \cup {idx[c]}
      BY <3>1
    <3>3. Oks(c)' = {i \in 1 .. Len(results'[c]) : results'[c][i].ok}
      BY DEF Oks
    <3>4. CASE r.ok
      BY <3>1, <3>2, <3>3, <3>4, Zenon DEF Oks
    <3>5. CASE ~r.ok
      BY <3>1, <3>2, <3>3, <3>5, Zenon DEF Oks
    <3> QED BY <3>4, <3>5, Zenon
  <2>4. Cardinality(Oks(c)') = accepted[c] + (IF r.ok THEN 1 ELSE 0)
    <3>1. CASE r.ok
      <4>1. Oks(c)' = Oks(c) \cup {idx[c]}
        BY <2>3, <3>1
      <4>2. Cardinality(Oks(c) \cup {idx[c]}) = Cardinality(Oks(c)) + 1
        BY <2>2, FS_AddElement
      <4> QED BY <2>1, <3>1, <4>1, <4>2
    <3>2. CASE ~r.ok
      BY <2>1, <2>3, <3>2
    <3> QED BY <2>1, <3>1, <3>2
  <2>5. /\ accepted'[c] = accepted[c] + (IF r.ok THEN 1 ELSE 0)
        /\ failed'[c] = failed[c] + (IF r.ok THEN 0 ELSE 1)
        /\ Len(results'[c]) = Len(results[c]) + 1
    BY EndItemFields
  <2>6. accepted'[c] + failed'[c] = Len(results'[c])
    <3>1. CASE r.ok
      BY <2>1, <2>5, <3>1
    <3>2. CASE ~r.ok
      BY <2>1, <2>5, <3>2
    <3> QED BY <2>1, <3>1, <3>2, Zenon
  <2>7. Cardinality(Oks(c)') = accepted'[c]
    <3>1. accepted'[c] = accepted[c] + (IF r.ok THEN 1 ELSE 0)
      BY <2>5
    <3> QED BY <2>4, <3>1
  <2> QED BY <2>6, <2>7, Zenon
<1> QED BY <1>1, <1>2 DEF Counted

LEMMA AnswerCode ==
  ASSUME NEW a, NEW k, a = [code |-> k, status |-> ""]
  PROVE  a.code = k
  OBVIOUS

LEMMA EndItemAnswer ==
  ASSUME TypeOK, HandlerSound, Counted, AnswerSound, NEW c \in Requests,
         apc[c] \in Active, NEW r \in Result, EndItem(c, r)
  PROVE  AnswerSound'
<1> DEFINE OK(d) ==
      answer[d] # None =>
        IF input[d].mode = "batch"
        THEN /\ answer[d].code \in {202, 400}
             /\ answer[d].code = 202 <=> accepted[d] > 0
             /\ answer[d].status = "ok" <=> accepted[d] > 0 /\ failed[d] = 0
        ELSE answer[d].code = results[d][1].code
<1>1. ASSUME NEW d \in Requests, d # c PROVE OK(d)'
  <2>1. OK(d)
    BY DEF AnswerSound
  <2> QED BY <1>1, <2>1, EndItemType DEF OnlyRequest
<1>2. OK(c)'
  <2>1. accepted'[c] \in Nat /\ failed'[c] \in Nat
    BY EndItemType DEF HandlerTypeOK
  <2>2. input'[c] = input[c]
    BY EndItemFields
  <2>3. CASE answer'[c] # None /\ input[c].mode = "batch"
    <3>1. answer'[c] = BatchAnswer(accepted'[c], failed'[c])
      BY <2>3, EndItemFields
    <3> QED BY <2>1, <2>2, <2>3, <3>1 DEF BatchAnswer
  <2>4. CASE answer'[c] # None /\ input[c].mode # "batch"
    <3>1. answer'[c].code = r.code /\ idx[c] = 1 /\ results'[c][idx[c]] = r
      <4>1. Len(input[c].items) = 1
        BY <2>4, ItemFacts, InputsAssumption
      <4>2. answer'[c] = IF Len(results'[c]) = Len(input[c].items)
                         THEN IF input[c].mode = "batch"
                              THEN BatchAnswer(accepted'[c], failed'[c])
                              ELSE [code |-> r.code, status |-> ""]
                         ELSE None
        BY EndItemFields
      <4>3. answer'[c] = [code |-> r.code, status |-> ""]
        BY <2>4, <4>2
      <4>4. results'[c][idx[c]] = r
        BY EndItemFields
      <4>5. idx[c] \in 1 .. Len(input[c].items)
        BY ItemFacts
      <4>6. idx[c] = 1
        BY <4>1, <4>5
      <4>7. answer'[c].code = r.code
        BY <4>3, AnswerCode, Zenon
      <4> QED BY <4>4, <4>6, <4>7
    <3> QED BY <2>2, <2>4, <3>1
  <2> QED BY <2>3, <2>4
<1> QED BY <1>1, <1>2 DEF AnswerSound

-----------------------------------------------------------------------------
(* The handlers: what a step of a request does to the rest. *)

(* A step of request c, which is under way, touches the message of its     *)
(* current item alone and no callback.                                     *)
Moves(c) ==
  /\ UNCHANGED <<deliveries, handlerVars, breakerVars, now>>
  /\ published \subseteq published' /\ published' \subseteq published \cup {msg(c)}
  /\ directly \subseteq directly' /\ directly' \subseteq directly \cup {msg(c)}
  /\ \A m \in Messages : m # msg(c) =>
       sent'[m] = sent[m] /\ executed'[m] = executed[m] /\ abandoned'[m] = abandoned[m]
  /\ OnlyRequest(c)
  /\ idx'[c] = idx[c] \/ apc'[c] \in {"item", "done"}
  /\ Grows

LEMMA MovesBridge ==
  ASSUME BridgeTypeOK, BridgeTypeOK', BridgeSound, Shielded, Grows,
         UNCHANGED <<deliveries, handlerVars, breakerVars, now>>,
         AnswersGenuine'
  PROVE  BridgeSound' /\ Shielded'
<1>1. CallbackSound'
  BY CallbackFrame DEF BridgeSound, CallbackSound, handlerVars
<1>2. UnsentUndelivered'
  BY DEF BridgeSound, UnsentUndelivered, Grows
<1>3. Shielded'
  BY ShieldedFrame DEF handlerVars, BridgeTypeOK
<1> QED BY <1>1, <1>2, <1>3 DEF BridgeSound

(* The other requests, and the items c has done with. *)
LEMMA OtherPaths ==
  ASSUME TypeOK, BridgeTypeOK', HandlerSound, PathSound, NEW c \in Requests,
         Moves(c), NEW d \in Requests, d # c
  PROVE  PathOK(d)'
<1>1. PathOK(d)
  BY DEF PathSound
<1>2. /\ apc'[d] = apc[d] /\ idx'[d] = idx[d] /\ results'[d] = results[d]
      /\ dexec'[d] = dexec[d] /\ input'[d] = input[d]
  BY DEF Moves, OnlyRequest
<1>3. \A i : <<d, i>> # msg(c)
  BY DEF msg
<1>4. \A i : /\ <<d, i>> \in published' <=> <<d, i>> \in published
             /\ <<d, i>> \in directly' <=> <<d, i>> \in directly
             /\ <<d, i>> \in Messages => /\ sent'[<<d, i>>] = sent[<<d, i>>]
                                         /\ executed'[<<d, i>>] = executed[<<d, i>>]
  BY <1>3 DEF Moves
<1>5. apc[d] \in {"direct", "send", "wait"} => <<d, idx[d]>> \in Messages
  BY ItemFacts DEF Active
<1>6. \A i \in 1 .. MaxItems : <<d, i>> \in published' \cup directly' =>
         \/ i <= Len(results'[d])
         \/ i = idx'[d] /\ apc'[d] \in {"direct", "send", "wait"}
  BY <1>1, <1>2, <1>4 DEF PathOK
<1> QED BY <1>1, <1>2, <1>4, <1>5, <1>6 DEF PathOK, msg, it

(* The results noted before a step still tell what happened. *)
LEMMA ResultsKept ==
  ASSUME TypeOK, BridgeTypeOK', HandlerSound, ResultsSound, NEW c \in Requests,
         apc[c] \in Active, Moves(c),
         NEW d \in Requests, NEW i \in 1 .. Len(results[d]),
         results'[d][i] = results[d][i]
  PROVE  ResultSound(d, i, results[d][i])'
<1> DEFINE r == results[d][i]
<1>1. results[d] \in Seq(Result) /\ r \in Result /\ Len(results[d]) \in Nat
  BY DEF TypeOK
<1>2. i \in 1 .. MaxItems
  BY <1>1, TransferAssumption DEF TypeOK, HandlerSound
<1>3. <<d, i>> # msg(c)
  BY <1>1 DEF HandlerSound, msg
<1>4. ResultSound(d, i, r)
  BY DEF ResultsSound
<1>5. /\ <<d, i>> \in published' <=> <<d, i>> \in published
      /\ <<d, i>> \in directly => <<d, i>> \in directly'
      /\ Grows
  BY <1>3 DEF Moves
<1>6. <<d, i>> \in Messages
  BY <1>2, MessageFacts DEF Own
<1>7. executed[<<d, i>>] > 0 => executed'[<<d, i>>] > 0
  <2>1. executed \in [Messages -> Nat] /\ executed' \in [Messages -> Nat]
    BY DEF TypeOK, BridgeTypeOK
  <2>2. executed'[<<d, i>>] >= executed[<<d, i>>]
    BY <1>5, <1>6 DEF Grows
  <2> QED BY <1>6, <2>1, <2>2
<1> QED BY <1>4, <1>5, <1>7 DEF ResultSound, Grows

LEMMA SameResults ==
  ASSUME TypeOK, BridgeTypeOK', HandlerSound, ResultsSound, NEW c \in Requests,
         apc[c] \in Active, Moves(c), UNCHANGED results
  PROVE  ResultsSound'
  BY ResultsKept DEF ResultsSound

-----------------------------------------------------------------------------
(* The messages of the other requests are as well paid for as before. *)
LEMMA OthersPaid ==
  ASSUME TypeOK, BridgeTypeOK', AllPaid, NEW c \in Requests, Moves(c),
         NEW m \in Messages, m # msg(c)
  PROVE  Paid(m)'
<1>1. BridgeTypeOK /\ Paid(m)
  BY DEF TypeOK, AllPaid
<1>2. /\ executed'[m] = executed[m] /\ abandoned'[m] = abandoned[m]
      /\ deliveries'[m] = deliveries[m] /\ sent'[m] = sent[m]
      /\ m \in published' <=> m \in published
      /\ m \in directly' <=> m \in directly
  BY DEF Moves
<1>3. Potential(m)' = Potential(m)
  BY DEF Potential, Moves, handlerVars
<1>4. Due(m)' <= Due(m)
  <2>1. SUFFICES ASSUME NEW d \in Requests, apc'[d] = "direct", ~dexec'[d], msg(d)' = m
                 PROVE  \E e \in Requests : apc[e] = "direct" /\ ~dexec[e] /\ msg(e) = m
    BY DEF Due
  <2>2. CASE d = c
    BY <2>1, <2>2 DEF Moves, msg
  <2>3. CASE d # c
    BY <2>1, <2>3 DEF Moves, OnlyRequest, msg
  <2> QED BY <2>2, <2>3
<1>5. Direct(m)' = Direct(m) /\ Elsewhere(m)' = Elsewhere(m)
  BY <1>2 DEF Direct, Elsewhere
<1>6. Direct(m) \in {0, 1} /\ Elsewhere(m) \in {0, 1}
  BY DEF Direct, Elsewhere
<1>7. Potential(m)' \subseteq Potential(m)
  BY <1>3
<1>8. Direct(m) <= Direct(m)' /\ Elsewhere(m) <= Elsewhere(m)'
  BY <1>5, <1>6
<1> QED BY <1>1, <1>2, <1>4, <1>7, <1>8, PaidFrame
-----------------------------------------------------------------------------
(* The handlers: a step that ends an item. *)

LEMMA EndItemPath ==
  ASSUME TypeOK, BridgeTypeOK', FlowInv, NEW c \in Requests, apc[c] \in Active,
         NEW r \in Result, EndItem(c, r), Moves(c),
         sent'[msg(c)] # None => msg(c) \in published'
  PROVE  PathSound'
<1>1. HandlerSound /\ PathSound /\ BridgeTypeOK
  BY DEF FlowInv, TypeOK
<1>2. msg(c) = <<c, idx[c]>> /\ msg(c) \in Own /\ msg(c) \in Messages
  BY <1>1, ItemFacts
<1>3. published' \cup directly' \subseteq Own
  BY <1>1, <1>2 DEF PathSound, Moves
<1>4. \A m \in Own : sent'[m] # None => m \in published'
  BY <1>1, <1>2, MessageFacts DEF PathSound, Moves
<1>5. PathOK(c)'
  <2>1. /\ Len(results'[c]) = idx[c] /\ apc'[c] \in {"item", "done"} /\ dexec'[c] = FALSE
        /\ Len(results[c]) \in Nat /\ idx[c] = Len(results[c]) + 1
    BY <1>1, EndItemFields, ItemFacts
  <2>2. ASSUME NEW i \in 1 .. MaxItems, <<c, i>> \in published' \cup directly'
        PROVE  i <= Len(results'[c])
    <3>1. CASE i = idx[c]
      BY <2>1, <3>1
    <3>2. CASE i # idx[c]
      <4>1. <<c, i>> \in published \cup directly
        BY <1>2, <2>2, <3>2 DEF Moves
      <4>2. i <= Len(results[c])
        BY <1>1, <3>2, <4>1 DEF PathSound, PathOK
      <4> QED BY <2>1, <4>2
    <3> QED BY <3>1, <3>2
  <2> QED BY <2>1, <2>2 DEF PathOK
<1>6. ASSUME NEW d \in Requests, d # c PROVE PathOK(d)'
  BY <1>1, <1>6, OtherPaths
<1> QED BY <1>3, <1>4, <1>5, <1>6 DEF PathSound

LEMMA EndItemResults ==
  ASSUME TypeOK, BridgeTypeOK', FlowInv, NEW c \in Requests, apc[c] \in Active,
         NEW r \in Result, EndItem(c, r), Moves(c),
         NEW i, i = idx[c], ResultSound(c, i, r)'
  PROVE  ResultsSound'
<1>1. HandlerSound /\ ResultsSound
  BY DEF FlowInv
<1>2. SUFFICES ASSUME NEW d \in Requests, NEW j \in 1 .. Len(results'[d])
               PROVE  ResultSound(d, j, results[d][j])'
  BY DEF ResultsSound
<1>3. CASE d # c
  <2>1. results'[d] = results[d]
    BY <1>3 DEF Moves, OnlyRequest
  <2> QED BY <1>1, <1>2, <2>1, ResultsKept
<1>4. CASE d = c
  <2>1. /\ Len(results'[c]) = idx[c] /\ idx[c] = Len(results[c]) + 1
        /\ Len(results[c]) \in Nat /\ results'[c][idx[c]] = r
        /\ \A k \in 1 .. Len(results[c]) : results'[c][k] = results[c][k]
    BY <1>1, EndItemFields, ItemFacts
  <2>2. CASE j = i
    <3>1. results'[d][j] = r
      BY <1>4, <2>1, <2>2
    <3> QED BY <1>4, <2>2, <3>1 DEF ResultSound
  <2>3. CASE j # i
    <3>1. j \in 1 .. Len(results[d]) /\ results'[d][j] = results[d][j]
      BY <1>2, <1>4, <2>1, <2>3
    <3> QED BY <1>1, <3>1, ResultsKept
  <2> QED BY <2>2, <2>3
<1> QED BY <1>3, <1>4

(* The item costs nothing more. *)
LEMMA EndItemPays ==
  ASSUME TypeOK, BridgeTypeOK', FlowInv, AllPaid, NEW c \in Requests,
         apc[c] \in Active, NEW r \in Result, EndItem(c, r), Moves(c),
         UNCHANGED <<executed, abandoned>>,
         Elsewhere(msg(c)) <= IF msg(c) \in published' /\ sent'[msg(c)] = None THEN 1 ELSE 0
  PROVE  AllPaid'
<1>1. HandlerSound /\ BridgeTypeOK
  BY DEF FlowInv, TypeOK
<1>2. SUFFICES ASSUME NEW m \in Messages, m = msg(c) PROVE Paid(m)'
  BY OthersPaid DEF AllPaid
<1>3. Paid(m)
  BY DEF AllPaid
<1>4. Potential(m)' = Potential(m)
  BY DEF Potential, Moves, handlerVars
<1>5. Due(m)' = 0
  <2>1. apc'[c] \in {"item", "done"}
    BY <1>1, EndItemFields
  <2>2. \A d \in Requests : apc'[d] = "direct" => msg(d)' # m
    BY <1>2, <2>1 DEF msg
  <2> QED BY <2>2 DEF Due
<1>6. Direct(m) <= Direct(m)'
  BY DEF Direct, Moves
<1>7. Elsewhere(m) <= Elsewhere(m)'
  BY <1>2 DEF Elsewhere
<1>8. Due(m)' <= Due(m)
  BY <1>5 DEF Due
<1>9. /\ executed'[m] = executed[m] /\ abandoned'[m] = abandoned[m]
      /\ deliveries'[m] = deliveries[m] /\ Potential(m)' \subseteq Potential(m)
  BY <1>4 DEF Moves
<1> QED BY <1>1, <1>3, <1>6, <1>7, <1>8, <1>9, PaidFrame
-----------------------------------------------------------------------------
(* Publishing. *)

LEMMA PublishMoves ==
  ASSUME TypeOK, FlowInv, NEW c \in Requests, apc[c] = "send", Publish(c)
  PROVE  /\ BridgeTypeOK' /\ Grows /\ UNCHANGED <<executed, abandoned, replies>>
         /\ \A m \in Messages : m # msg(c) => sent'[m] = sent[m]
         /\ msg(c) \in published' /\ msg(c) \notin published
         /\ it(c).resource # "bridge" => sent'[msg(c)] = None
         /\ Elsewhere(msg(c)) = 0
<1>1. HandlerSound /\ PathSound /\ BridgeTypeOK /\ PathOK(c)
  BY DEF FlowInv, PathSound, TypeOK
<1>2. /\ msg(c) \in Own /\ msg(c) \in Messages /\ it(c) \in Item /\ input[c] \in Input
  BY <1>1, ItemFacts DEF Active
<1>3. msg(c) \notin published /\ sent[msg(c)] = None
  BY <1>1, <1>2 DEF PathSound, PathOK
<1>4. [sync |-> Sync(c), class |-> it(c).class] \in Kinds
  <2>1. Sync(c) \in BOOLEAN
    BY DEF Sync
  <2>2. it(c).class \in {"invalid", "unbuildable", "plain"}
    BY <1>2 DEF Item
  <2> QED BY <2>1, <2>2 DEF Kinds
<1>5. \/ sent' = sent /\ it(c).resource # "bridge"
      \/ it(c).resource = "bridge" /\ \E k \in Kinds : sent' = [sent EXCEPT ![msg(c)] = k]
  BY <1>4 DEF Publish
<1>6. UNCHANGED <<executed, abandoned, replies, deliveries, dead, now, cbFails, cbOpenUntil,
                  openAttempts, hpc, hmsg, hattempt, hanswered, houtcome>>
  BY DEF Publish, handlerVars, breakerVars, targetVars
<1>7. sent' \in [Messages -> Kinds \cup {None}]
  BY <1>1, <1>2, <1>5 DEF BridgeTypeOK
<1>8. BridgeTypeOK'
  BY <1>1, <1>6, <1>7 DEF BridgeTypeOK
<1>9. /\ \A m \in Messages : m # msg(c) => sent'[m] = sent[m]
      /\ it(c).resource # "bridge" => sent'[msg(c)] = None
      /\ \A m \in Messages : sent[m] # None => sent'[m] = sent[m]
  BY <1>1, <1>2, <1>3, <1>5 DEF BridgeTypeOK
<1>10. Grows
  <2>1. \A m \in Messages : executed'[m] >= executed[m]
    BY <1>1, <1>6 DEF BridgeTypeOK
  <2> QED BY <1>6, <1>9, <2>1 DEF Grows
<1>11. Elsewhere(msg(c)) = 0
  BY <1>3 DEF Elsewhere
<1>12. msg(c) \in published'
  BY DEF Publish
<1> QED BY <1>3, <1>6, <1>8, <1>9, <1>10, <1>11, <1>12

(* The parts of the invariant that the bridge does not share. *)
LEMMA TypeParts ==
  /\ TypeOK <=> /\ BridgeTypeOK /\ HandlerTypeOK /\ gone \subseteq Requests
                /\ published \subseteq Messages /\ directly \subseteq Messages
  /\ TypeOK' <=> /\ BridgeTypeOK' /\ HandlerTypeOK' /\ gone' \subseteq Requests
                 /\ published' \subseteq Messages /\ directly' \subseteq Messages
  BY DEF TypeOK, HandlerTypeOK

LEMMA PathTypes ==
  ASSUME PathSound'
  PROVE  published' \subseteq Messages /\ directly' \subseteq Messages
  BY MessageFacts DEF PathSound

(* An item ends with a result that tells what happened to it. *)
LEMMA ItemEnds ==
  ASSUME IInv, NEW c \in Requests, apc[c] \in Active, NEW r \in Result, EndItem(c, r),
         \/ UNCHANGED <<bridgeVars, gone, history>>
         \/ apc[c] = "send" /\ Publish(c),
         NEW i, i = idx[c], ResultSound(c, i, r)'
  PROVE  IInv'
<1>1. /\ TypeOK /\ BridgeSound /\ Shielded /\ FlowInv /\ Counted /\ AnswerSound /\ AllPaid
      /\ BridgeTypeOK /\ HandlerSound /\ PathSound /\ AnswersGenuine
  BY DEF IInv, TypeOK, FlowInv, BridgeSound
<1>2. msg(c) \in Own /\ msg(c) \in Messages
  BY <1>1, ItemFacts
<1>3. HandlerTypeOK' /\ OnlyRequest(c) /\ apc'[c] \in {"item", "done"}
  BY <1>1, EndItemType, EndItemFields
<1>4. /\ BridgeTypeOK' /\ Moves(c) /\ UNCHANGED <<executed, abandoned, replies, gone>>
      /\ sent'[msg(c)] # None => msg(c) \in published'
      /\ Elsewhere(msg(c)) <= IF msg(c) \in published' /\ sent'[msg(c)] = None THEN 1 ELSE 0
  <2>1. CASE UNCHANGED <<bridgeVars, gone, history>>
    <3>1. UNCHANGED <<executed, abandoned, replies, gone, sent, deliveries, dead, now,
                      cbFails, cbOpenUntil, openAttempts, hpc, hmsg, hattempt, hanswered,
                      houtcome, published, directly>>
      BY <2>1 DEF bridgeVars, handlerVars, breakerVars, targetVars, history
    <3>2. BridgeTypeOK'
      BY <1>1, <3>1 DEF BridgeTypeOK
    <3>3. Grows
      BY <1>1, <3>1 DEF Grows, BridgeTypeOK
    <3>4. Moves(c)
      BY <1>3, <3>1, <3>3 DEF Moves, handlerVars, breakerVars
    <3>5. sent'[msg(c)] # None => msg(c) \in published'
      BY <1>1, <1>2, <3>1 DEF PathSound
    <3>6. Elsewhere(msg(c)) <= IF msg(c) \in published' /\ sent'[msg(c)] = None THEN 1 ELSE 0
      BY <3>1 DEF Elsewhere
    <3> QED BY <3>1, <3>2, <3>4, <3>5, <3>6
  <2>2. CASE apc[c] = "send" /\ Publish(c)
    <3>1. /\ BridgeTypeOK' /\ Grows /\ UNCHANGED <<executed, abandoned, replies>>
          /\ \A m \in Messages : m # msg(c) => sent'[m] = sent[m]
          /\ msg(c) \in published' /\ Elsewhere(msg(c)) = 0
      BY <1>1, <2>2, PublishMoves
    <3>2. /\ UNCHANGED <<deliveries, handlerVars, breakerVars, now, gone, directly>>
          /\ published' = published \cup {msg(c)}
      BY <2>2 DEF Publish
    <3>3. Moves(c)
      BY <1>3, <3>1, <3>2 DEF Moves
    <3>4. Elsewhere(msg(c)) <= IF msg(c) \in published' /\ sent'[msg(c)] = None THEN 1 ELSE 0
      BY <3>1
    <3> QED BY <3>1, <3>2, <3>3, <3>4
  <2> QED BY <2>1, <2>2
<1>5. AnswersGenuine'
  BY <1>1, <1>4, AnswersFrame DEF Moves
<1>6. BridgeSound' /\ Shielded'
  BY <1>1, <1>4, <1>5, MovesBridge DEF Moves
<1>7. FlowInv'
  <2>1. HandlerSound'
    BY <1>1, EndItemHandler
  <2>2. PathSound'
    BY <1>1, <1>4, EndItemPath
  <2>3. ResultsSound'
    BY <1>1, <1>4, EndItemResults
  <2> QED BY <2>1, <2>2, <2>3 DEF FlowInv
<1>8. Counted' /\ AnswerSound'
  BY <1>1, EndItemCounted, EndItemAnswer
<1>9. AllPaid'
  BY <1>1, <1>4, EndItemPays
<1>10. TypeOK'
  <2>1. gone' \subseteq Requests
    BY <1>1, <1>4 DEF TypeOK
  <2>2. published' \subseteq Messages /\ directly' \subseteq Messages
    BY <1>7, PathTypes DEF FlowInv
  <2> QED BY <1>3, <1>4, <2>1, <2>2, TypeParts
<1> QED BY <1>6, <1>7, <1>8, <1>9, <1>10 DEF IInv
-----------------------------------------------------------------------------
(* The steps that end an item. *)

LEMMA FailureSound ==
  ASSUME IInv, NEW c \in Requests, apc[c] \in Active, NEW code \in Codes, Fails(c, code),
         \/ UNCHANGED <<bridgeVars, gone, history>>
         \/ apc[c] = "send" /\ Publish(c),
         code \notin {200, 400, 403} \/ (code # 200 /\ msg(c) \notin published')
  PROVE  IInv'
<1> DEFINE r == [ok |-> FALSE, code |-> code, route |-> route[c]]
           i == idx[c]
<1>1. TypeOK /\ HandlerSound
  BY DEF IInv, FlowInv
<1>2. route[c] \in Routes
  BY <1>1 DEF TypeOK
<1>3. r \in Result /\ r.ok = FALSE /\ r.code = code
  BY <1>2 DEF Result
<1>4. EndItem(c, r)
  BY DEF Fails
<1>5. msg(c) = <<c, i>>
  BY DEF msg
<1> HIDE DEF r, i
<1>6. PICK k : k = i
  OBVIOUS
<1>7. PICK q \in Result : q = r
  BY <1>3
<1>8. ResultSound(c, k, q)'
  BY <1>3, <1>5, <1>6, <1>7 DEF ResultSound
<1> QED BY <1>3, <1>4, <1>6, <1>7, <1>8, ItemEnds DEF i

LEMMA SuccessSound ==
  ASSUME IInv, NEW c \in Requests, apc[c] \in Active, Succeeds(c),
         \/ UNCHANGED <<bridgeVars, gone, history>>
         \/ apc[c] = "send" /\ Publish(c),
         route[c] = "direct" =>
           executed'[msg(c)] > 0 /\ msg(c) \notin published' /\ msg(c) \in directly',
         route[c] = "broker" =>
           /\ msg(c) \in published'
           /\ Sync(c) => \E q \in replies' : q.msg = msg(c)
  PROVE  IInv'
<1> DEFINE r == [ok |-> TRUE, code |-> IF Sync(c) THEN 200 ELSE 202, route |-> route[c]]
           i == idx[c]
<1>1. TypeOK /\ HandlerSound
  BY DEF IInv, FlowInv
<1>2. route[c] \in Routes
  BY <1>1 DEF TypeOK
<1>3. /\ r \in Result /\ r.ok = TRUE /\ r.route = route[c]
      /\ r.code \in {200, 202} /\ (r.code = 200 => Sync(c))
  BY <1>2 DEF Result, Codes
<1>4. EndItem(c, r)
  BY DEF Succeeds
<1>5. msg(c) = <<c, i>>
  BY DEF msg
<1> HIDE DEF r, i
<1>6. PICK k : k = i
  OBVIOUS
<1>7. PICK q \in Result : q = r
  BY <1>3
<1>8. ResultSound(c, k, q)'
  BY <1>2, <1>3, <1>5, <1>6, <1>7 DEF ResultSound, Routes
<1> QED BY <1>3, <1>4, <1>6, <1>7, <1>8, ItemEnds DEF i

LEMMA RefusalCodes ==
  ASSUME NEW e
  PROVE  /\ errorToHTTPStatus(e) \in Codes /\ errorToHTTPStatus(e) # 200
         /\ errorToHTTPStatus("publish") = 500 /\ errorToHTTPStatus("context") = 500
         /\ errorToHTTPStatus("ErrSyncTimeout") = 504
  BY DEF errorToHTTPStatus, Codes

(* Where a request is and what has become of its message by then. *)
LEMMA PathFacts ==
  ASSUME IInv, NEW c \in Requests, apc[c] \in Active
  PROVE  /\ apc[c] = "item" => msg(c) \notin published \cup directly
         /\ apc[c] \in {"direct", "send"} => msg(c) \notin published
         /\ apc[c] = "direct" => msg(c) \in directly /\ route[c] = "direct"
         /\ apc[c] # "direct" => route[c] = "broker"
         /\ apc[c] = "wait" => msg(c) \in published /\ Sync(c)
         /\ dexec[c] => executed[msg(c)] > 0
<1>1. TypeOK /\ HandlerSound /\ PathSound /\ PathOK(c) /\ route[c] \in Routes
  BY DEF IInv, FlowInv, PathSound, TypeOK
<1>2. /\ msg(c) = <<c, idx[c]>> /\ idx[c] = Len(results[c]) + 1
      /\ Len(results[c]) \in Nat /\ idx[c] \in 1 .. MaxItems
  BY <1>1, ItemFacts
<1>3. apc[c] = "item" => msg(c) \notin published \cup directly
  BY <1>1, <1>2 DEF PathOK
<1> QED BY <1>1, <1>3 DEF PathOK, HandlerSound, Routes

LEMMA EndingSteps ==
  ASSUME IInv, NEW c \in Requests,
         \/ RejectItem(c) \/ SendRefused(c) \/ PublishFails(c) \/ Response(c)
         \/ WaitTimeout(c) \/ WaitCancelled(c) \/ DirectSucceeds(c)
         \/ SendPublishes(c) /\ ~Sync(c)
  PROVE  IInv'
<1> DEFINE Rest == UNCHANGED <<bridgeVars, gone, history>>
<1>0. ASSUME Rest PROVE published' = published /\ executed' = executed /\ replies' = replies
                        /\ directly' = directly
  BY <1>0 DEF bridgeVars, targetVars, history
<1>1. ASSUME RejectItem(c) PROVE IInv'
  <2>1. apc[c] = "item" /\ apc[c] \in Active /\ Fails(c, 400) /\ Rest
    BY <1>1 DEF RejectItem, Active
  <2>2. msg(c) \notin published' /\ 400 \in Codes
    BY <1>0, <2>1, PathFacts DEF Codes
  <2> QED BY <2>1, <2>2, FailureSound
<1>2. ASSUME SendRefused(c) PROVE IInv'
  <2>1. apc[c] = "send" /\ apc[c] \in Active /\ Rest
    BY <1>2 DEF SendRefused, Active
  <2>2. PICK e : Fails(c, errorToHTTPStatus(e))
    BY <1>2 DEF SendRefused
  <2>3. msg(c) \notin published'
    BY <1>0, <2>1, PathFacts
  <2> QED BY <2>1, <2>2, <2>3, RefusalCodes, FailureSound
<1>3. ASSUME PublishFails(c) PROVE IInv'
  <2>1. apc[c] = "send" /\ apc[c] \in Active /\ Fails(c, 500) /\ (Publish(c) \/ Rest)
    BY <1>3, RefusalCodes DEF PublishFails, Active
  <2>2. 500 \in Codes /\ 500 \notin {200, 400, 403}
    BY DEF Codes
  <2> QED BY <2>1, <2>2, FailureSound
<1>4. ASSUME WaitTimeout(c) \/ WaitCancelled(c) PROVE IInv'
  <2>1. apc[c] \in Active /\ Rest /\ (Fails(c, 500) \/ Fails(c, 504))
    BY <1>4, RefusalCodes DEF WaitTimeout, WaitCancelled, Active
  <2>2. 500 \in Codes /\ 500 \notin {200, 400, 403} /\ 504 \in Codes /\ 504 \notin {200, 400, 403}
    BY DEF Codes
  <2> QED BY <2>1, <2>2, FailureSound
<1>5. ASSUME Response(c) PROVE IInv'
  <2>1. apc[c] = "wait" /\ apc[c] \in Active /\ Succeeds(c) /\ Rest
    BY <1>5 DEF Response, Active
  <2>2. \E q \in replies' : q.msg = msg(c)
    BY <1>0, <1>5, <2>1 DEF Response
  <2>3. route[c] = "broker" /\ msg(c) \in published'
    BY <1>0, <2>1, PathFacts
  <2> QED BY <2>1, <2>2, <2>3, SuccessSound
<1>6. ASSUME DirectSucceeds(c) PROVE IInv'
  <2>1. apc[c] = "direct" /\ dexec[c] /\ apc[c] \in Active /\ Succeeds(c) /\ Rest
    BY <1>6 DEF DirectSucceeds, Active
  <2>2. /\ route[c] = "direct" /\ executed'[msg(c)] > 0 /\ msg(c) \notin published'
        /\ msg(c) \in directly'
    BY <1>0, <2>1, PathFacts
  <2> QED BY <2>1, <2>2, SuccessSound
<1>7. ASSUME SendPublishes(c), ~Sync(c) PROVE IInv'
  <2>1. apc[c] = "send" /\ apc[c] \in Active /\ Succeeds(c) /\ Publish(c)
    BY <1>7 DEF SendPublishes, Active
  <2>2. route[c] = "broker" /\ msg(c) \in published'
    BY <2>1, PathFacts DEF Publish
  <2> QED BY <1>7, <2>1, <2>2, SuccessSound
<1> QED BY <1>1, <1>2, <1>3, <1>4, <1>5, <1>6, <1>7
-----------------------------------------------------------------------------
(* The steps of a request in the middle of an item. *)

LEMMA MidStep ==
  ASSUME IInv, NEW c \in Requests, apc[c] \in Active, Moves(c),
         BridgeTypeOK', HandlerTypeOK', gone' \subseteq Requests, AnswersGenuine',
         UNCHANGED <<input, idx, results, accepted, failed, answer>>,
         apc'[c] \in Active, apc'[c] = "direct" <=> route'[c] = "direct",
         apc'[c] = "wait" => Sync(c), PathOK(c)',
         sent'[msg(c)] # None => msg(c) \in published',
         NEW m \in Messages, m = msg(c), Paid(m)'
  PROVE  IInv'
<1>1. /\ TypeOK /\ BridgeSound /\ Shielded /\ Counted /\ AnswerSound /\ AllPaid
      /\ BridgeTypeOK /\ HandlerSound /\ PathSound /\ ResultsSound
  BY DEF IInv, TypeOK, FlowInv
<1>2. m \in Own
  BY <1>1, ItemFacts
<1>3. BridgeSound' /\ Shielded'
  BY <1>1, MovesBridge DEF Moves
<1>4. HandlerSound'
  <2> DEFINE OK(d) ==
        /\ idx[d] = Len(results[d]) + 1
        /\ apc[d] = "new" <=> input[d] = None
        /\ apc[d] = "new" => results[d] = <<>>
        /\ apc[d] \in Active => Len(results[d]) < Len(input[d].items)
        /\ apc[d] = "done" => Len(results[d]) = Len(input[d].items)
        /\ apc[d] = "done" <=> answer[d] # None
        /\ apc[d] = "direct" <=> route[d] = "direct"
        /\ apc[d] = "wait" => Sync(d)
  <2>1. ASSUME NEW d \in Requests, d # c PROVE OK(d)'
    <3>1. OK(d)
      BY <1>1 DEF HandlerSound
    <3> QED BY <2>1, <3>1 DEF Moves, OnlyRequest, Sync
  <2>2. OK(c)'
    <3>1. OK(c)
      BY <1>1 DEF HandlerSound
    <3> QED BY <3>1 DEF Sync, Active
  <2> QED BY <2>1, <2>2 DEF HandlerSound
<1>5. PathSound'
  <2>1. published' \cup directly' \subseteq Own
    BY <1>1, <1>2 DEF PathSound, Moves
  <2>2. \A n \in Own : sent'[n] # None => n \in published'
    BY <1>1, <1>2, MessageFacts DEF PathSound, Moves
  <2>3. ASSUME NEW d \in Requests, d # c PROVE PathOK(d)'
    BY <1>1, <2>3, OtherPaths
  <2> QED BY <2>1, <2>2, <2>3 DEF PathSound
<1>6. ResultsSound'
  BY <1>1, SameResults
<1>7. Counted' /\ AnswerSound'
  BY <1>1 DEF Counted, AnswerSound, Oks
<1>8. AllPaid'
  BY <1>1, OthersPaid DEF AllPaid
<1>9. TypeOK'
  BY <1>5, PathTypes, TypeParts
<1> QED BY <1>3, <1>4, <1>5, <1>6, <1>7, <1>8, <1>9 DEF IInv, FlowInv

(* The direct call of m that is under way is the one of request c. *)
LEMMA DueOfRequest ==
  ASSUME NEW c \in Requests, NEW m, m = msg(c), UNCHANGED idx
  PROVE  /\ Due(m) = IF apc[c] = "direct" /\ ~dexec[c] THEN 1 ELSE 0
         /\ Due(m)' = IF apc'[c] = "direct" /\ ~dexec'[c] THEN 1 ELSE 0
<1>1. \A d \in Requests : (msg(d) = m <=> d = c) /\ (msg(d)' = m <=> d = c)
  BY DEF msg
<1> QED BY <1>1 DEF Due

LEMMA DecideStep ==
  ASSUME IInv, NEW c \in Requests, Decide(c)
  PROVE  IInv'
<1>1. /\ TypeOK /\ BridgeTypeOK /\ HandlerSound /\ PathSound /\ PathOK(c) /\ AllPaid
      /\ AnswersGenuine /\ HandlerTypeOK
  BY TypeParts DEF IInv, TypeOK, FlowInv, BridgeSound, PathSound
<1>2. apc[c] = "item" /\ apc[c] \in Active
  BY DEF Decide, Active
<1>3. /\ msg(c) \in Messages /\ msg(c) = <<c, idx[c]>> /\ idx[c] \in 1 .. MaxItems
      /\ msg(c) \notin published \cup directly
  BY <1>1, <1>2, ItemFacts, PathFacts
<1>4. UNCHANGED <<input, idx, dexec, results, accepted, failed, answer, gone, published,
                  executed, abandoned, replies, sent, deliveries, dead, now,
                  cbFails, cbOpenUntil, openAttempts, hpc, hmsg, hattempt, hanswered,
                  houtcome>>
  BY DEF Decide, bridgeVars, handlerVars, breakerVars, targetVars
<1>5. /\ BridgeTypeOK' /\ Grows /\ AnswersGenuine'
  BY <1>1, <1>4 DEF BridgeTypeOK, Grows, AnswersGenuine
<1>6. \/ /\ route' = [route EXCEPT ![c] = "direct"] /\ apc' = [apc EXCEPT ![c] = "direct"]
         /\ directly' = directly \cup {msg(c)}
      \/ /\ route' = [route EXCEPT ![c] = "broker"] /\ apc' = [apc EXCEPT ![c] = "send"]
         /\ directly' = directly
  BY DEF Decide, DecideRoute
<1>7. /\ HandlerTypeOK' /\ OnlyRequest(c)
      /\ apc'[c] \in Active /\ apc'[c] \in {"direct", "send"}
      /\ apc'[c] = "direct" <=> route'[c] = "direct"
      /\ apc'[c] = "direct" => directly' = directly \cup {msg(c)}
      /\ apc'[c] # "direct" => directly' = directly
  BY <1>1, <1>4, <1>6 DEF HandlerTypeOK, OnlyRequest, Routes, Active
<1>8. Moves(c)
  BY <1>4, <1>5, <1>6, <1>7 DEF Moves, handlerVars, breakerVars
<1>9. PathOK(c)'
  <2>1. ~dexec[c]
    BY <1>1, <1>2 DEF PathOK
  <2>2. \A i \in 1 .. MaxItems : <<c, i>> \in published' \cup directly' =>
          \/ i <= Len(results'[c])
          \/ i = idx'[c] /\ apc'[c] \in {"direct", "send", "wait"}
    BY <1>1, <1>2, <1>3, <1>4, <1>6, <1>7 DEF PathOK
  <2>3. msg(c)' = msg(c)
    BY <1>4 DEF msg
  <2> QED BY <1>3, <1>4, <1>7, <2>1, <2>2, <2>3 DEF PathOK
<1>10. PICK m \in Messages : m = msg(c)
  BY <1>3
<1>11. Paid(m)'
  <2>1. Potential(m)' = Potential(m)
    BY <1>4 DEF Potential
  <2>2. Due(m)' = (IF apc'[c] = "direct" /\ ~dexec'[c] THEN 1 ELSE 0) /\ Due(m) = 0
    BY <1>2, <1>4, <1>10, DueOfRequest
  <2>3. Direct(m)' = (IF apc'[c] = "direct" THEN 1 ELSE 0) /\ Direct(m) = 0
    BY <1>3, <1>7, <1>10 DEF Direct
  <2>4. Elsewhere(m)' = Elsewhere(m)
    BY <1>4 DEF Elsewhere
  <2>5. /\ executed[m] \in Nat /\ abandoned[m] \in Nat /\ Cardinality(Potential(m)) \in Nat
        /\ deliveries[m] * Retries \in Nat /\ Elsewhere(m) \in {0, 1}
    BY <1>1, PaidTypes
  <2>6. Due(m)' <= Direct(m)' /\ Due(m)' \in Nat /\ Direct(m)' \in Nat
    BY <2>2, <2>3
  <2>7. Spent(m)' + Budget(m) <= Spent(m) + Budget(m)'
    <3>1. Spent(m)' = executed[m] + abandoned[m] + Cardinality(Potential(m)) + Due(m)'
      BY <1>4, <2>1 DEF Spent
    <3>2. Budget(m)' = Direct(m)' + deliveries[m] * Retries
      BY <1>4 DEF Budget
    <3>3. Spent(m) = executed[m] + abandoned[m] + Cardinality(Potential(m))
      BY <2>2, <2>5 DEF Spent
    <3>4. Budget(m) = deliveries[m] * Retries
      BY <2>3, <2>5 DEF Budget
    <3> HIDE DEF Spent, Budget
    <3> QED BY <2>5, <2>6, <3>1, <3>2, <3>3, <3>4
  <2>8. Elsewhere(m) <= Elsewhere(m)' /\ executed[m] <= executed'[m]
    BY <1>4, <2>4, <2>5
  <2>9. Paid(m)
    BY <1>1 DEF AllPaid
  <2> QED BY <1>1, <1>5, <2>7, <2>8, <2>9, PaidKept
<1>12. sent'[msg(c)] # None => msg(c) \in published'
  BY <1>1, <1>2, <1>3, <1>4, ItemFacts DEF PathSound
<1>13. gone' \subseteq Requests
  BY <1>1, <1>4 DEF TypeOK
<1> QED BY <1>2, <1>4, <1>5, <1>7, <1>8, <1>9, <1>10, <1>11, <1>12, <1>13, MidStep

(* A step on the direct route pays for what it causes. *)
LEMMA DirectPays ==
  ASSUME BridgeTypeOK, BridgeTypeOK', NEW m \in Messages, Paid(m),
         UNCHANGED <<deliveries, hpc, hmsg, hattempt, hanswered, published, directly, sent>>,
         executed'[m] + abandoned'[m] + Due(m)' <= executed[m] + abandoned[m] + Due(m),
         executed[m] <= executed'[m]
  PROVE  Paid(m)'
<1>1. Potential(m)' = Potential(m)
  BY DEF Potential
<1>2. Direct(m)' = Direct(m) /\ Elsewhere(m)' = Elsewhere(m)
  BY DEF Direct, Elsewhere
<1>3. /\ executed[m] \in Nat /\ abandoned[m] \in Nat /\ Cardinality(Potential(m)) \in Nat
      /\ executed'[m] \in Nat /\ abandoned'[m] \in Nat /\ Due(m) \in Nat /\ Due(m)' \in Nat
      /\ deliveries[m] * Retries \in Nat /\ Elsewhere(m) \in {0, 1} /\ Direct(m) \in {0, 1}
  BY PaidTypes
<1>4. Budget(m)' = Budget(m) /\ Budget(m) \in Nat
  BY <1>2, <1>3 DEF Budget
<1>5. Spent(m)' <= Spent(m) /\ Spent(m) \in Nat /\ Spent(m)' \in Nat
  BY <1>1, <1>3 DEF Spent
<1>6. Spent(m)' + Budget(m) <= Spent(m) + Budget(m)'
  BY <1>4, <1>5
<1>7. Elsewhere(m) <= Elsewhere(m)'
  BY <1>2, <1>3
<1> QED BY <1>6, <1>7, PaidKept

LEMMA DirectStep ==
  ASSUME IInv, NEW c \in Requests, DirectExecutes(c) \/ DirectFails(c)
  PROVE  IInv'
<1>1. /\ TypeOK /\ BridgeTypeOK /\ HandlerSound /\ PathSound /\ PathOK(c) /\ AllPaid
      /\ AnswersGenuine /\ HandlerTypeOK
  BY TypeParts DEF IInv, TypeOK, FlowInv, BridgeSound, PathSound
<1>2. apc[c] = "direct" /\ apc[c] \in Active
  BY DEF DirectExecutes, DirectFails, Active
<1>3. /\ msg(c) \in Messages /\ msg(c) \in Own /\ msg(c) = <<c, idx[c]>>
      /\ msg(c) \notin published /\ msg(c) \in directly /\ route[c] = "direct"
  BY <1>1, <1>2, ItemFacts, PathFacts
<1>4. UNCHANGED <<input, idx, results, accepted, failed, answer, gone, published, directly,
                  replies, sent, deliveries, dead, now, cbFails, cbOpenUntil,
                  openAttempts, hpc, hmsg, hattempt, hanswered, houtcome>>
  BY DEF DirectExecutes, DirectFails, handlerVars, breakerVars, history
<1>5. \/ /\ DirectExecutes(c) /\ ~dexec[c] /\ dexec' = [dexec EXCEPT ![c] = TRUE]
         /\ executed' = [executed EXCEPT ![msg(c)] = executed[msg(c)] + 1]
         /\ UNCHANGED <<abandoned, apc, route>>
      \/ /\ DirectFails(c) /\ UNCHANGED <<executed, dexec>>
         /\ apc' = [apc EXCEPT ![c] = "send"] /\ route' = [route EXCEPT ![c] = "broker"]
         /\ abandoned' = [abandoned EXCEPT ![msg(c)] =
                            IF dexec[c] \/ it(c).class = "unbuildable" THEN abandoned[msg(c)]
                            ELSE abandoned[msg(c)] + 1]
  BY DEF DirectExecutes, DirectFails, Abandon
<1>6. /\ executed[msg(c)] \in Nat /\ abandoned[msg(c)] \in Nat
      /\ executed' \in [Messages -> Nat] /\ abandoned' \in [Messages -> Nat]
      /\ \A n \in Messages : n # msg(c) =>
           executed'[n] = executed[n] /\ abandoned'[n] = abandoned[n]
      /\ \A n \in Messages : executed'[n] >= executed[n]
  <2>1. /\ executed \in [Messages -> Nat] /\ abandoned \in [Messages -> Nat]
        /\ executed[msg(c)] \in Nat /\ abandoned[msg(c)] \in Nat
    BY <1>1, <1>3 DEF BridgeTypeOK
  <2>2. /\ executed' = executed \/ executed' = [executed EXCEPT ![msg(c)] = executed[msg(c)] + 1]
        /\ \/ abandoned' = abandoned
           \/ abandoned' = [abandoned EXCEPT ![msg(c)] = abandoned[msg(c)]]
           \/ abandoned' = [abandoned EXCEPT ![msg(c)] = abandoned[msg(c)] + 1]
    BY <1>5
  <2>3. /\ executed' \in [Messages -> Nat]
        /\ \A n \in Messages : n # msg(c) => executed'[n] = executed[n]
        /\ \A n \in Messages : executed'[n] >= executed[n]
    BY <1>3, <2>1, <2>2
  <2>4. /\ abandoned' \in [Messages -> Nat]
        /\ \A n \in Messages : n # msg(c) => abandoned'[n] = abandoned[n]
    BY <1>3, <2>1, <2>2
  <2> QED BY <2>1, <2>3, <2>4
<1>7. BridgeTypeOK' /\ Grows
  BY <1>1, <1>4, <1>6 DEF BridgeTypeOK, Grows
<1>8. AnswersGenuine'
  BY <1>1, <1>4, <1>7, AnswersFrame
<1>9. /\ HandlerTypeOK' /\ OnlyRequest(c) /\ apc'[c] \in {"direct", "send"}
      /\ apc'[c] \in Active /\ (apc'[c] = "direct" <=> route'[c] = "direct")
      /\ apc'[c] = "wait" => Sync(c)
      /\ dexec'[c] => dexec[c] \/ executed'[msg(c)] > 0
  <2>1. /\ \/ apc' = apc /\ route' = route
           \/ apc' = [apc EXCEPT ![c] = "send"] /\ route' = [route EXCEPT ![c] = "broker"]
        /\ dexec' = dexec \/ dexec' = [dexec EXCEPT ![c] = TRUE]
    BY <1>5
  <2>2. HandlerTypeOK' /\ OnlyRequest(c)
    BY <1>1, <1>4, <2>1 DEF HandlerTypeOK, OnlyRequest, Routes
  <2>3. apc'[c] \in {"direct", "send"} /\ (apc'[c] = "direct" <=> route'[c] = "direct")
    BY <1>1, <1>2, <1>3, <2>1 DEF HandlerTypeOK
  <2>4. dexec'[c] => dexec[c] \/ executed'[msg(c)] > 0
    <3>1. CASE dexec' = dexec
      BY <3>1
    <3>2. CASE executed' = [executed EXCEPT ![msg(c)] = executed[msg(c)] + 1]
      BY <1>1, <1>3, <1>6, <3>2 DEF BridgeTypeOK
    <3> QED BY <1>5, <3>1, <3>2
  <2> QED BY <2>2, <2>3, <2>4 DEF Active
<1>10. Moves(c)
  BY <1>4, <1>6, <1>7, <1>9 DEF Moves, handlerVars, breakerVars
<1>11. PathOK(c)'
  <2>1. msg(c)' = msg(c)
    BY <1>4 DEF msg
  <2>2. dexec[c] => executed'[msg(c)] > 0
    BY <1>1, <1>3, <1>6 DEF PathOK, BridgeTypeOK
  <2>3. \A i \in 1 .. MaxItems : <<c, i>> \in published' \cup directly' =>
          \/ i <= Len(results'[c])
          \/ i = idx'[c] /\ apc'[c] \in {"direct", "send", "wait"}
    BY <1>1, <1>4, <1>9 DEF PathOK
  <2> QED BY <1>3, <1>4, <1>9, <2>1, <2>2, <2>3 DEF PathOK
<1>12. PICK m \in Messages : m = msg(c)
  BY <1>3
<1>13. Paid(m)'
  <2>1. /\ Due(m) = IF ~dexec[c] THEN 1 ELSE 0
        /\ Due(m)' = IF apc'[c] = "direct" /\ ~dexec'[c] THEN 1 ELSE 0
    BY <1>2, <1>4, <1>12, DueOfRequest
  <2>2. executed'[m] + abandoned'[m] + Due(m)' <= executed[m] + abandoned[m] + Due(m)
    <3>1. CASE DirectExecutes(c) /\ ~dexec[c] /\ dexec' = [dexec EXCEPT ![c] = TRUE]
               /\ executed' = [executed EXCEPT ![msg(c)] = executed[msg(c)] + 1]
               /\ UNCHANGED <<abandoned, apc, route>>
      <4>1. executed'[m] = executed[m] + 1 /\ abandoned'[m] = abandoned[m] /\ dexec'[c]
        BY <1>1, <1>12, <3>1 DEF BridgeTypeOK, HandlerTypeOK
      <4>2. Due(m) = 1 /\ Due(m)' = 0
        BY <2>1, <3>1, <4>1
      <4> QED BY <1>6, <1>12, <4>1, <4>2
    <3>2. CASE DirectFails(c) /\ UNCHANGED <<executed, dexec>>
               /\ apc' = [apc EXCEPT ![c] = "send"] /\ route' = [route EXCEPT ![c] = "broker"]
               /\ abandoned' = [abandoned EXCEPT ![msg(c)] =
                     IF dexec[c] \/ it(c).class = "unbuildable" THEN abandoned[msg(c)]
                     ELSE abandoned[msg(c)] + 1]
      <4>1. executed'[m] = executed[m] /\ apc'[c] = "send"
        BY <1>1, <3>2 DEF HandlerTypeOK
      <4>2. abandoned'[m] <= abandoned[m] + (IF ~dexec[c] THEN 1 ELSE 0)
        BY <1>1, <1>6, <1>12, <3>2 DEF BridgeTypeOK
      <4>3. Due(m)' = 0
        BY <2>1, <4>1
      <4> HIDE DEF Due
      <4>4. abandoned'[m] \in Nat /\ abandoned[m] \in Nat /\ executed[m] \in Nat
        BY <1>6, <1>12
      <4> QED BY <2>1, <4>1, <4>2, <4>3, <4>4
    <3> QED BY <1>5, <3>1, <3>2
  <2>3. Paid(m) /\ executed[m] <= executed'[m]
    BY <1>1, <1>6 DEF AllPaid
  <2> QED BY <1>1, <1>4, <1>7, <2>2, <2>3, DirectPays
<1>14. gone' \subseteq Requests /\ (sent'[msg(c)] # None => msg(c) \in published')
  BY <1>1, <1>3, <1>4 DEF TypeOK, PathSound
<1> QED BY <1>2, <1>4, <1>7, <1>8, <1>9, <1>10, <1>11, <1>12, <1>13, <1>14, MidStep

LEMMA SendStep ==
  ASSUME IInv, NEW c \in Requests, SendPublishes(c), Sync(c)
  PROVE  IInv'
<1>1. /\ TypeOK /\ BridgeTypeOK /\ HandlerSound /\ FlowInv /\ PathSound /\ PathOK(c)
      /\ AllPaid /\ AnswersGenuine /\ HandlerTypeOK
  BY TypeParts DEF IInv, TypeOK, FlowInv, BridgeSound, PathSound
<1>2. /\ apc[c] = "send" /\ apc[c] \in Active /\ Publish(c)
      /\ apc' = [apc EXCEPT ![c] = "wait"]
  BY DEF SendPublishes, Active
<1>3. /\ msg(c) \in Messages /\ msg(c) = <<c, idx[c]>> /\ route[c] = "broker"
  BY <1>1, <1>2, ItemFacts, PathFacts
<1>4. /\ UNCHANGED <<input, idx, route, dexec, results, accepted, failed, answer>>
      /\ UNCHANGED <<deliveries, handlerVars, breakerVars, dead, now, gone, directly>>
      /\ published' = published \cup {msg(c)}
  BY <1>2 DEF SendPublishes, Publish
<1>5. /\ BridgeTypeOK' /\ Grows /\ UNCHANGED <<executed, abandoned, replies>>
      /\ \A n \in Messages : n # msg(c) => sent'[n] = sent[n]
      /\ it(c).resource # "bridge" => sent'[msg(c)] = None
      /\ Elsewhere(msg(c)) = 0
  BY <1>1, <1>2, PublishMoves
<1>6. AnswersGenuine'
  BY <1>1, <1>5, AnswersFrame
<1>7. /\ HandlerTypeOK' /\ OnlyRequest(c) /\ apc'[c] = "wait" /\ route'[c] = "broker"
  BY <1>1, <1>2, <1>3, <1>4 DEF HandlerTypeOK, OnlyRequest
<1>8. Moves(c)
  BY <1>4, <1>5, <1>7 DEF Moves
<1>9. PathOK(c)'
  <2>1. msg(c)' = msg(c) /\ it(c)' = it(c)
    BY <1>4 DEF msg, it
  <2>2. \A i \in 1 .. MaxItems : <<c, i>> \in published' \cup directly' =>
          \/ i <= Len(results'[c])
          \/ i = idx'[c] /\ apc'[c] \in {"direct", "send", "wait"}
    BY <1>1, <1>2, <1>3, <1>4, <1>7 DEF PathOK
  <2>3. dexec'[c] => executed'[msg(c)] > 0
    BY <1>1, <1>4, <1>5 DEF PathOK
  <2> QED BY <1>4, <1>5, <1>7, <2>1, <2>2, <2>3 DEF PathOK
<1>10. PICK m \in Messages : m = msg(c)
  BY <1>3
<1>11. Paid(m)'
  <2>1. Potential(m)' \subseteq Potential(m)
    BY <1>4 DEF Potential, handlerVars
  <2>2. Due(m)' = 0 /\ Due(m) = 0
    BY <1>2, <1>4, <1>7, <1>10, DueOfRequest
  <2>3. Direct(m) <= Direct(m)'
    BY <1>4 DEF Direct
  <2>4. Elsewhere(m) <= Elsewhere(m)'
    BY <1>5, <1>10 DEF Elsewhere
  <2>5. /\ Paid(m) /\ executed'[m] = executed[m] /\ abandoned'[m] = abandoned[m]
        /\ deliveries'[m] = deliveries[m] /\ Due(m)' <= Due(m)
    BY <1>1, <1>4, <1>5, <2>2 DEF AllPaid
  <2> QED BY <1>1, <1>5, <2>1, <2>3, <2>4, <2>5, PaidFrame
<1>12. gone' \subseteq Requests /\ (sent'[msg(c)] # None => msg(c) \in published')
  BY <1>1, <1>4 DEF TypeOK
<1>13. apc'[c] \in Active /\ (apc'[c] = "direct" <=> route'[c] = "direct")
  BY <1>7 DEF Active
<1> QED BY <1>2, <1>4, <1>5, <1>6, <1>7, <1>8, <1>9, <1>10, <1>11, <1>12, <1>13, MidStep

(* Another peer executes the message once. *)
LEMMA PeerStep ==
  ASSUME IInv, NEW c \in Requests, PeerServes(c)
  PROVE  IInv'
<1>1. /\ TypeOK /\ BridgeTypeOK /\ HandlerSound /\ PathSound /\ PathOK(c) /\ AllPaid
      /\ AnswersGenuine /\ HandlerTypeOK
  BY TypeParts DEF IInv, TypeOK, FlowInv, BridgeSound, PathSound
<1>2. /\ apc[c] = "wait" /\ apc[c] \in Active /\ it(c).resource = "other"
      /\ executed[msg(c)] = 0
      /\ executed' = [executed EXCEPT ![msg(c)] = executed[msg(c)] + 1]
      /\ replies' = replies \cup {[msg |-> msg(c), outcome |-> "ok"]}
  BY DEF PeerServes, Active
<1>3. /\ msg(c) \in Messages /\ msg(c) \in Own /\ route[c] = "broker" /\ Sync(c)
      /\ msg(c) \in published /\ sent[msg(c)] = None
  BY <1>1, <1>2, ItemFacts, PathFacts DEF PathOK
<1>4. UNCHANGED <<input, apc, idx, route, dexec, results, accepted, failed, answer, gone,
                  published, directly, abandoned, sent, deliveries, dead, now, cbFails,
                  cbOpenUntil, openAttempts, hpc, hmsg, hattempt, hanswered, houtcome>>
  BY DEF PeerServes, handlerState, handlerVars, breakerVars, history
<1>5. /\ executed' \in [Messages -> Nat] /\ executed'[msg(c)] = 1
      /\ \A n \in Messages : n # msg(c) => executed'[n] = executed[n]
      /\ \A n \in Messages : executed'[n] >= executed[n]
  BY <1>1, <1>2, <1>3 DEF BridgeTypeOK
<1>6. BridgeTypeOK' /\ Grows
  <2>1. [msg |-> msg(c), outcome |-> "ok"] \in Reply
    BY <1>3 DEF Reply, Outcomes
  <2>2. replies' \subseteq Reply /\ replies \subseteq replies'
    BY <1>1, <1>2, <2>1 DEF BridgeTypeOK
  <2> QED BY <1>1, <1>4, <1>5, <2>2 DEF BridgeTypeOK, Grows
<1>7. AnswersGenuine'
  <2>1. SUFFICES ASSUME NEW q \in replies', q.outcome \in {"ok", "serverError"}
                 PROVE  executed'[q.msg] > 0
    BY DEF AnswersGenuine
  <2>2. CASE q \in replies
    <3>1. q.msg \in Messages /\ executed[q.msg] > 0
      BY <1>1, <2>1, <2>2 DEF AnswersGenuine, BridgeTypeOK, Reply
    <3>2. executed[q.msg] \in Nat /\ executed'[q.msg] \in Nat /\ executed'[q.msg] >= executed[q.msg]
      BY <1>1, <1>5, <3>1 DEF BridgeTypeOK
    <3> QED BY <3>1, <3>2
  <2>3. CASE q = [msg |-> msg(c), outcome |-> "ok"]
    BY <1>5, <2>3
  <2> QED BY <1>2, <2>2, <2>3
<1>8. HandlerTypeOK' /\ OnlyRequest(c)
  BY <1>1, <1>4 DEF HandlerTypeOK, OnlyRequest
<1>9. Moves(c)
  BY <1>4, <1>5, <1>6, <1>8 DEF Moves, handlerVars, breakerVars
<1>10. PathOK(c)'
  <2>1. msg(c)' = msg(c) /\ it(c)' = it(c)
    BY <1>4 DEF msg, it
  <2>2. PathOK(c) /\ executed'[msg(c)] > 0
    BY <1>1, <1>5
  <2> QED BY <1>4, <2>1, <2>2 DEF PathOK
<1>11. PICK m \in Messages : m = msg(c)
  BY <1>3
<1>12. Paid(m)'
  <2>1. Potential(m)' = Potential(m) /\ Due(m)' = Due(m)
    BY <1>4 DEF Potential, Due, msg
  <2>2. Direct(m)' = Direct(m) /\ Elsewhere(m)' = 1
    BY <1>3, <1>4, <1>11 DEF Direct, Elsewhere
  <2>3. Spent(m) <= Budget(m)
    BY <1>1, <1>2, <1>11 DEF AllPaid, Paid
  <2>4. /\ abandoned[m] \in Nat /\ Cardinality(Potential(m)) \in Nat /\ Due(m) \in {0, 1}
        /\ deliveries[m] * Retries \in Nat /\ Direct(m) \in {0, 1}
    BY <1>1, PaidTypes
  <2>5. Spent(m)' = Spent(m) + 1 /\ Spent(m) \in Nat
    BY <1>2, <1>4, <1>5, <1>11, <2>1, <2>4 DEF Spent
  <2>6. Budget(m)' = Budget(m) /\ Budget(m) \in Nat
    BY <1>4, <2>2, <2>4 DEF Budget
  <2>7. Spent(m)' <= Budget(m)' + Elsewhere(m)' /\ executed'[m] # 0
    BY <1>5, <1>11, <2>2, <2>3, <2>5, <2>6
  <2> QED BY <2>7 DEF Paid
<1>13. gone' \subseteq Requests /\ (sent'[msg(c)] # None => msg(c) \in published')
  BY <1>1, <1>3, <1>4 DEF TypeOK
<1>14. apc'[c] \in Active /\ (apc'[c] = "direct" <=> route'[c] = "direct")
  BY <1>2, <1>3, <1>4
<1> QED BY <1>2, <1>3, <1>4, <1>6, <1>7, <1>8, <1>9, <1>10, <1>11, <1>12, <1>13, <1>14, MidStep
-----------------------------------------------------------------------------
(* A request arrives. *)

LEMMA ArriveStep ==
  ASSUME IInv, NEW c \in Requests, NEW in \in Inputs, Arrive(c, in)
  PROVE  IInv'
<1> DEFINE empty == [code |-> 400, status |-> ""]
<1>1. /\ TypeOK /\ BridgeTypeOK /\ HandlerSound /\ PathSound /\ PathOK(c) /\ AllPaid
      /\ BridgeSound /\ Shielded /\ ResultsSound /\ Counted /\ AnswerSound /\ HandlerTypeOK
  BY TypeParts DEF IInv, TypeOK, FlowInv, PathSound
<1>2. UNCHANGED <<executed, abandoned, replies, gone, sent, deliveries, dead, now,
                  cbFails, cbOpenUntil, openAttempts, hpc, hmsg, hattempt, hanswered,
                  houtcome, published, directly, idx, route, dexec, results, accepted,
                  failed>>
  BY DEF Arrive, bridgeVars, handlerVars, breakerVars, targetVars, history
<1>3. /\ apc[c] = "new" /\ input' = [input EXCEPT ![c] = in]
      /\ \/ /\ in.items = <<>> /\ apc' = [apc EXCEPT ![c] = "done"]
            /\ answer' = [answer EXCEPT ![c] = empty]
         \/ in.items # <<>> /\ apc' = [apc EXCEPT ![c] = "item"] /\ answer' = answer
  BY DEF Arrive
<1>4. empty \in Answer /\ empty.code = 400 /\ empty.status = ""
  BY DEF Answer, Codes
<1> HIDE DEF empty
<1>5. /\ HandlerTypeOK' /\ OnlyRequest(c)
  <2>1. /\ input' \in [Requests -> Inputs \cup {None}]
        /\ apc' \in [Requests -> {"new", "item", "direct", "send", "wait", "done"}]
        /\ answer' \in [Requests -> Answer \cup {None}]
    <3>1. input' \in [Requests -> Inputs \cup {None}]
      BY <1>1, <1>3 DEF HandlerTypeOK
    <3>2. apc' \in [Requests -> {"new", "item", "direct", "send", "wait", "done"}]
      BY <1>1, <1>3 DEF HandlerTypeOK
    <3>3. answer' \in [Requests -> Answer \cup {None}]
      <4>1. answer \in [Requests -> Answer \cup {None}]
        BY <1>1 DEF HandlerTypeOK
      <4>2. answer' = answer \/ answer' = [answer EXCEPT ![c] = empty]
        BY <1>3
      <4>3. empty \in Answer
        BY <1>4
      <4> QED BY <4>1, <4>2, <4>3
    <3> QED BY <3>1, <3>2, <3>3
  <2>2. OnlyRequest(c)
    BY <1>1, <1>2, <1>3 DEF HandlerTypeOK, OnlyRequest
  <2> QED BY <1>1, <1>2, <2>1, <2>2 DEF HandlerTypeOK
<1>6. /\ results[c] = <<>> /\ answer[c] = None /\ input'[c] = in
      /\ in \in Input /\ in # None
      /\ route[c] # "direct" /\ idx[c] = Len(results[c]) + 1
  BY <1>1, <1>3, InputsAssumption, NoneAssumption DEF HandlerSound, HandlerTypeOK
<1>7. in.items \in Seq(Item) /\ Len(in.items) \in Nat /\ Len(results[c]) = 0
  BY <1>6 DEF Input
<1>8. \/ /\ in.items = <<>> /\ apc'[c] = "done" /\ answer'[c] = empty
         /\ Len(in.items) = 0 /\ in.mode = "batch"
      \/ apc'[c] = "item" /\ answer'[c] = None /\ Len(in.items) > 0
  <2>1. in.items = <<>> => Len(in.items) = 0
    OBVIOUS
  <2>2. in.items # <<>> => Len(in.items) > 0
    BY <1>7
  <2>3. in.mode # "batch" => Len(in.items) = 1
    BY InputsAssumption
  <2>4. \/ in.items = <<>> /\ apc'[c] = "done" /\ answer'[c] = empty
        \/ in.items # <<>> /\ apc'[c] = "item" /\ answer'[c] = None
    BY <1>1, <1>3, <1>6 DEF HandlerTypeOK
  <2> QED BY <2>1, <2>2, <2>3, <2>4
<1>9. HandlerSound'
  <2> DEFINE OK(d) ==
        /\ idx[d] = Len(results[d]) + 1
        /\ apc[d] = "new" <=> input[d] = None
        /\ apc[d] = "new" => results[d] = <<>>
        /\ apc[d] \in Active => Len(results[d]) < Len(input[d].items)
        /\ apc[d] = "done" => Len(results[d]) = Len(input[d].items)
        /\ apc[d] = "done" <=> answer[d] # None
        /\ apc[d] = "direct" <=> route[d] = "direct"
        /\ apc[d] = "wait" => Sync(d)
  <2>1. ASSUME NEW d \in Requests, d # c PROVE OK(d)'
    <3>1. OK(d)
      BY <1>1 DEF HandlerSound
    <3> QED BY <1>5, <2>1, <3>1 DEF OnlyRequest, Sync
  <2>2. OK(c)'
    <3>1. answer'[c] = empty => answer'[c] # None
      BY <1>4, NoneAssumption
    <3> QED BY <1>2, <1>6, <1>7, <1>8, <3>1 DEF Active
  <2> QED BY <2>1, <2>2 DEF HandlerSound
<1>10. PathSound'
  <2>1. ASSUME NEW d \in Requests, d # c PROVE PathOK(d)'
    <3>1. PathOK(d) /\ apc'[d] = apc[d] /\ input'[d] = input[d]
      BY <1>1, <1>5, <2>1 DEF PathSound, OnlyRequest
    <3> QED BY <1>2, <3>1 DEF PathOK, msg, it
  <2>2. PathOK(c)'
    <3>1. ~dexec[c] /\ apc'[c] \in {"item", "done"}
      BY <1>1, <1>3, <1>8 DEF PathOK
    <3>2. \A i \in 1 .. MaxItems : <<c, i>> \notin published \cup directly
      <4>1. \A i \in 1 .. MaxItems : <<c, i>> \in published \cup directly =>
              \/ i <= Len(results[c])
              \/ i = idx[c] /\ apc[c] \in {"direct", "send", "wait"}
        BY <1>1 DEF PathOK
      <4> QED BY <1>3, <1>7, <4>1
    <3> QED BY <1>2, <3>1, <3>2 DEF PathOK
  <2> QED BY <1>1, <1>2, <2>1, <2>2 DEF PathSound
<1>11. ResultsSound' /\ Counted'
  <2>1. ASSUME NEW d \in Requests, NEW i \in 1 .. Len(results[d])
        PROVE  ResultSound(d, i, results[d][i])'
    <3>1. ResultSound(d, i, results[d][i])
      BY <1>1 DEF ResultsSound
    <3> QED BY <1>2, <3>1 DEF ResultSound
  <2>2. Counted'
    BY <1>1, <1>2 DEF Counted, Oks
  <2> QED BY <1>2, <2>1, <2>2 DEF ResultsSound
<1>12. AnswerSound'
  <2> DEFINE OK(d) ==
        answer[d] # None =>
          IF input[d].mode = "batch"
          THEN /\ answer[d].code \in {202, 400}
               /\ answer[d].code = 202 <=> accepted[d] > 0
               /\ answer[d].status = "ok" <=> accepted[d] > 0 /\ failed[d] = 0
          ELSE answer[d].code = results[d][1].code
  <2>1. ASSUME NEW d \in Requests, d # c PROVE OK(d)'
    <3>1. OK(d)
      BY <1>1 DEF AnswerSound
    <3> QED BY <1>5, <2>1, <3>1 DEF OnlyRequest
  <2>2. OK(c)'
    <3>1. accepted[c] = 0 /\ accepted'[c] = 0
      <4>1. accepted[c] \in Nat /\ failed[c] \in Nat /\ accepted[c] + failed[c] = 0
        BY <1>1, <1>7 DEF HandlerTypeOK, Counted
      <4> QED BY <1>2, <4>1
    <3>2. CASE answer'[c] = None
      BY <3>2
    <3>3. CASE answer'[c] = empty /\ in.mode = "batch"
      <4>1. answer'[c].code = 400
        BY <1>4, <3>3
      <4>0. answer'[c].status = ""
        BY <1>4, <3>3
      <4>2. input'[c].mode = "batch"
        BY <1>6, <3>3
      <4>3. answer'[c].code # 202
        BY <4>1
      <4>4. answer'[c].status # "ok"
        BY <4>0
      <4>5. ~(accepted'[c] > 0)
        BY <3>1
      <4> QED BY <4>1, <4>2, <4>3, <4>4, <4>5
    <3> QED BY <1>8, <3>2, <3>3
  <2> QED BY <2>1, <2>2 DEF AnswerSound
<1>13. AllPaid'
  <2>1. SUFFICES ASSUME NEW m \in Messages PROVE Paid(m)'
    BY DEF AllPaid
  <2>2. Paid(m)
    BY <1>1 DEF AllPaid
  <2>3. Due(m)' = Due(m)
    <3>1. \A d \in Requests : msg(d)' = msg(d) /\ (apc'[d] = "direct" <=> apc[d] = "direct")
      BY <1>2, <1>3, <1>5, <1>8 DEF OnlyRequest, msg
    <3> QED BY <1>2, <3>1 DEF Due
  <2>4. Potential(m)' = Potential(m) /\ Direct(m)' = Direct(m) /\ Elsewhere(m)' = Elsewhere(m)
    BY <1>2 DEF Potential, Direct, Elsewhere
  <2> QED BY <1>2, <2>2, <2>3, <2>4 DEF Paid, Spent, Budget
<1>14. BridgeTypeOK' /\ BridgeSound' /\ Shielded'
  BY <1>1, <1>2 DEF BridgeTypeOK, BridgeSound, CallbackSound, CallbackOK, UnsentUndelivered,
     AnswersGenuine, Shielded, AttemptsLeft, isCircuitOpen
<1>15. TypeOK'
  BY <1>1, <1>2, <1>5, <1>10, <1>14, PathTypes, TypeParts DEF TypeOK
<1> QED BY <1>9, <1>10, <1>11, <1>12, <1>13, <1>14, <1>15 DEF IInv, FlowInv
-----------------------------------------------------------------------------
(* The inductive invariant. *)

(* Nothing but the clients that hung up changes. *)
LEMMA RestStep ==
  ASSUME IInv, UNCHANGED <<bridgeVars, handlerState, history>>, gone' \subseteq Requests
  PROVE  IInv'
<1>1. UNCHANGED <<executed, abandoned, replies, sent, deliveries, dead, now, cbFails,
                  cbOpenUntil, openAttempts, hpc, hmsg, hattempt, hanswered, houtcome>>
  BY DEF bridgeVars, handlerVars, breakerVars, targetVars
<1>2. UNCHANGED <<published, directly, input, apc, idx, route, dexec, results, accepted,
                  failed, answer>>
  BY DEF handlerState, history
<1>3. TypeOK'
  BY <1>1, <1>2 DEF IInv, TypeOK, BridgeTypeOK
<1>4. BridgeSound' /\ Shielded'
  BY <1>1 DEF IInv, BridgeSound, CallbackSound, CallbackOK, UnsentUndelivered,
     AnswersGenuine, Shielded, AttemptsLeft, isCircuitOpen
<1>5. HandlerSound' /\ Counted' /\ AnswerSound'
  BY <1>2 DEF IInv, FlowInv, HandlerSound, Counted, AnswerSound, Sync, Oks
<1>6. PathSound' /\ ResultsSound'
  <2>1. PathSound'
    BY <1>1, <1>2 DEF IInv, FlowInv, PathSound, PathOK, msg, it
  <2>2. ASSUME NEW d \in Requests, NEW i \in 1 .. Len(results[d])
        PROVE  ResultSound(d, i, results[d][i])'
    <3>1. ResultSound(d, i, results[d][i])
      BY DEF IInv, FlowInv, ResultsSound
    <3> QED BY <1>1, <1>2, <3>1 DEF ResultSound
  <2> QED BY <1>2, <2>1, <2>2 DEF ResultsSound
<1>7. AllPaid'
  <2>1. SUFFICES ASSUME NEW m \in Messages PROVE Paid(m)'
    BY DEF AllPaid
  <2>2. Paid(m)
    BY DEF IInv, AllPaid
  <2>3. /\ Potential(m)' = Potential(m) /\ Direct(m)' = Direct(m)
        /\ Elsewhere(m)' = Elsewhere(m) /\ Due(m)' = Due(m)
    BY <1>1, <1>2 DEF Potential, Direct, Elsewhere, Due, msg
  <2> QED BY <1>1, <2>2, <2>3 DEF Paid, Spent, Budget
<1> QED BY <1>3, <1>4, <1>5, <1>6, <1>7 DEF IInv, FlowInv

LEMMA BridgeStep ==
  ASSUME IInv, BridgeNext, UNCHANGED <<handlerState, gone, history>>
  PROVE  IInv'
<1>1. /\ TypeOK /\ BridgeTypeOK /\ BridgeSound /\ CallbackSound /\ Shielded
      /\ HandlerSound /\ PathSound /\ ResultsSound /\ Counted /\ AnswerSound /\ AllPaid
      /\ HandlerTypeOK
  BY TypeParts DEF IInv, TypeOK, FlowInv, BridgeSound
<1>2. UNCHANGED <<published, directly, input, apc, idx, route, dexec, results, accepted,
                  failed, answer, gone>>
  BY DEF handlerState, history
<1>3. BridgeTypeOK' /\ Grows /\ \A m \in Own : sent'[m] = sent[m]
  BY <1>1, BridgeTypeStep, BridgeGrows
<1>4. BridgeSound' /\ Shielded'
  BY <1>1, <1>3, BridgeSoundStep, ShieldedStep
<1>5. HandlerSound' /\ Counted' /\ AnswerSound'
  BY <1>1, <1>2 DEF HandlerSound, Counted, AnswerSound, Sync, Oks
<1>6. \A m \in Messages : executed[m] > 0 => executed'[m] > 0
  <2>1. SUFFICES ASSUME NEW m \in Messages, executed[m] > 0 PROVE executed'[m] > 0
    OBVIOUS
  <2>2. executed[m] \in Nat /\ executed'[m] \in Nat /\ executed'[m] >= executed[m]
    BY <1>1, <1>3 DEF BridgeTypeOK, Grows
  <2> QED BY <2>1, <2>2
<1>7. PathSound'
  <2>1. ASSUME NEW c \in Requests PROVE PathOK(c)'
    <3>1. PathOK(c)
      BY <1>1 DEF PathSound
    <3>2. apc[c] \in Active => msg(c) \in Own /\ msg(c) \in Messages
      BY <1>1, ItemFacts
    <3>3. dexec[c] => executed'[msg(c)] > 0
      BY <1>6, <3>1, <3>2 DEF PathOK, Active
    <3>4. msg(c)' = msg(c) /\ it(c)' = it(c)
      BY <1>2 DEF msg, it
    <3>5. apc[c] = "wait" => sent'[msg(c)] = sent[msg(c)]
      BY <1>3, <3>2 DEF Active
    <3> QED BY <1>2, <3>1, <3>3, <3>4, <3>5 DEF PathOK
  <2>2. published' \cup directly' \subseteq Own
    BY <1>1, <1>2 DEF PathSound
  <2>3. \A m \in Own : sent'[m] # None => m \in published'
    BY <1>1, <1>2, <1>3 DEF PathSound
  <2> QED BY <2>1, <2>2, <2>3 DEF PathSound
<1>8. ResultsSound'
  <2>1. SUFFICES ASSUME NEW c \in Requests, NEW i \in 1 .. Len(results[c])
                 PROVE  ResultSound(c, i, results[c][i])'
    BY <1>2 DEF ResultsSound
  <2>2. ResultSound(c, i, results[c][i])
    BY <1>1 DEF ResultsSound
  <2>3. results[c] \in Seq(Result) /\ Len(results[c]) \in Nat /\ idx[c] \in 1 .. MaxItems + 1
        /\ idx[c] = Len(results[c]) + 1
    BY <1>1 DEF TypeOK, HandlerSound
  <2>4. i \in 1 .. MaxItems
    BY <2>3, TransferAssumption
  <2>5. <<c, i>> \in Messages
    BY <2>4, MessageFacts DEF Own
  <2> QED BY <1>2, <1>3, <1>6, <2>2, <2>5 DEF ResultSound, Grows
<1>9. AllPaid'
  BY <1>1, <1>3, BridgePays
<1>10. TypeOK'
  BY <1>1, <1>2, <1>3 DEF TypeOK
<1> QED BY <1>4, <1>5, <1>7, <1>8, <1>9, <1>10 DEF IInv, FlowInv

LEMMA InitIInv == Init => IInv
<1> SUFFICES ASSUME Init PROVE IInv
  OBVIOUS
<1>1. TypeOK
  BY BridgeAssumption, TransferAssumption
     DEF Init, BridgeInit, TypeOK, BridgeTypeOK, Routes
<1>2. BridgeSound
  BY NoneAssumption DEF Init, BridgeInit, BridgeSound, CallbackSound, CallbackOK,
     UnsentUndelivered, AnswersGenuine, Outcomes
<1>3. Shielded
  BY DEF Init, BridgeInit, Shielded, isCircuitOpen
<1>4. FlowInv
  <2>1. \A c \in Requests : Len(results[c]) = 0 /\ results[c] = <<>> /\ idx[c] = 1
    BY DEF Init
  <2>2. HandlerSound
    BY <2>1 DEF Init, HandlerSound, Active
  <2>3. PathSound
    BY MessageFacts DEF Init, BridgeInit, PathSound, PathOK
  <2>4. ResultsSound
    BY <2>1 DEF ResultsSound
  <2> QED BY <2>2, <2>3, <2>4 DEF FlowInv
<1>5. Counted
  <2>1. SUFFICES ASSUME NEW c \in Requests
                 PROVE  accepted[c] = Cardinality(Oks(c)) /\ accepted[c] + failed[c] = Len(results[c])
    BY DEF Counted
  <2>2. Oks(c) = {} /\ accepted[c] = 0 /\ failed[c] = 0 /\ Len(results[c]) = 0
    BY DEF Init, Oks
  <2> QED BY <2>2, FS_EmptySet
<1>6. AnswerSound
  BY DEF Init, AnswerSound
<1>7. AllPaid
  <2>1. SUFFICES ASSUME NEW m \in Messages PROVE Paid(m)
    BY DEF AllPaid
  <2>2. Potential(m) = {} /\ Cardinality({}) = 0
    BY FS_EmptySet, MessageFacts DEF Init, BridgeInit, Potential, Slots
  <2>3. Due(m) = 0 /\ Direct(m) = 0 /\ Elsewhere(m) = 0
    BY DEF Init, Due, Direct, Elsewhere
  <2>4. executed[m] = 0 /\ abandoned[m] = 0 /\ deliveries[m] = 0 /\ 0 * Retries = 0
    BY BridgeAssumption DEF Init, BridgeInit
  <2> QED BY <2>2, <2>3, <2>4 DEF Paid, Spent, Budget
<1> QED BY <1>1, <1>2, <1>3, <1>4, <1>5, <1>6, <1>7 DEF IInv

LEMMA StepIInv == IInv /\ [Next]_vars => IInv'
<1> SUFFICES ASSUME IInv, [Next]_vars PROVE IInv'
  OBVIOUS
<1>1. CASE UNCHANGED vars
  <2>1. gone' \subseteq Requests
    BY <1>1 DEF IInv, TypeOK, vars
  <2> QED BY <1>1, <2>1, RestStep DEF vars
<1>2. CASE BridgeNext /\ UNCHANGED <<handlerState, gone, history>>
  BY <1>2, BridgeStep
<1>3. ASSUME NEW c \in Requests,
             \/ \E in \in Inputs : Arrive(c, in)
             \/ DirectExecutes(c) \/ DirectSucceeds(c) \/ DirectFails(c)
             \/ Handler(c)
             \/ HangUp(c)
             \/ PeerServes(c)
      PROVE  IInv'
  <2>1. CASE \E in \in Inputs : Arrive(c, in)
    BY <2>1, ArriveStep
  <2>2. CASE DirectExecutes(c) \/ DirectFails(c)
    BY <2>2, DirectStep
  <2>3. CASE Decide(c)
    BY <2>3, DecideStep
  <2>4. CASE SendPublishes(c)
    BY <2>4, SendStep, EndingSteps
  <2>5. CASE RejectItem(c) \/ SendRefused(c) \/ PublishFails(c) \/ Response(c)
             \/ WaitTimeout(c) \/ WaitCancelled(c) \/ DirectSucceeds(c)
    BY <2>5, EndingSteps
  <2>6. CASE HangUp(c)
    <3>1. gone' \subseteq Requests /\ UNCHANGED <<bridgeVars, handlerState, history>>
      BY <2>6 DEF HangUp, IInv, TypeOK
    <3> QED BY <3>1, RestStep
  <2>7. CASE PeerServes(c)
    BY <2>7, PeerStep
  <2> QED BY <1>3, <2>1, <2>2, <2>3, <2>4, <2>5, <2>6, <2>7 DEF Handler
<1> QED BY <1>1, <1>2, <1>3 DEF Next

(* The inductive invariant holds of every behaviour of the transfer        *)
(* endpoints and the HTTP bridge together.                                 *)
THEOREM Invariance == Spec => []IInv
  BY InitIInv, StepIInv, PTL DEF Spec

(* Type correctness of the transfer endpoints and the bridge. *)
THEOREM TypeCorrect == Spec => []TypeOK
<1>1. IInv => TypeOK
  BY DEF IInv
<1> QED BY <1>1, Invariance, PTL

(* The target executes a transfer at most once over the direct route and   *)
(* at most Retries times for each delivery, whatever fails, times out, is  *)
(* redelivered or is executed late (ExecutionsBounded).                    *)
THEOREM ExecutionsPaidFor == Spec => []ExecutionsBounded
<1>1. IInv => ExecutionsBounded
  <2>1. SUFFICES ASSUME IInv, NEW m \in Messages
                 PROVE  executed[m] + abandoned[m] <=
                          Direct(m) + deliveries[m] * Retries + Elsewhere(m)
    BY DEF ExecutionsBounded, Direct, Elsewhere
  <2>2. BridgeTypeOK /\ Paid(m)
    BY <2>1 DEF IInv, TypeOK, AllPaid
  <2>3. /\ executed[m] \in Nat /\ abandoned[m] \in Nat /\ Cardinality(Potential(m)) \in Nat
        /\ Due(m) \in {0, 1} /\ deliveries[m] * Retries \in Nat
        /\ Direct(m) \in {0, 1} /\ Elsewhere(m) \in {0, 1}
    BY <2>2, PaidTypes
  <2>4. executed[m] + abandoned[m] + Cardinality(Potential(m)) + Due(m) <=
          Direct(m) + deliveries[m] * Retries + Elsewhere(m)
    BY <2>2 DEF Paid, Spent, Budget
  <2> QED BY <2>3, <2>4
<1> QED BY <1>1, Invariance, PTL

(* The domain of the results of a request. *)
LEMMA ResultDomain ==
  ASSUME TypeOK, NEW c \in Requests
  PROVE  /\ DOMAIN results[c] = 1 .. Len(results[c]) /\ Len(results[c]) \in Nat
         /\ \A i \in DOMAIN results[c] : results[c][i] \in Result
  BY DEF TypeOK

(* The route a handler reports is the one that served the transfer, also   *)
(* after a fallback (RouteTellsPath).                                      *)
THEOREM RouteIsReported == Spec => []RouteTellsPath
<1>1. IInv => RouteTellsPath
  <2>1. SUFFICES ASSUME IInv, NEW c \in Requests, NEW i \in DOMAIN results[c]
                 PROVE  /\ results[c][i].route = "direct" /\ results[c][i].ok =>
                             executed[<<c, i>>] > 0 /\ <<c, i>> \notin published
                        /\ results[c][i].route = "broker" /\ results[c][i].ok =>
                             <<c, i>> \in published
    BY DEF RouteTellsPath
  <2>2. i \in 1 .. Len(results[c])
    BY <2>1, ResultDomain DEF IInv
  <2>3. ResultSound(c, i, results[c][i])
    BY <2>1, <2>2 DEF IInv, FlowInv, ResultsSound
  <2> QED BY <2>3 DEF ResultSound
<1> QED BY <1>1, Invariance, PTL

(* A transfer refused with 400 or 403 never reached the broker, and the    *)
(* target at most by the direct call before (RefusedNotSent).              *)
THEOREM RefusalIsFinal == Spec => []RefusedNotSent
<1>1. IInv => RefusedNotSent
  <2>1. SUFFICES ASSUME IInv, NEW c \in Requests, NEW i \in DOMAIN results[c],
                        results[c][i].code \in {400, 403}
                 PROVE  /\ <<c, i>> \notin published
                        /\ executed[<<c, i>>] + abandoned[<<c, i>>] <= Direct(<<c, i>>)
    BY DEF RefusedNotSent, Direct
  <2>2. TypeOK /\ BridgeTypeOK /\ HandlerSound /\ PathSound /\ UnsentUndelivered
    BY <2>1 DEF IInv, TypeOK, FlowInv, BridgeSound
  <2>3. i \in 1 .. Len(results[c]) /\ Len(results[c]) \in Nat
    BY <2>1, <2>2, ResultDomain
  <2>4. <<c, i>> \notin published
    <3>1. ResultSound(c, i, results[c][i])
      BY <2>1, <2>3 DEF IInv, FlowInv, ResultsSound
    <3> QED BY <2>1, <3>1 DEF ResultSound
  <2>5. i \in 1 .. MaxItems
    BY <2>2, <2>3, TransferAssumption DEF TypeOK, HandlerSound
  <2>6. PICK m \in Messages : m = <<c, i>> /\ m \in Own
    BY <2>5, MessageFacts DEF Own
  <2>7. sent[m] = None /\ deliveries[m] = 0 /\ Elsewhere(m) = 0
    BY <2>2, <2>4, <2>6 DEF PathSound, UnsentUndelivered, Elsewhere
  <2>8. 0 * Retries = 0
    BY BridgeAssumption
  <2>9. /\ executed[m] \in Nat /\ abandoned[m] \in Nat /\ Cardinality(Potential(m)) \in Nat
        /\ Due(m) \in {0, 1} /\ Direct(m) \in {0, 1}
    BY <2>2, PaidTypes
  <2>10. Spent(m) <= Budget(m) + Elsewhere(m)
    BY <2>1 DEF IInv, AllPaid, Paid
  <2>11. executed[m] + abandoned[m] + Cardinality(Potential(m)) + Due(m) <= Direct(m)
    BY <2>7, <2>8, <2>9, <2>10 DEF Spent, Budget
  <2>12. executed[m] + abandoned[m] <= Direct(m)
    BY <2>9, <2>11
  <2> QED BY <2>4, <2>6, <2>12
<1> QED BY <1>1, Invariance, PTL

(* The answer of a batch accounts for every item of it, and its code and   *)
(* status tell whether all, some or none went out (BatchAccounts).         *)
THEOREM BatchIsAccounted == Spec => []BatchAccounts
<1>1. IInv => BatchAccounts
  <2> SUFFICES ASSUME IInv, NEW c \in Requests, input[c] # None,
                      input[c].mode = "batch", answer[c] # None
               PROVE
      LET oks == {i \in DOMAIN results[c] : results[c][i].ok}
          out == {i \in DOMAIN results[c] :
                    <<c, i>> \in published \cup directly}
      IN /\ Len(results[c]) = Len(input[c].items)
         /\ accepted[c] = Cardinality(oks)
         /\ accepted[c] + failed[c] = Len(input[c].items)
         /\ oks \subseteq out
         /\ answer[c].code = 202 <=> oks # {}
         /\ answer[c].status = "ok" <=>
              oks = 1 .. Len(input[c].items) /\ oks # {}
    BY DEF BatchAccounts
  <2> DEFINE oks == {i \in DOMAIN results[c] : results[c][i].ok}
             out == {i \in DOMAIN results[c] : <<c, i>> \in published \cup directly}
             n == Len(results[c])
  <2>1. TypeOK /\ HandlerSound /\ ResultsSound /\ Counted /\ AnswerSound
    BY DEF IInv, FlowInv
  <2>2. /\ DOMAIN results[c] = 1 .. n /\ n \in Nat
        /\ \A i \in DOMAIN results[c] : results[c][i] \in Result
    BY <2>1, ResultDomain
  <2>3. oks = Oks(c) /\ oks \subseteq 1 .. n
    BY <2>2 DEF Oks
  <2>4. n = Len(input[c].items)
    BY <2>1 DEF HandlerSound
  <2>5. /\ accepted[c] = Cardinality(oks) /\ accepted[c] + failed[c] = n
        /\ accepted[c] \in Nat /\ failed[c] \in Nat
    BY <2>1, <2>3 DEF Counted, TypeOK
  <2>6. oks \subseteq out
    <3>1. SUFFICES ASSUME NEW i \in oks PROVE <<c, i>> \in published \cup directly
      OBVIOUS
    <3>2. /\ ResultSound(c, i, results[c][i]) /\ results[c][i].ok
          /\ results[c][i].route \in Routes
      BY <2>1, <2>2, <2>3, <3>1 DEF ResultsSound, Result
    <3> QED BY <3>2 DEF ResultSound, Routes
  <2>7. IsFiniteSet(1 .. n) /\ Cardinality(1 .. n) = n
    BY <2>2, FS_Interval
  <2>8. IsFiniteSet(oks)
    BY <2>3, <2>7, FS_Subset
  <2>9. accepted[c] > 0 <=> oks # {}
    <3>1. Cardinality(oks) = 0 <=> oks = {}
      BY <2>8, FS_EmptySet
    <3> QED BY <2>5, <3>1
  <2>10. failed[c] = 0 <=> oks = 1 .. n
    <3>1. Cardinality(oks) = n => oks = 1 .. n
      BY <2>3, <2>7, FS_Subset
    <3>2. oks = 1 .. n => Cardinality(oks) = n
      BY <2>7
    <3>3. failed[c] = 0 <=> Cardinality(oks) = n
      BY <2>2, <2>5
    <3> QED BY <3>1, <3>2, <3>3
  <2>11. /\ answer[c].code = 202 <=> accepted[c] > 0
         /\ answer[c].status = "ok" <=> accepted[c] > 0 /\ failed[c] = 0
    BY <2>1 DEF AnswerSound
  <2> HIDE DEF oks, out, n
  <2>12. answer[c].code = 202 <=> oks # {}
    BY <2>9, <2>11
  <2>13. answer[c].status = "ok" <=> oks = 1 .. Len(input[c].items) /\ oks # {}
    BY <2>4, <2>9, <2>10, <2>11
  <2>14. Len(results[c]) = Len(input[c].items) /\ accepted[c] + failed[c] = Len(input[c].items)
    BY <2>4, <2>5 DEF n
  <2> QED BY <2>5, <2>6, <2>12, <2>13, <2>14 DEF oks, out
<1> QED BY <1>1, Invariance, PTL

(* While the breaker of the HTTP bridge is open, its target gets at most   *)
(* the attempts of the callbacks that had passed the breaker before, all   *)
(* of them but the one whose failure opened it (BreakerShields).           *)
THEOREM BreakerHolds == Spec => []BreakerShields
<1>1. IInv => BreakerShields
  <2> SUFFICES ASSUME IInv, isCircuitOpen
               PROVE  openAttempts < Cardinality(Callbacks) * Retries
    BY DEF BreakerShields
  <2>1. openAttempts + Cardinality(AttemptsLeft) < Cardinality(Callbacks) * Retries
    BY DEF IInv, Shielded
  <2>2. /\ openAttempts \in Nat /\ Cardinality(AttemptsLeft) \in Nat
        /\ Cardinality(Callbacks) * Retries \in Nat
    BY SlotsFinite DEF IInv, TypeOK, BridgeTypeOK, AttemptsLeft
  <2> QED BY <2>1, <2>2
<1> QED BY <1>1, Invariance, PTL

=============================================================================
