----------------------------- MODULE CoapBridge -----------------------------
(***************************************************************************)
(* The CoAP bridge of dd-core (internal/adapter/coap_bridge.go).           *)
(*                                                                         *)
(* Callbacks of the broker client put tasks into the bounded channel reqCh *)
(* and send what does not fit to the dead-letter topic.  A pool of workers *)
(* takes tasks out, calls the CoAP target with retries behind a circuit    *)
(* breaker and publishes the answer of a sync task.  Stop closes stopCh    *)
(* and reqCh and waits for the workers, while callbacks may still run: the *)
(* subscriptions are never cancelled.                                      *)
(***************************************************************************)
EXTENDS Integers, Sequences, FiniteSets

CONSTANTS
  Tasks,       \* one element per message a callback is given
  Workers,     \* the goroutines of the pool
  Messages(_), \* what the message of a task may be like
  None,        \* no task
  QueueSize,   \* queueSize, the capacity of reqCh
  Retries,     \* retries
  FailLimit,   \* failures in a row that open the breaker (3)
  OpenTicks,   \* how long the breaker stays open (5 seconds), in ticks
  MaxTime      \* bound: ticks of the clock

ASSUME PoolAssumption ==
  /\ QueueSize \in Nat /\ OpenTicks \in Nat /\ MaxTime \in Nat
  /\ Retries \in Nat \ {0} /\ FailLimit \in Nat \ {0}
  /\ IsFiniteSet(Workers) /\ Workers # {}
  /\ None \notin Tasks

(* What the handlers tell apart in a message: it does not decode or        *)
(* validate, it is for another protocol, its payload exceeds               *)
(* maxCoapPayloadBytes, or it can be sent.                                 *)
Kinds == [sync : BOOLEAN, class : {"invalid", "foreign", "large", "coap"}]

ASSUME MessagesAssumption == \A t \in Tasks : Messages(t) \subseteq Kinds

Untold == [sync |-> FALSE, class |-> "invalid"]

VARIABLES
  kind,         \* the message of each task, from its delivery on
  tpc,          \* callback of each task: step, then what became of the task
  reqCh,        \* buffered channel of tasks
  stopped,      \* stopCh is closed
  closed,       \* reqCh is closed
  spc,          \* the goroutine that calls Stop
  wpc,          \* worker: step
  wtask,        \* worker: task it handles
  wattempt,     \* worker: attempt of doCoap
  cbFails,      \* circuit breaker: failures since the last success
  cbOpenUntil,  \* circuit breaker: open before this time
  now,          \* time.Now(), in coarse ticks
  panicked,     \* a send on a closed channel ended the process
  openAttempts  \* history: requests sent since the breaker last opened

vars == <<kind, tpc, reqCh, stopped, closed, spc, wpc, wtask, wattempt,
          cbFails, cbOpenUntil, now, panicked, openAttempts>>
stopVars == <<stopped, closed, spc>>
breakerVars == <<cbFails, cbOpenUntil, openAttempts>>
workerVars == <<wpc, wtask, wattempt>>

(* What became of a task that is over. *)
Fates == {"refused", "deadLettered", "ignored", "replied", "delivered"}
TaskSteps == {"idle", "checked", "accepted"} \cup Fates
WorkerSteps == {"idle", "handle", "attempt", "inflight", "finish", "exited"}

TypeOK ==
  /\ kind \in [Tasks -> Kinds]
  /\ tpc \in [Tasks -> TaskSteps]
  /\ reqCh \in Seq(Tasks) /\ Len(reqCh) <= QueueSize
  /\ stopped \in BOOLEAN /\ closed \in BOOLEAN /\ panicked \in BOOLEAN
  /\ spc \in {"running", "closeReq", "wait", "returned"}
  /\ wpc \in [Workers -> WorkerSteps]
  /\ wtask \in [Workers -> Tasks \cup {None}]
  /\ wattempt \in [Workers -> 0 .. Retries]
  /\ cbFails \in Nat /\ cbOpenUntil \in Nat /\ now \in Nat
  /\ openAttempts \in Nat

(* NewCoapBridge and Start.  Time zero is before every time.Now(). *)
Init ==
  /\ kind = [t \in Tasks |-> Untold]
  /\ tpc = [t \in Tasks |-> "idle"]
  /\ reqCh = <<>>
  /\ stopped = FALSE
  /\ closed = FALSE
  /\ spc = "running"
  /\ wpc = [w \in Workers |-> "idle"]
  /\ wtask = [w \in Workers |-> None]
  /\ wattempt = [w \in Workers |-> 0]
  /\ cbFails = 0
  /\ cbOpenUntil = 0
  /\ now = 0
  /\ panicked = FALSE
  /\ openAttempts = 0

-----------------------------------------------------------------------------
(* Callbacks: enqueueTask. *)

Becomes(t, what) == tpc' = [tpc EXCEPT ![t] = what]

(* The task goes to the dead-letter topic; nobody looks at the result of   *)
(* that publish.                                                           *)
publishDLQ == "deadLettered"

(* The first select. *)
CheckStop(t, k) ==
  /\ tpc[t] = "idle"
  /\ kind' = [kind EXCEPT ![t] = k]
  /\ Becomes(t, IF stopped THEN "refused" ELSE "checked")
  /\ UNCHANGED <<reqCh, stopVars, workerVars, breakerVars, now, panicked>>

(* The second select, with room in the channel. *)
Enqueue(t) ==
  /\ tpc[t] = "checked"
  /\ ~closed
  /\ Len(reqCh) < QueueSize
  /\ reqCh' = Append(reqCh, t)
  /\ Becomes(t, "accepted")
  /\ UNCHANGED <<kind, stopVars, workerVars, breakerVars, now, panicked>>

(* A bug: the oldest queued task makes room for the new one. *)
QueueFullDropsOldest(t) ==
  /\ tpc[t] = "checked"
  /\ ~closed
  /\ Len(reqCh) = QueueSize
  /\ QueueSize > 0
  /\ reqCh' = Append(Tail(reqCh), t)
  /\ Becomes(t, "accepted")
  /\ UNCHANGED <<kind, stopVars, workerVars, breakerVars, now, panicked>>

(* The second select without room, and publishDLQ. *)
QueueFull(t) ==
  /\ tpc[t] = "checked"
  /\ ~closed
  /\ Len(reqCh) = QueueSize
  /\ Becomes(t, publishDLQ)
  /\ UNCHANGED <<kind, reqCh, stopVars, workerVars, breakerVars, now,
                 panicked>>

(* The second select on a closed channel panics, default clause or not. *)
SendOnClosed(t) ==
  /\ tpc[t] = "checked"
  /\ closed
  /\ panicked' = TRUE
  /\ UNCHANGED <<kind, tpc, reqCh, stopVars, workerVars, breakerVars, now>>

-----------------------------------------------------------------------------
(* The circuit breaker. *)

isCircuitOpen == now < cbOpenUntil

markFailure ==
  /\ cbFails' = cbFails + 1
  /\ IF cbFails + 1 >= FailLimit
     THEN /\ cbOpenUntil' = now + OpenTicks
          /\ openAttempts' = IF isCircuitOpen THEN openAttempts ELSE 0
     ELSE UNCHANGED <<cbOpenUntil, openAttempts>>

markSuccess == cbFails' = 0 /\ cbOpenUntil' = 0 /\ openAttempts' = 0

-----------------------------------------------------------------------------
(* Workers. *)

Step(w, from, to) == wpc[w] = from /\ wpc' = [wpc EXCEPT ![w] = to]

(* The worker is done with its task. *)
EndTask(w, from, fate) ==
  /\ Step(w, from, "idle")
  /\ Becomes(wtask[w], fate)
  /\ wtask' = [wtask EXCEPT ![w] = None]
  /\ wattempt' = [wattempt EXCEPT ![w] = 0]

(* range over reqCh: the next task. *)
Take(w) ==
  /\ Step(w, "idle", "handle")
  /\ reqCh # <<>>
  /\ wtask' = [wtask EXCEPT ![w] = Head(reqCh)]
  /\ reqCh' = Tail(reqCh)
  /\ UNCHANGED <<kind, tpc, stopVars, wattempt, breakerVars, now, panicked>>

(* A bug: the worker looks at stopCh and leaves its queue behind. *)
ExitOnStop(w) ==
  /\ Step(w, "idle", "exited")
  /\ stopped
  /\ UNCHANGED <<kind, tpc, reqCh, stopVars, wtask, wattempt, breakerVars,
                 now, panicked>>

(* range over reqCh ends: the channel is closed and empty. *)
Exit(w) ==
  /\ Step(w, "idle", "exited")
  /\ closed
  /\ reqCh = <<>>
  /\ UNCHANGED <<kind, tpc, reqCh, stopVars, wtask, wattempt, breakerVars,
                 now, panicked>>

(* handleSyncRequest / handleAsyncEvent before doCoap: a message that does *)
(* not decode or validate is dead-lettered, one for another protocol is    *)
(* left to the bridge of that protocol.                                    *)
Reject(w) ==
  /\ wpc[w] = "handle"
  /\ \/ kind[wtask[w]].class = "invalid" /\ EndTask(w, "handle", publishDLQ)
     \/ kind[wtask[w]].class = "foreign" /\ EndTask(w, "handle", "ignored")
  /\ UNCHANGED <<kind, reqCh, stopVars, breakerVars, now, panicked>>

(* doCoap gives up before its first attempt: breaker open, payload too     *)
(* large, or an address that does not resolve.                             *)
GiveUp(w) ==
  /\ Step(w, "handle", "finish")
  /\ kind[wtask[w]].class \in {"large", "coap"}
  /\ UNCHANGED <<kind, tpc, reqCh, stopVars, wtask, wattempt, breakerVars,
                 now, panicked>>

(* A bug: doCoap does not look at the breaker. *)
StartUnchecked(w) ==
  /\ Step(w, "handle", "attempt")
  /\ kind[wtask[w]].class = "coap"
  /\ wattempt' = [wattempt EXCEPT ![w] = 1]
  /\ UNCHANGED <<kind, tpc, reqCh, stopVars, wtask, breakerVars, now,
                 panicked>>

(* doCoap passes the breaker and enters its retry loop. *)
StartAttempts(w) ==
  /\ Step(w, "handle", "attempt")
  /\ kind[wtask[w]].class = "coap"
  /\ ~isCircuitOpen
  /\ wattempt' = [wattempt EXCEPT ![w] = 1]
  /\ UNCHANGED <<kind, tpc, reqCh, stopVars, wtask, breakerVars, now,
                 panicked>>

(* The request goes out; the loop does not ask the breaker again. *)
Attempt(w) ==
  /\ Step(w, "attempt", "inflight")
  /\ openAttempts' = IF isCircuitOpen THEN openAttempts + 1 ELSE openAttempts
  /\ UNCHANGED <<kind, tpc, reqCh, stopVars, wtask, wattempt, cbFails,
                 cbOpenUntil, now, panicked>>

(* A bug: a failed attempt is not counted, neither by the loop nor by the  *)
(* breaker.                                                                *)
AttemptFailsUncounted(w) ==
  /\ Step(w, "inflight", "attempt")
  /\ UNCHANGED <<kind, tpc, reqCh, stopVars, wtask, wattempt, breakerVars,
                 now, panicked>>

(* Dial, write or read fails: markFailure, then sleep and retry, or give   *)
(* up after the last attempt.                                              *)
AttemptFails(w) ==
  /\ \/ /\ wattempt[w] < Retries
        /\ Step(w, "inflight", "attempt")
        /\ wattempt' = [wattempt EXCEPT ![w] = @ + 1]
     \/ /\ wattempt[w] = Retries
        /\ Step(w, "inflight", "finish")
        /\ UNCHANGED wattempt
  /\ markFailure
  /\ UNCHANGED <<kind, tpc, reqCh, stopVars, wtask, now, panicked>>

(* SetDeadline fails or the connection was closed: an error body, and the  *)
(* breaker is left alone.                                                  *)
AttemptAborts(w) ==
  /\ Step(w, "inflight", "finish")
  /\ UNCHANGED <<kind, tpc, reqCh, stopVars, wtask, wattempt, breakerVars,
                 now, panicked>>

AttemptSucceeds(w) ==
  /\ Step(w, "inflight", "finish")
  /\ markSuccess
  /\ UNCHANGED <<kind, tpc, reqCh, stopVars, wtask, wattempt, now, panicked>>

(* After doCoap, sync: the body, which may be an error body, is published, *)
(* or the reply is dead-lettered when that fails.                          *)
Reply(w) ==
  /\ wpc[w] = "finish"
  /\ kind[wtask[w]].sync
  /\ EndTask(w, "finish", "replied") \/ EndTask(w, "finish", publishDLQ)
  /\ UNCHANGED <<kind, reqCh, stopVars, breakerVars, now, panicked>>

(* After doCoap, async: there is nobody to answer. *)
AsyncDone(w) ==
  /\ wpc[w] = "finish"
  /\ ~kind[wtask[w]].sync
  /\ EndTask(w, "finish", "delivered")
  /\ UNCHANGED <<kind, reqCh, stopVars, breakerVars, now, panicked>>

-----------------------------------------------------------------------------
(* Stop, and the clock. *)

CloseStopCh ==
  /\ spc = "running"
  /\ spc' = "closeReq"
  /\ stopped' = TRUE
  /\ UNCHANGED <<kind, tpc, reqCh, closed, workerVars, breakerVars, now,
                 panicked>>

(* A bug: Stop leaves reqCh open. *)
KeepReqChOpen ==
  /\ spc = "closeReq"
  /\ spc' = "wait"
  /\ UNCHANGED <<kind, tpc, reqCh, stopped, closed, workerVars, breakerVars,
                 now, panicked>>

CloseReqCh ==
  /\ spc = "closeReq"
  /\ spc' = "wait"
  /\ closed' = TRUE
  /\ UNCHANGED <<kind, tpc, reqCh, stopped, workerVars, breakerVars, now,
                 panicked>>

StopReturns ==
  /\ spc = "wait"
  /\ \A w \in Workers : wpc[w] = "exited"
  /\ spc' = "returned"
  /\ UNCHANGED <<kind, tpc, reqCh, stopped, closed, workerVars, breakerVars,
                 now, panicked>>

Tick ==
  /\ now < MaxTime
  /\ now' = now + 1
  /\ UNCHANGED <<kind, tpc, reqCh, stopVars, workerVars, breakerVars,
                 panicked>>

-----------------------------------------------------------------------------

Callback(t) ==
  \/ \E k \in Messages(t) : CheckStop(t, k)
  \/ Enqueue(t)
  \/ QueueFull(t)
  \/ SendOnClosed(t)

DoCoap(w) ==
  \/ GiveUp(w)
  \/ StartAttempts(w)
  \/ Attempt(w)
  \/ AttemptFails(w)
  \/ AttemptAborts(w)
  \/ AttemptSucceeds(w)

Worker(w) ==
  Take(w) \/ Exit(w) \/ Reject(w) \/ DoCoap(w) \/ Reply(w) \/ AsyncDone(w)

Stop == CloseStopCh \/ CloseReqCh \/ StopReturns

(* A panic in any goroutine ends the process. *)
Next ==
  /\ ~panicked
  /\ \/ \E t \in Tasks : Callback(t)
     \/ \E w \in Workers : Worker(w)
     \/ Stop
     \/ Tick

Spec == Init /\ [][Next]_vars

(* Workers run; a network call ends by its deadline and a publish returns. *)
(* Stop, once called, goes on.  Whether and when it is called is open.     *)
FairSpec ==
  /\ Spec
  /\ \A w \in Workers : WF_vars(Worker(w) /\ ~panicked)
  /\ WF_vars((CloseReqCh \/ StopReturns) /\ ~panicked)

-----------------------------------------------------------------------------
(* Properties. *)

Queued(t) == \E i \in DOMAIN reqCh : reqCh[i] = t
HeldBy(t) == {w \in Workers : wtask[w] = t}

(* No accepted task is lost or handled twice: until it is over it is once  *)
(* in the channel or with exactly one worker, and after that with nobody,  *)
(* although callbacks fill the channel, up to its size, while workers      *)
(* empty it and Stop closes it.                                            *)
TaskConservation ==
  /\ Len(reqCh) <= QueueSize
  /\ \A t \in Tasks :
       /\ Queued(t) => tpc[t] = "accepted" /\ HeldBy(t) = {}
       /\ HeldBy(t) # {} => tpc[t] = "accepted" /\ Cardinality(HeldBy(t)) = 1
       /\ tpc[t] = "accepted" => Queued(t) \/ HeldBy(t) # {}
       /\ \A i, j \in DOMAIN reqCh : reqCh[i] = t /\ reqCh[j] = t => i = j

(* Stop waits for the work: once it has returned, every task a callback    *)
(* put into the channel is over.                                           *)
StopDrains ==
  spc = "returned" => \A t \in Tasks : tpc[t] # "accepted"

(* While the breaker is open the target gets at most the attempts of the   *)
(* workers that had passed the breaker before: all of them but the one     *)
(* whose failure opened it.  The retry loop does not ask the breaker       *)
(* again, so the bound is not zero.                                        *)
BreakerShields ==
  isCircuitOpen => openAttempts < Cardinality(Workers) * Retries

(* Once Stop is called it returns: no worker waits for ever on the channel *)
(* or on the target (or the process has panicked).                         *)
StopEnds == spc = "closeReq" ~> spc = "returned" \/ panicked

(* Every accepted task is over some day, whatever the target does.         *)
AcceptedEnds ==
  \A t \in Tasks : tpc[t] = "accepted" ~> tpc[t] \in Fates \/ panicked

(* What the plan says of Stop: it shuts the bridge down gracefully, so no  *)
(* callback that runs meanwhile brings the process down.                   *)
GracefulStop == ~panicked

=============================================================================
