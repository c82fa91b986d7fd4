-------------------------- MODULE CoapBridge_proofs --------------------------
(***************************************************************************)
(* Proofs about CoapBridge, for every number of tasks and workers, every   *)
(* queue size and number of retries: no accepted task is lost or handled   *)
(* twice, Stop waits for the work, and the breaker shields the target.     *)
(***************************************************************************)
EXTENDS CoapBridge, FiniteSetTheorems, TLAPS

(* A worker has a task from Take until the task is over. *)
Busy == {"handle", "attempt", "inflight", "finish"}
BusyHoldsTask == \A w \in Workers : wpc[w] \in Busy <=> wtask[w] # None

(* A task is in the channel at most once. *)
QueuedOnce == \A i, j \in 1 .. Len(reqCh) : reqCh[i] = reqCh[j] => i = j

(* What is in the channel is accepted and with no worker. *)
QueuedIsFree ==
  \A i \in 1 .. Len(reqCh) :
    tpc[reqCh[i]] = "accepted" /\ \A w \in Workers : wtask[w] # reqCh[i]

(* What a worker has is accepted and with no other worker. *)
HeldOnce ==
  \A w \in Workers :
    wtask[w] # None =>
      tpc[wtask[w]] = "accepted" /\ \A v \in Workers : wtask[v] = wtask[w] => v = w

(* An accepted task is in the channel or with a worker. *)
Accounted ==
  \A t \in Tasks :
    tpc[t] = "accepted" =>
      \/ \E i \in 1 .. Len(reqCh) : reqCh[i] = t
      \/ \E w \in Workers : wtask[w] = t

(* A worker that has left saw the channel closed and empty, and it stays   *)
(* so; Stop returns when all have left.                                    *)
LeftDrained ==
  /\ spc \in {"wait", "returned"} => closed
  /\ \A w \in Workers : wpc[w] = "exited" => closed /\ reqCh = <<>>
  /\ spc = "returned" => \A w \in Workers : wpc[w] = "exited"

Conserved == QueuedOnce /\ QueuedIsFree /\ HeldOnce /\ Accounted

IInv == TypeOK /\ BusyHoldsTask /\ Conserved /\ LeftDrained

(* The requests that workers which have passed the breaker may still send: *)
(* worker and attempt.                                                     *)
AttemptsLeft ==
  {p \in Workers \X (1 .. Retries) :
     \/ wpc[p[1]] = "attempt" /\ wattempt[p[1]] <= p[2]
     \/ wpc[p[1]] = "inflight" /\ wattempt[p[1]] < p[2]}

(* What was sent since the breaker opened and what can still be sent make  *)
(* up fewer attempts than all workers have together.                       *)
Shielded ==
  /\ \A w \in Workers : wpc[w] \in {"attempt", "inflight"} => wattempt[w] >= 1
  /\ isCircuitOpen =>
       openAttempts + Cardinality(AttemptsLeft) < Cardinality(Workers) * Retries

USE DEF stopVars, breakerVars, workerVars

-----------------------------------------------------------------------------
(* The channel. *)

(* Append puts the task behind the ones that wait. *)
LEMMA AppendElements ==
  ASSUME NEW s \in Seq(Tasks), NEW t \in Tasks
  PROVE  /\ Append(s, t) \in Seq(Tasks)
         /\ Len(Append(s, t)) = Len(s) + 1
         /\ \A i \in 1 .. Len(s) : Append(s, t)[i] = s[i]
         /\ Append(s, t)[Len(s) + 1] = t
  OBVIOUS

(* Take leaves the others in the order they came. *)
LEMMA TailElements ==
  ASSUME NEW s \in Seq(Tasks), s # <<>>
  PROVE  /\ Tail(s) \in Seq(Tasks)
         /\ Len(s) \in Nat \ {0}
         /\ Len(Tail(s)) = Len(s) - 1
         /\ \A i \in 1 .. Len(s) - 1 : Tail(s)[i] = s[i + 1]
         /\ Head(s) = s[1] /\ Head(s) \in Tasks
  OBVIOUS

-----------------------------------------------------------------------------
(* Steps. *)

(* NewCoapBridge and Start. *)
LEMMA InitIInv == Init => IInv
<1> SUFFICES ASSUME Init PROVE IInv
  OBVIOUS
<1>1. Untold \in Kinds
  BY DEF Untold, Kinds
<1>2. TypeOK
  <2>1. kind \in [Tasks -> Kinds] /\ tpc \in [Tasks -> TaskSteps]
    BY <1>1 DEF Init, TaskSteps
  <2>2. reqCh \in Seq(Tasks) /\ Len(reqCh) <= QueueSize
    BY PoolAssumption DEF Init
  <2>3. /\ stopped \in BOOLEAN /\ closed \in BOOLEAN /\ panicked \in BOOLEAN
        /\ spc \in {"running", "closeReq", "wait", "returned"}
    BY DEF Init
  <2>4. /\ wpc \in [Workers -> WorkerSteps]
        /\ wtask \in [Workers -> Tasks \cup {None}]
        /\ wattempt \in [Workers -> 0 .. Retries]
    BY PoolAssumption DEF Init, WorkerSteps
  <2>5. cbFails \in Nat /\ cbOpenUntil \in Nat /\ now \in Nat /\ openAttempts \in Nat
    BY DEF Init
  <2> QED BY <2>1, <2>2, <2>3, <2>4, <2>5 DEF TypeOK
<1>3. BusyHoldsTask
  BY DEF Init, BusyHoldsTask, Busy
<1>4. Len(reqCh) = 0
  BY DEF Init
<1>5. Conserved
  BY <1>4 DEF Init, Conserved, QueuedOnce, QueuedIsFree, HeldOnce, Accounted
<1>6. LeftDrained
  BY DEF Init, LeftDrained
<1> QED BY <1>2, <1>3, <1>5, <1>6 DEF IInv

(* What a task becomes while nobody has it, other than accepted, concerns  *)
(* neither the channel nor the workers.                                    *)
LEMMA FreeTaskMoves ==
  ASSUME IInv, NEW t \in Tasks, NEW what \in TaskSteps \ {"accepted"},
         tpc[t] # "accepted", Becomes(t, what),
         UNCHANGED <<reqCh, wpc, wtask, closed, spc>>
  PROVE  BusyHoldsTask' /\ Conserved' /\ LeftDrained'
<1>1. \A u \in Tasks : /\ u # t => tpc'[u] = tpc[u]
                       /\ tpc'[u] = "accepted" <=> tpc[u] = "accepted"
  BY DEF IInv, TypeOK, Becomes
<1>2. \A i \in 1 .. Len(reqCh) : reqCh[i] \in Tasks
  BY DEF IInv, TypeOK
<1>3. \A w \in Workers : wtask[w] # None => wtask[w] \in Tasks
  BY DEF IInv, TypeOK
<1>4. QueuedIsFree'
  BY <1>1, <1>2 DEF IInv, Conserved, QueuedIsFree
<1>5. HeldOnce'
  BY <1>1, <1>3 DEF IInv, Conserved, HeldOnce
<1>6. Accounted'
  BY <1>1 DEF IInv, Conserved, Accounted
<1> QED BY <1>4, <1>5, <1>6
        DEF IInv, Conserved, QueuedOnce, BusyHoldsTask, LeftDrained

(* A worker that is done with its task keeps the rest as it was. *)
LEMMA EndTaskKeeps ==
  ASSUME IInv, NEW w \in Workers, NEW from \in Busy, NEW fate \in Fates,
         EndTask(w, from, fate),
         UNCHANGED <<kind, reqCh, stopVars, breakerVars, now, panicked>>
  PROVE  IInv'
<1>1. wtask[w] \in Tasks /\ wtask[w] # None
  BY DEF IInv, TypeOK, BusyHoldsTask, EndTask, Step
<1>2. /\ \A v \in Workers : v # w => wpc'[v] = wpc[v] /\ wtask'[v] = wtask[v]
      /\ wpc'[w] = "idle" /\ wtask'[w] = None
  BY DEF IInv, TypeOK, EndTask, Step
<1>3. /\ \A u \in Tasks : u # wtask[w] => tpc'[u] = tpc[u]
      /\ tpc'[wtask[w]] = fate /\ fate # "accepted"
  BY <1>1 DEF IInv, TypeOK, EndTask, Becomes, Fates
<1>4. TypeOK'
  BY <1>1, PoolAssumption
  DEF IInv, TypeOK, EndTask, Step, Becomes, TaskSteps, WorkerSteps
<1>5. BusyHoldsTask'
  BY <1>2 DEF IInv, BusyHoldsTask, Busy
<1>6. \A i \in 1 .. Len(reqCh) : reqCh[i] \in Tasks /\ reqCh[i] # wtask[w]
  BY DEF IInv, TypeOK, Conserved, QueuedIsFree
<1>7. \A v \in Workers :
        wtask[v] # None => wtask[v] \in Tasks /\ (v # w => wtask[v] # wtask[w])
  BY DEF IInv, TypeOK, Conserved, HeldOnce
<1>8. QueuedIsFree'
  BY <1>1, <1>2, <1>3, <1>6, PoolAssumption DEF IInv, Conserved, QueuedIsFree
<1>9. HeldOnce'
  BY <1>2, <1>3, <1>7 DEF IInv, Conserved, HeldOnce
<1>10. Accounted'
  BY <1>1, <1>2, <1>3 DEF IInv, Conserved, Accounted
<1>11. LeftDrained'
  BY <1>2 DEF IInv, LeftDrained, EndTask, Step, Busy
<1> QED BY <1>4, <1>5, <1>8, <1>9, <1>10, <1>11 DEF IInv, Conserved, QueuedOnce

(* Within doCoap a worker has its task and nothing moves. *)
LEMMA DoCoapKeeps ==
  ASSUME IInv, NEW w \in Workers, DoCoap(w)
  PROVE  IInv'
<1> USE PoolAssumption
<1>1. /\ UNCHANGED <<kind, tpc, reqCh, stopVars, wtask, now, panicked>>
      /\ wpc[w] \in Busy
      /\ \E to \in Busy : wpc' = [wpc EXCEPT ![w] = to]
  BY DEF DoCoap, GiveUp, StartAttempts, Attempt, AttemptFails, AttemptAborts,
         AttemptSucceeds, Step, Busy
<1>2. wattempt' \in [Workers -> 0 .. Retries]
  BY DEF DoCoap, GiveUp, StartAttempts, Attempt, AttemptFails, AttemptAborts,
         AttemptSucceeds, IInv, TypeOK
<1>3. cbFails' \in Nat /\ cbOpenUntil' \in Nat /\ openAttempts' \in Nat
  BY DEF DoCoap, GiveUp, StartAttempts, Attempt, AttemptFails, AttemptAborts,
         AttemptSucceeds, markFailure, markSuccess, IInv, TypeOK
<1>4. TypeOK'
  BY <1>1, <1>2, <1>3 DEF IInv, TypeOK, WorkerSteps, Busy
<1>5. BusyHoldsTask' /\ LeftDrained'
  BY <1>1 DEF IInv, TypeOK, BusyHoldsTask, LeftDrained, Busy
<1>6. Conserved'
  BY <1>1 DEF IInv, Conserved, QueuedOnce, QueuedIsFree, HeldOnce, Accounted
<1> QED BY <1>4, <1>5, <1>6 DEF IInv

(* The callback puts its task into the channel. *)
LEMMA EnqueueKeeps ==
  ASSUME IInv, NEW t \in Tasks, Enqueue(t)
  PROVE  IInv'
<1> DEFINE n == Len(reqCh)
<1>1. /\ reqCh' \in Seq(Tasks) /\ n \in Nat
      /\ Len(reqCh') = n + 1
      /\ \A i \in 1 .. n : reqCh'[i] = reqCh[i] /\ reqCh[i] \in Tasks
      /\ reqCh'[n + 1] = t
  BY AppendElements DEF IInv, TypeOK, Enqueue
<1>2. /\ tpc[t] # "accepted" /\ tpc'[t] = "accepted"
      /\ \A u \in Tasks : u # t => tpc'[u] = tpc[u]
  BY DEF IInv, TypeOK, Enqueue, Becomes
<1>3. TypeOK'
  BY <1>1, PoolAssumption DEF IInv, TypeOK, Enqueue, Becomes, TaskSteps
<1>4. \A i \in 1 .. n : reqCh[i] # t
  BY <1>2 DEF IInv, Conserved, QueuedIsFree
<1>5. \A w \in Workers : wtask[w] # t
  BY <1>2, PoolAssumption DEF IInv, Conserved, HeldOnce
<1>6. wtask' = wtask /\ wpc' = wpc /\ ~closed /\ closed' = closed /\ spc' = spc
  BY DEF Enqueue
<1>7. QueuedOnce'
  <2> SUFFICES ASSUME NEW i \in 1 .. n + 1, NEW j \in 1 .. n + 1,
                      reqCh'[i] = reqCh'[j]
               PROVE  i = j
    BY <1>1 DEF QueuedOnce
  <2>1. CASE i \in 1 .. n /\ j \in 1 .. n
    BY <1>1, <2>1 DEF IInv, Conserved, QueuedOnce
  <2>2. CASE i = n + 1 \/ j = n + 1
    BY <1>1, <1>4, <2>2
  <2> QED BY <1>1, <2>1, <2>2
<1>8. QueuedIsFree'
  <2> SUFFICES ASSUME NEW i \in 1 .. n + 1
               PROVE  /\ tpc'[reqCh'[i]] = "accepted"
                      /\ \A w \in Workers : wtask[w] # reqCh'[i]
    BY <1>1, <1>6 DEF QueuedIsFree
  <2>1. CASE i \in 1 .. n
    BY <1>1, <1>2, <2>1 DEF IInv, Conserved, QueuedIsFree
  <2>2. CASE i = n + 1
    BY <1>1, <1>2, <1>5, <2>2
  <2> QED BY <1>1, <2>1, <2>2
<1>9. HeldOnce'
  BY <1>2, <1>5, <1>6 DEF IInv, TypeOK, Conserved, HeldOnce
<1>10. Accounted'
  <2> SUFFICES ASSUME NEW u \in Tasks, tpc'[u] = "accepted"
               PROVE  \/ \E i \in 1 .. n + 1 : reqCh'[i] = u
                      \/ \E w \in Workers : wtask[w] = u
    BY <1>1, <1>6 DEF Accounted
  <2>1. CASE u = t
    BY <1>1, <2>1
  <2>2. CASE u # t
    <3>1. CASE \E w \in Workers : wtask[w] = u
      BY <3>1
    <3>2. CASE \E i \in 1 .. n : reqCh[i] = u
      BY <1>1, <3>2
    <3> QED BY <1>2, <2>2, <3>1, <3>2 DEF IInv, Conserved, Accounted
  <2> QED BY <2>1, <2>2
<1>11. BusyHoldsTask' /\ LeftDrained'
  BY <1>6 DEF IInv, BusyHoldsTask, LeftDrained
<1> QED BY <1>3, <1>7, <1>8, <1>9, <1>10, <1>11 DEF IInv, Conserved

(* A worker takes the oldest task. *)
LEMMA TakeKeeps ==
  ASSUME IInv, NEW w \in Workers, Take(w)
  PROVE  IInv'
<1> DEFINE n == Len(reqCh)
           t == reqCh[1]
<1>1. /\ reqCh' \in Seq(Tasks) /\ n \in Nat \ {0}
      /\ Len(reqCh') = n - 1
      /\ \A i \in 1 .. n - 1 : reqCh'[i] = reqCh[i + 1]
      /\ Head(reqCh) = t /\ t \in Tasks
  BY TailElements DEF IInv, TypeOK, Take
<1>2. /\ wpc[w] = "idle" /\ wpc'[w] = "handle" /\ wtask'[w] = t
      /\ \A v \in Workers : v # w => wpc'[v] = wpc[v] /\ wtask'[v] = wtask[v]
      /\ tpc' = tpc /\ closed' = closed /\ spc' = spc
  BY <1>1 DEF IInv, TypeOK, Take, Step
<1>3. wtask[w] = None /\ t # None
  BY <1>1, <1>2, PoolAssumption DEF IInv, BusyHoldsTask, Busy
<1>4. tpc[t] = "accepted" /\ \A v \in Workers : wtask[v] # t
  BY <1>1 DEF IInv, Conserved, QueuedIsFree
<1>5. \A i \in 1 .. n : i # 1 => reqCh[i] # t
  BY <1>1 DEF IInv, Conserved, QueuedOnce
<1>6. TypeOK'
  BY <1>1, PoolAssumption DEF IInv, TypeOK, Take, Step, WorkerSteps
<1>7. BusyHoldsTask'
  BY <1>2, <1>3 DEF IInv, BusyHoldsTask, Busy
<1>8. QueuedOnce'
  <2> SUFFICES ASSUME NEW i \in 1 .. n - 1, NEW j \in 1 .. n - 1,
                      reqCh'[i] = reqCh'[j]
               PROVE  i = j
    BY <1>1 DEF QueuedOnce
  <2>1. i + 1 \in 1 .. n /\ j + 1 \in 1 .. n /\ reqCh[i + 1] = reqCh[j + 1]
    BY <1>1
  <2>2. i + 1 = j + 1
    BY <2>1 DEF IInv, Conserved, QueuedOnce
  <2> QED BY <2>2
<1>9. QueuedIsFree'
  <2> SUFFICES ASSUME NEW i \in 1 .. n - 1
               PROVE  /\ tpc[reqCh'[i]] = "accepted"
                      /\ \A v \in Workers : wtask'[v] # reqCh'[i]
    BY <1>1, <1>2 DEF QueuedIsFree
  <2>1. i + 1 \in 1 .. n /\ i + 1 # 1 /\ reqCh'[i] = reqCh[i + 1]
    BY <1>1
  <2>2. /\ tpc[reqCh[i + 1]] = "accepted"
        /\ \A v \in Workers : wtask[v] # reqCh[i + 1]
    BY <2>1 DEF IInv, Conserved, QueuedIsFree
  <2>3. reqCh[i + 1] # t
    BY <1>5, <2>1
  <2> QED BY <1>2, <2>1, <2>2, <2>3
<1>10. HeldOnce'
  BY <1>2, <1>3, <1>4 DEF IInv, Conserved, HeldOnce
<1>11. Accounted'
  <2> SUFFICES ASSUME NEW u \in Tasks, tpc[u] = "accepted"
               PROVE  \/ \E i \in 1 .. n - 1 : reqCh'[i] = u
                      \/ \E v \in Workers : wtask'[v] = u
    BY <1>1, <1>2 DEF Accounted
  <2>1. CASE u = t
    BY <1>2, <2>1
  <2>2. CASE \E v \in Workers : wtask[v] = u
    BY <1>2, <1>3, <2>2, PoolAssumption
  <2>3. ASSUME NEW i \in 1 .. n, reqCh[i] = u, u # t
        PROVE  \E j \in 1 .. n - 1 : reqCh'[j] = u
    <3>1. i - 1 \in 1 .. n - 1 /\ reqCh'[i - 1] = reqCh[i]
      BY <1>1, <2>3
    <3> QED BY <2>3, <3>1
  <2> QED BY <2>1, <2>2, <2>3 DEF IInv, Conserved, Accounted
<1>12. LeftDrained'
  BY <1>1, <1>2 DEF IInv, LeftDrained, Take
<1> QED BY <1>6, <1>7, <1>8, <1>9, <1>10, <1>11, <1>12 DEF IInv, Conserved

-----------------------------------------------------------------------------
LEMMA StepIInv == IInv /\ [Next]_vars => IInv'
<1> SUFFICES ASSUME IInv, [Next]_vars PROVE IInv'
  OBVIOUS
<1> USE PoolAssumption
<1>1. ASSUME NEW t \in Tasks, NEW k \in Messages(t), CheckStop(t, k) PROVE IInv'
  <2>1. k \in Kinds
    BY MessagesAssumption
  <2>2. TypeOK'
    BY <1>1, <2>1 DEF IInv, TypeOK, CheckStop, Becomes, TaskSteps, Fates
  <2>3. /\ UNCHANGED <<reqCh, wpc, wtask, closed, spc>> /\ tpc[t] # "accepted"
        /\ Becomes(t, "refused") \/ Becomes(t, "checked")
    BY <1>1 DEF CheckStop
  <2> QED BY <2>2, <2>3, FreeTaskMoves DEF IInv, TaskSteps, Fates
<1>2. ASSUME NEW t \in Tasks, Enqueue(t) PROVE IInv'
  BY <1>2, EnqueueKeeps
<1>3. ASSUME NEW t \in Tasks, QueueFull(t) PROVE IInv'
  <2>1. TypeOK'
    BY <1>3 DEF IInv, TypeOK, QueueFull, Becomes, TaskSteps, Fates, publishDLQ
  <2>2. /\ UNCHANGED <<reqCh, wpc, wtask, closed, spc>> /\ tpc[t] # "accepted"
        /\ Becomes(t, "deadLettered")
    BY <1>3 DEF QueueFull, publishDLQ
  <2> QED BY <2>1, <2>2, FreeTaskMoves DEF IInv, TaskSteps, Fates
<1>4. ASSUME NEW w \in Workers, Take(w) PROVE IInv'
  BY <1>4, TakeKeeps
<1>5. ASSUME NEW w \in Workers, Exit(w) PROVE IInv'
  <2>1. TypeOK'
    BY <1>5 DEF IInv, TypeOK, Exit, Step, WorkerSteps
  <2>2. BusyHoldsTask' /\ LeftDrained'
    BY <1>5 DEF IInv, TypeOK, BusyHoldsTask, LeftDrained, Exit, Step, Busy
  <2>3. Conserved'
    BY <1>5 DEF IInv, Conserved, QueuedOnce, QueuedIsFree, HeldOnce, Accounted, Exit
  <2> QED BY <2>1, <2>2, <2>3 DEF IInv
<1>6. ASSUME NEW w \in Workers, Reject(w) PROVE IInv'
  <2>1. "handle" \in Busy /\ "ignored" \in Fates /\ publishDLQ \in Fates
    BY DEF Busy, Fates, publishDLQ
  <2> QED BY <1>6, <2>1, EndTaskKeeps DEF Reject
<1>7. ASSUME NEW w \in Workers, DoCoap(w) PROVE IInv'
  BY <1>7, DoCoapKeeps
<1>8. ASSUME NEW w \in Workers, Reply(w) \/ AsyncDone(w) PROVE IInv'
  <2>1. /\ "finish" \in Busy /\ publishDLQ \in Fates
        /\ "replied" \in Fates /\ "delivered" \in Fates
    BY DEF Busy, Fates, publishDLQ
  <2> QED BY <1>8, <2>1, EndTaskKeeps DEF Reply, AsyncDone
<1>9. ASSUME Stop PROVE IInv'
  <2>1. TypeOK'
    BY <1>9 DEF IInv, TypeOK, Stop, CloseStopCh, CloseReqCh, StopReturns
  <2>2. BusyHoldsTask' /\ Conserved'
    BY <1>9 DEF IInv, BusyHoldsTask, Conserved, QueuedOnce, QueuedIsFree,
                HeldOnce, Accounted, Stop, CloseStopCh, CloseReqCh, StopReturns
  <2>3. LeftDrained'
    BY <1>9 DEF IInv, LeftDrained, Stop, CloseStopCh, CloseReqCh, StopReturns
  <2> QED BY <2>1, <2>2, <2>3 DEF IInv
<1>10. ASSUME Tick PROVE IInv'
  BY <1>10 DEF Tick, IInv, TypeOK, BusyHoldsTask, Conserved, QueuedOnce,
               QueuedIsFree, HeldOnce, Accounted, LeftDrained
<1>11. ASSUME NEW t \in Tasks, SendOnClosed(t) PROVE IInv'
  <2>0. /\ panicked' = TRUE /\ kind' = kind /\ tpc' = tpc /\ reqCh' = reqCh
        /\ stopped' = stopped /\ closed' = closed /\ spc' = spc /\ wpc' = wpc
        /\ wtask' = wtask /\ wattempt' = wattempt /\ cbFails' = cbFails
        /\ cbOpenUntil' = cbOpenUntil /\ openAttempts' = openAttempts /\ now' = now
    BY <1>11 DEF SendOnClosed, stopVars, workerVars, breakerVars
  <2>1. TypeOK'
    BY <2>0 DEF IInv, TypeOK
  <2>2. BusyHoldsTask' /\ Conserved'
    BY <2>0 DEF IInv, BusyHoldsTask, Conserved, QueuedOnce, QueuedIsFree,
                HeldOnce, Accounted
  <2>3. LeftDrained'
    BY <2>0 DEF IInv, LeftDrained
  <2> QED BY <2>1, <2>2, <2>3 DEF IInv
<1>12. CASE UNCHANGED vars
  BY <1>12 DEF vars, IInv, TypeOK, BusyHoldsTask, Conserved, QueuedOnce,
               QueuedIsFree, HeldOnce, Accounted, LeftDrained
<1> QED BY <1>1, <1>2, <1>3, <1>4, <1>5, <1>6, <1>7, <1>8, <1>9, <1>10,
           <1>11, <1>12
        DEF Next, Callback, Worker

-----------------------------------------------------------------------------
(* The circuit breaker. *)

(* The attempts of all workers can be counted. *)
LEMMA AttemptsFinite ==
  /\ IsFiniteSet(Workers \X (1 .. Retries))
  /\ Cardinality(Workers \X (1 .. Retries)) = Cardinality(Workers) * Retries
  /\ Cardinality(Workers) * Retries \in Nat
  /\ \A S \in SUBSET (Workers \X (1 .. Retries)) :
       IsFiniteSet(S) /\ Cardinality(S) \in Nat
<1>1. IsFiniteSet(1 .. Retries) /\ Cardinality(1 .. Retries) = Retries
  BY FS_Interval, PoolAssumption
<1>2. /\ IsFiniteSet(Workers \X (1 .. Retries))
      /\ Cardinality(Workers \X (1 .. Retries)) = Cardinality(Workers) * Retries
  BY <1>1, FS_Product, PoolAssumption
<1>3. Cardinality(Workers) * Retries \in Nat
  BY <1>2, FS_CardinalityType
<1>4. ASSUME NEW S \in SUBSET (Workers \X (1 .. Retries))
      PROVE  IsFiniteSet(S) /\ Cardinality(S) \in Nat
  BY <1>2, FS_Subset, FS_CardinalityType
<1> QED BY <1>2, <1>3, <1>4

(* A step that sends nothing, lets no worker pass and does not open the    *)
(* breaker.                                                                *)
LEMMA FewerLeft ==
  ASSUME TypeOK, Shielded, AttemptsLeft' \subseteq AttemptsLeft,
         \A w \in Workers : wpc'[w] \in {"attempt", "inflight"} => wattempt'[w] >= 1,
         isCircuitOpen' => isCircuitOpen /\ openAttempts' = openAttempts
  PROVE  Shielded'
<1>1. AttemptsLeft \in SUBSET (Workers \X (1 .. Retries))
  BY DEF AttemptsLeft
<1>2. /\ Cardinality(AttemptsLeft') <= Cardinality(AttemptsLeft)
      /\ Cardinality(AttemptsLeft) \in Nat /\ Cardinality(AttemptsLeft') \in Nat
  BY <1>1, AttemptsFinite, FS_Subset, FS_CardinalityType
<1> DEFINE bound == Cardinality(Workers) * Retries
<1>3. bound \in Nat
  BY AttemptsFinite
<1>4. ASSUME isCircuitOpen'
      PROVE  openAttempts' + Cardinality(AttemptsLeft') < bound
  <2>1. openAttempts + Cardinality(AttemptsLeft) < bound
    BY <1>4 DEF Shielded
  <2> HIDE DEF bound
  <2> QED BY <1>2, <1>3, <1>4, <2>1 DEF TypeOK
<1> QED BY <1>4 DEF Shielded

(* A worker that moves to a step where it may send nothing more. *)
LEMMA NothingNew ==
  ASSUME TypeOK, Shielded, NEW w \in Workers,
         NEW to \in WorkerSteps \ {"attempt", "inflight"},
         wpc' = [wpc EXCEPT ![w] = to],
         \A v \in Workers : v # w => wattempt'[v] = wattempt[v],
         UNCHANGED <<breakerVars, now>>
  PROVE  Shielded'
<1>1. AttemptsLeft' \subseteq AttemptsLeft
  BY DEF AttemptsLeft, TypeOK
<1>2. \A v \in Workers : wpc'[v] \in {"attempt", "inflight"} => wattempt'[v] >= 1
  BY DEF Shielded, TypeOK
<1> QED BY <1>1, <1>2, FewerLeft DEF isCircuitOpen

(* The request goes out: one attempt less is left. *)
LEMMA AttemptShielded ==
  ASSUME TypeOK, Shielded, NEW w \in Workers, Attempt(w)
  PROVE  Shielded'
<1> DEFINE p == <<w, wattempt[w]>>
<1>1. wattempt[w] \in 1 .. Retries
  BY PoolAssumption DEF TypeOK, Shielded, Attempt, Step
<1>2. p \in AttemptsLeft
  BY <1>1 DEF AttemptsLeft, Attempt, Step
<1>3. AttemptsLeft' = AttemptsLeft \ {p}
  <2>1. ASSUME NEW q \in Workers \X (1 .. Retries)
        PROVE  q \in AttemptsLeft' <=> q \in AttemptsLeft /\ q # p
    <3>1. PICK v \in Workers, a \in 1 .. Retries : q = <<v, a>>
      OBVIOUS
    <3>2. CASE v = w
      BY <1>1, <3>1, <3>2, PoolAssumption DEF AttemptsLeft, Attempt, Step, TypeOK
    <3>3. CASE v # w
      BY <1>1, <3>1, <3>3 DEF AttemptsLeft, Attempt, Step, TypeOK
    <3> QED BY <3>2, <3>3
  <2> QED BY <2>1 DEF AttemptsLeft
<1>4. IsFiniteSet(AttemptsLeft) /\ Cardinality(AttemptsLeft) \in Nat
  BY AttemptsFinite DEF AttemptsLeft
<1>5. Cardinality(AttemptsLeft') = Cardinality(AttemptsLeft) - 1
  <2> HIDE DEF p
  <2> QED BY <1>2, <1>3, <1>4, FS_RemoveElement
<1> DEFINE bound == Cardinality(Workers) * Retries
<1>6. bound \in Nat
  BY AttemptsFinite
<1>7. ASSUME isCircuitOpen'
      PROVE  openAttempts' + Cardinality(AttemptsLeft') < bound
  <2>1. isCircuitOpen
    BY <1>7 DEF Attempt, isCircuitOpen
  <2>2. openAttempts' = openAttempts + 1
    BY <2>1 DEF Attempt
  <2>3. openAttempts + Cardinality(AttemptsLeft) < bound
    BY <2>1 DEF Shielded
  <2> HIDE DEF bound
  <2> QED BY <1>4, <1>5, <1>6, <2>2, <2>3 DEF TypeOK
<1>8. \A v \in Workers : wpc'[v] \in {"attempt", "inflight"} => wattempt'[v] >= 1
  BY <1>1 DEF Attempt, Step, Shielded, TypeOK
<1> QED BY <1>7, <1>8 DEF Shielded

(* A failure, perhaps the one that opens the breaker: its attempt is spent *)
(* and no other has become possible.                                       *)
LEMMA AttemptFailsShielded ==
  ASSUME TypeOK, Shielded, NEW w \in Workers, AttemptFails(w)
  PROVE  Shielded'
<1> DEFINE p == <<w, wattempt[w]>>
           all == Workers \X (1 .. Retries)
           bound == Cardinality(Workers) * Retries
<1>1. wattempt[w] \in 1 .. Retries /\ wpc[w] = "inflight"
  BY PoolAssumption DEF TypeOK, Shielded, AttemptFails, Step
<1>2. p \in all /\ p \notin AttemptsLeft
  BY <1>1 DEF AttemptsLeft
<1>3. AttemptsLeft' = AttemptsLeft
  <2>1. ASSUME NEW q \in all
        PROVE  q \in AttemptsLeft' <=> q \in AttemptsLeft
    <3>1. PICK v \in Workers, a \in 1 .. Retries : q = <<v, a>>
      OBVIOUS
    <3>2. CASE v = w
      <4>1. CASE /\ wattempt[w] < Retries /\ wpc'[w] = "attempt"
                 /\ wattempt'[w] = wattempt[w] + 1
        BY <1>1, <3>1, <3>2, <4>1, PoolAssumption DEF AttemptsLeft
      <4>2. CASE wattempt[w] = Retries /\ wpc'[w] = "finish"
        BY <1>1, <3>1, <3>2, <4>2, PoolAssumption DEF AttemptsLeft
      <4> QED BY <4>1, <4>2 DEF AttemptFails, Step, TypeOK
    <3>3. CASE v # w
      BY <1>1, <3>1, <3>3 DEF AttemptsLeft, AttemptFails, Step, TypeOK
    <3> QED BY <3>2, <3>3
  <2> QED BY <2>1 DEF AttemptsLeft
<1>4. \A v \in Workers : wpc'[v] \in {"attempt", "inflight"} => wattempt'[v] >= 1
  BY <1>1 DEF AttemptFails, Step, Shielded, TypeOK
<1>5. CASE isCircuitOpen
  <2>1. openAttempts' = openAttempts
    BY <1>5 DEF AttemptFails, markFailure
  <2> QED BY <1>3, <1>4, <1>5, <2>1, FewerLeft
<1>6. CASE ~isCircuitOpen /\ isCircuitOpen'
  <2>1. openAttempts' = 0
    BY <1>6 DEF AttemptFails, markFailure, isCircuitOpen
  <2>2. Cardinality(AttemptsLeft) < Cardinality(all)
    <3>1. AttemptsLeft \in SUBSET all /\ AttemptsLeft # all
      BY <1>2 DEF AttemptsLeft
    <3> HIDE DEF all, p
    <3>2. IsFiniteSet(all)
      BY AttemptsFinite DEF all
    <3>3. Cardinality(AttemptsLeft) \in Nat /\ Cardinality(all) \in Nat
      BY <3>1, <3>2, FS_Subset, FS_CardinalityType
    <3> QED BY <3>1, <3>2, <3>3, FS_Subset
  <2>3. Cardinality(AttemptsLeft) \in Nat
    BY AttemptsFinite DEF AttemptsLeft
  <2>4. openAttempts' + Cardinality(AttemptsLeft') < bound
    BY <1>3, <2>1, <2>2, <2>3, AttemptsFinite
  <2> QED BY <1>4, <2>4 DEF Shielded
<1>7. CASE ~isCircuitOpen'
  BY <1>4, <1>7 DEF Shielded
<1> QED BY <1>5, <1>6, <1>7

LEMMA ShieldedStep == TypeOK /\ Shielded /\ [Next]_vars => Shielded'
<1> SUFFICES ASSUME TypeOK, Shielded, [Next]_vars PROVE Shielded'
  OBVIOUS
<1> USE PoolAssumption
<1>1. ASSUME UNCHANGED <<wpc, wattempt, breakerVars>>, now' \in Nat, now <= now'
      PROVE  Shielded'
  <2>1. AttemptsLeft' = AttemptsLeft
    BY <1>1 DEF AttemptsLeft
  <2>2. isCircuitOpen' => isCircuitOpen
    BY <1>1 DEF isCircuitOpen, TypeOK
  <2>3. \A w \in Workers : wpc'[w] \in {"attempt", "inflight"} => wattempt'[w] >= 1
    BY <1>1 DEF Shielded
  <2> QED BY <1>1, <2>1, <2>2, <2>3, FewerLeft
<1>2. ASSUME NEW t \in Tasks, Callback(t) PROVE Shielded'
  BY <1>1, <1>2 DEF Callback, CheckStop, Enqueue, QueueFull, SendOnClosed, TypeOK
<1>3. ASSUME Stop \/ Tick \/ UNCHANGED vars PROVE Shielded'
  BY <1>1, <1>3 DEF Stop, CloseStopCh, CloseReqCh, StopReturns, Tick, vars, TypeOK
<1>4. ASSUME NEW w \in Workers,
             Take(w) \/ Exit(w) \/ Reject(w) \/ GiveUp(w) \/ AttemptAborts(w)
               \/ Reply(w) \/ AsyncDone(w)
      PROVE  Shielded'
  <2>1. /\ \E to \in {"handle", "exited", "idle", "finish"} :
             wpc' = [wpc EXCEPT ![w] = to]
        /\ \A v \in Workers : v # w => wattempt'[v] = wattempt[v]
        /\ UNCHANGED <<breakerVars, now>>
    BY <1>4 DEF Take, Exit, Reject, GiveUp, AttemptAborts, Reply, AsyncDone,
                EndTask, Step, TypeOK
  <2> QED BY <2>1, NothingNew DEF WorkerSteps
<1>5. ASSUME NEW w \in Workers, StartAttempts(w) PROVE Shielded'
  <2>1. ~isCircuitOpen'
    BY <1>5 DEF StartAttempts, isCircuitOpen
  <2>2. \A v \in Workers : wpc'[v] \in {"attempt", "inflight"} => wattempt'[v] >= 1
    BY <1>5 DEF StartAttempts, Step, Shielded, TypeOK
  <2> QED BY <2>1, <2>2 DEF Shielded
<1>6. ASSUME NEW w \in Workers, Attempt(w) PROVE Shielded'
  BY <1>6, AttemptShielded
<1>7. ASSUME NEW w \in Workers, AttemptFails(w) PROVE Shielded'
  BY <1>7, AttemptFailsShielded
<1>8. ASSUME NEW w \in Workers, AttemptSucceeds(w) PROVE Shielded'
  <2>1. ~isCircuitOpen'
    BY <1>8 DEF AttemptSucceeds, markSuccess, isCircuitOpen, TypeOK
  <2>2. \A v \in Workers : wpc'[v] \in {"attempt", "inflight"} => wattempt'[v] >= 1
    BY <1>8 DEF AttemptSucceeds, Step, Shielded, TypeOK
  <2> QED BY <2>1, <2>2 DEF Shielded
<1> QED BY <1>2, <1>3, <1>4, <1>5, <1>6, <1>7, <1>8 DEF Next, Worker, DoCoap

-----------------------------------------------------------------------------
(* The inductive invariant of the bridge: where every task is. *)
THEOREM Invariance == Spec => []IInv
  BY InitIInv, StepIInv, PTL DEF Spec

(* Type correctness of the channel, the workers, the breaker and Stop. *)
THEOREM TypeCorrect == Spec => []TypeOK
<1>1. IInv => TypeOK
  BY DEF IInv
<1> QED BY <1>1, Invariance, PTL

(* enqueueTask, the workers and Stop together neither lose an accepted     *)
(* task nor give it to two workers, however large the pool and the queue.  *)
THEOREM NoTaskLost == Spec => []TaskConservation
<1>1. IInv => TaskConservation
  <2> SUFFICES ASSUME IInv PROVE TaskConservation
    OBVIOUS
  <2>1. Len(reqCh) <= QueueSize /\ DOMAIN reqCh = 1 .. Len(reqCh)
    BY DEF IInv, TypeOK
  <2> SUFFICES ASSUME NEW t \in Tasks
      PROVE  /\ Queued(t) => tpc[t] = "accepted" /\ HeldBy(t) = {}
             /\ HeldBy(t) # {} => tpc[t] = "accepted" /\ Cardinality(HeldBy(t)) = 1
             /\ tpc[t] = "accepted" => Queued(t) \/ HeldBy(t) # {}
             /\ \A i, j \in DOMAIN reqCh : reqCh[i] = t /\ reqCh[j] = t => i = j
    BY <2>1 DEF TaskConservation
  <2>2. Queued(t) => tpc[t] = "accepted" /\ HeldBy(t) = {}
    BY <2>1 DEF IInv, Conserved, QueuedIsFree, Queued, HeldBy
  <2>3. ASSUME HeldBy(t) # {}
        PROVE  tpc[t] = "accepted" /\ Cardinality(HeldBy(t)) = 1
    <3>1. PICK w \in Workers : wtask[w] = t
      BY <2>3 DEF HeldBy
    <3>2. tpc[t] = "accepted" /\ HeldBy(t) = {w}
      BY <3>1, PoolAssumption DEF IInv, Conserved, HeldOnce, HeldBy
    <3> QED BY <3>2, FS_Singleton
  <2>4. tpc[t] = "accepted" => Queued(t) \/ HeldBy(t) # {}
    BY <2>1 DEF IInv, Conserved, Accounted, Queued, HeldBy
  <2>5. \A i, j \in DOMAIN reqCh : reqCh[i] = t /\ reqCh[j] = t => i = j
    BY <2>1 DEF IInv, Conserved, QueuedOnce
  <2> QED BY <2>2, <2>3, <2>4, <2>5
<1> QED BY <1>1, Invariance, PTL

(* When Stop has returned, every task that got into the channel is over:   *)
(* the workers leave only a closed and empty channel.                      *)
THEOREM StopWaitsForWork == Spec => []StopDrains
<1>1. IInv => StopDrains
  <2> SUFFICES ASSUME IInv, spc = "returned", NEW t \in Tasks, tpc[t] = "accepted"
               PROVE  FALSE
    BY DEF StopDrains
  <2>1. \A w \in Workers : wpc[w] = "exited" /\ wtask[w] = None
    BY DEF IInv, LeftDrained, BusyHoldsTask, Busy
  <2>2. Len(reqCh) = 0
    BY <2>1, PoolAssumption DEF IInv, LeftDrained
  <2> QED BY <2>1, <2>2, PoolAssumption DEF IInv, Conserved, Accounted
<1> QED BY <1>1, Invariance, PTL

(* doCoap, markFailure and isCircuitOpen: however many workers are in      *)
(* their retry loops when the breaker opens, and whenever the next failure *)
(* renews it, the target gets fewer requests than they had attempts.       *)
THEOREM BreakerHolds == Spec => []BreakerShields
<1>1. Init => Shielded
  <2> SUFFICES ASSUME Init PROVE Shielded
    OBVIOUS
  <2>1. ~isCircuitOpen
    BY DEF Init, isCircuitOpen
  <2> QED BY <2>1 DEF Init, Shielded
<1>2. TypeOK /\ Shielded => BreakerShields
  <2> SUFFICES ASSUME TypeOK, Shielded, isCircuitOpen
               PROVE  openAttempts < Cardinality(Workers) * Retries
    BY DEF BreakerShields
  <2> DEFINE bound == Cardinality(Workers) * Retries
  <2>1. Cardinality(AttemptsLeft) \in Nat /\ bound \in Nat
    BY AttemptsFinite DEF AttemptsLeft
  <2>2. openAttempts + Cardinality(AttemptsLeft) < bound
    BY DEF Shielded
  <2> HIDE DEF bound
  <2>3. openAttempts < bound
    BY <2>1, <2>2 DEF TypeOK
  <2> QED BY <2>3 DEF bound
<1> QED BY <1>1, <1>2, ShieldedStep, TypeCorrect, PTL DEF Spec
=============================================================================
