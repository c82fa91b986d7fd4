------------------------ MODULE DdDataService_proofs ------------------------
(***************************************************************************)
(* Proofs about DdDataService: type correctness, ownership of the pending  *)
(* entries, what the response callbacks do to the wait channels, the       *)
(* idempotency cache, and that the service implements RequestReply.        *)
(***************************************************************************)
EXTENDS DdDataService, FiniteSetTheorems, TLAPS

(* A call that has started knows its message; only started calls publish;  *)
(* a response is returned by a call that is past the select, a cached one  *)
(* by a call that never gets there.                                        *)
Started ==
  /\ \A c \in Calls : pc[c] # "idle" => req[c] # None
  /\ \A c \in published : pc[c] # "idle"
  /\ \A c \in Calls : /\ outcome[c] = "responded" => pc[c] \in {"cleanup", "done"}
                      /\ outcome[c] = "idempotent" => pc[c] = "done"

(* A callback at work holds a message and the channel of a call that has   *)
(* started and whose request id the message carries.                       *)
HandlersAddressed ==
  \A h \in Handlers :
    /\ hpc[h] = "idle" => hcall[h] = None
    /\ hpc[h] # "idle" =>
         /\ hcall[h] \in Calls
         /\ pc[hcall[h]] # "idle"
         /\ hmsg[h] \in responses
         /\ hmsg[h].id = req[hcall[h]].id

(* What a call returns it took from its channel. *)
RepliesStored ==
  \A c \in Calls :
    pc[c] \in {"received", "store"} \/ outcome[c] = "responded" =>
      reply[c] \in responses /\ reply[c].id = req[c].id

(* Whatever is in a channel was addressed to the call that made it. *)
ChannelsAddressed ==
  /\ \A c \in Calls :
       waitCh[c] # None =>
         waitCh[c] \in responses /\ pc[c] # "idle" /\ waitCh[c].id = req[c].id
  /\ \A m \in responses : m.for \in published

(* Only a registered call is ever found by a callback. *)
FoundAfterRegister ==
  \A c \in Calls : latest[c] # None => pc[c] \in Registered \cup {"done"}

USE DEF callVars, mapVars, brokerVars, handlerVars

-----------------------------------------------------------------------------
(* Type correctness. *)

(* NewDdDataService starts well-typed. *)
LEMMA InitType == Init => TypeOK /\ Started
  BY BoundsAssumption, NoneAssumption
  DEF Init, TypeOK, Started, CallSteps, Registered, Outcomes, HandlerSteps

(* Every step of a call keeps the message it was given. *)
LEMMA NextStarted == TypeOK /\ Started /\ [Next]_vars => Started'
<1> SUFFICES ASSUME TypeOK, Started, [Next]_vars PROVE Started'
  OBVIOUS
<1> USE NoneAssumption, RequestsAssumption DEF TypeOK, Started
<1>1. ASSUME NEW c \in Calls, Enter(c) PROVE Started'
  BY <1>1 DEF Enter, SendSync, SendAsync, Goto, Finish
<1>2. ASSUME NEW c \in Calls, CallStep(c) PROVE Started'
  BY <1>2 DEF CallStep, LookupHit, LookupMiss, RejectInvalid, RecordAccepted,
    Register, RecordRouted, EncodeFails, PublishRequest, Timeout, Receive,
    RecordResponded, StoreIdempotent, Cleanup, Goto, Finish
<1>3. ASSUME NEW c \in Calls, PublishEnds(c) \/ Cancel(c) PROVE Started'
  BY <1>3 DEF PublishEnds, PublishReturns, PublishFails, AsyncPublished,
    AsyncPublishFails, Cancel, Goto, Finish
<1>4. ASSUME NEW h \in Handlers,
             HandlerStep(h) \/ \E m \in responses : LookupWaiter(h, m)
      PROVE Started'
  BY <1>4 DEF HandlerStep, TrySend, Drain, Resend, LookupWaiter
<1>5. ASSUME NEW c \in Calls, NEW n \in 1 .. MaxAnswers, Answer(c, n)
      PROVE Started'
  BY <1>5 DEF Answer
<1>6. CASE Tick \/ SweepIdempotent \/ SweepTransferStatuses
  BY <1>6 DEF Tick, SweepIdempotent, SweepTransferStatuses
<1>7. CASE UNCHANGED vars
  BY <1>7 DEF vars
<1> QED
  BY <1>1, <1>2, <1>3, <1>4, <1>5, <1>6, <1>7 DEF Next

(* A recorded status is a status record. *)
LEMMA RecordStatusType ==
  ASSUME TypeOK, NEW c \in Calls, req[c] # None, NEW s \in Status,
         recordStatus(c, s)
  PROVE  transferStatuses' \in [ReqIds -> StatusRecord \cup {None}]
  BY DEF TypeOK, recordStatus, StatusRecord, Request

(* No operation of the service stores a value of a wrong type. *)
LEMMA NextType ==
  TypeOK /\ Started /\ HandlersAddressed /\ RepliesStored /\ [Next]_vars => TypeOK'
<1> SUFFICES ASSUME TypeOK, Started, HandlersAddressed, RepliesStored, [Next]_vars
             PROVE  TypeOK'
  OBVIOUS
<1> USE BoundsAssumption, NoneAssumption, RequestsAssumption
    DEF TypeOK, Goto, Finish, CallSteps, Registered, Outcomes
<1>1. ASSUME NEW c \in Calls, Enter(c) PROVE TypeOK'
  BY <1>1 DEF Enter, SendSync, SendAsync
<1>2. ASSUME NEW c \in Calls, LookupHit(c) PROVE TypeOK'
  BY <1>2 DEF LookupHit, CacheHit, Started, IdempotentEntry, Request
<1>3. ASSUME NEW c \in Calls,
             LookupMiss(c) \/ RejectInvalid(c) \/ PublishReturns(c) \/ Cancel(c)
                \/ PublishRequest(c)
      PROVE TypeOK'
  BY <1>3 DEF LookupMiss, RejectInvalid, PublishReturns, Cancel, PublishRequest
<1>4. ASSUME NEW c \in Calls,
             RecordAccepted(c) \/ RecordRouted(c) \/ EncodeFails(c)
               \/ PublishFails(c) \/ Timeout(c) \/ RecordResponded(c)
               \/ AsyncPublished(c) \/ AsyncPublishFails(c)
      PROVE TypeOK'
  <2>1. req[c] # None
    BY <1>4 DEF Started, RecordAccepted, RecordRouted, EncodeFails,
      PublishFails, Timeout, RecordResponded, AsyncPublished, AsyncPublishFails
  <2>2. \E s \in Status : recordStatus(c, s)
    BY <1>4 DEF Status, RecordAccepted, RecordRouted, EncodeFails,
      PublishFails, Timeout, RecordResponded, AsyncPublished, AsyncPublishFails
  <2>3. transferStatuses' \in [ReqIds -> StatusRecord \cup {None}]
    BY <2>1, <2>2, RecordStatusType
  <2> QED
    BY <1>4, <2>3 DEF RecordAccepted, RecordRouted, EncodeFails,
      PublishFails, Timeout, RecordResponded, AsyncPublished, AsyncPublishFails
<1>5. ASSUME NEW c \in Calls, Register(c) \/ Cleanup(c) PROVE TypeOK'
  <2>1. req[c].id \in ReqIds
    BY <1>5 DEF Register, Cleanup, Started, Request
  <2>2. CASE Register(c)
    BY <2>1, <2>2 DEF Register
  <2>3. CASE Cleanup(c)
    BY <2>1, <2>3 DEF Cleanup
  <2> QED
    BY <1>5, <2>2, <2>3
<1>6. ASSUME NEW c \in Calls, Receive(c) PROVE TypeOK'
  BY <1>6 DEF Receive
<1>7. ASSUME NEW c \in Calls, StoreIdempotent(c) PROVE TypeOK'
  <2>1. /\ req[c] \in Request
        /\ reply[c] \in Response
    BY <1>7 DEF StoreIdempotent, RepliesStored, Started
  <2>2. now + req[c].ttl \in Nat
    <3>1. req[c].ttl \in TTLs
      BY <2>1 DEF Request
    <3>2. now \in Nat /\ req[c].ttl \in Nat
      BY <3>1
    <3> QED
      BY <3>2
  <2>3. [response |-> reply[c], expireAt |-> now + req[c].ttl] \in IdempotentEntry
    BY <2>1, <2>2 DEF IdempotentEntry
  <2>4. /\ idempotentKeys' \in [Keys -> IdempotentEntry \cup {None}]
        /\ lease' \in [Calls -> Nat \cup {None}]
    BY <1>7, <2>2, <2>3 DEF StoreIdempotent
  <2> QED
    BY <1>7, <2>4 DEF StoreIdempotent
<1>8. ASSUME NEW h \in Handlers, HandlerStep(h) PROVE TypeOK'
  BY <1>8 DEF HandlerStep, TrySend, Drain, Resend, Put, HandlerDone,
    HandlersAddressed, HandlerSteps
<1>9. ASSUME NEW h \in Handlers, NEW m \in responses, LookupWaiter(h, m)
      PROVE TypeOK'
  BY <1>9 DEF LookupWaiter, HandlerSteps, Response
<1>10. ASSUME NEW c \in Calls, NEW n \in 1 .. MaxAnswers, Answer(c, n)
       PROVE TypeOK'
  <2>1. [id |-> req[c].id, for |-> c, n |-> n] \in Response
    BY <1>10 DEF Answer, Started, Request, Response
  <2> QED
    BY <1>10, <2>1 DEF Answer
<1>11. CASE Tick
  BY <1>11 DEF Tick
<1>12. CASE SweepIdempotent
  BY <1>12 DEF SweepIdempotent
<1>13. CASE SweepTransferStatuses
  BY <1>13 DEF SweepTransferStatuses
<1>14. CASE UNCHANGED vars
  BY <1>14 DEF vars
<1> QED
  BY <1>1, <1>2, <1>3, <1>4, <1>5, <1>6, <1>7, <1>8, <1>9, <1>10, <1>11,
     <1>12, <1>13, <1>14 DEF Next, CallStep, PublishEnds

-----------------------------------------------------------------------------
(* Ownership of the pending entries. *)

(* Only Register and the deferred Cleanup touch pendingRequests. *)
LEMMA NextOwnership ==
  TypeOK /\ Started /\ PendingOwnership /\ [Next]_vars => PendingOwnership'
<1> SUFFICES ASSUME TypeOK, Started, PendingOwnership, [Next]_vars
             PROVE  PendingOwnership'
  OBVIOUS
<1> USE NoneAssumption, RequestsAssumption
    DEF TypeOK, Started, PendingOwnership, Registered, Goto, Finish
<1>1. ASSUME NEW c \in Calls, Enter(c) PROVE PendingOwnership'
  BY <1>1 DEF Enter, SendSync, SendAsync
<1>2. ASSUME NEW c \in Calls, Register(c) PROVE PendingOwnership'
  <2>1. pc[c] = "register" /\ req' = req
    BY <1>2 DEF Register
  <2>2. req[c] \in Request /\ req[c].id \in ReqIds
    BY <2>1 DEF Request
  <2>3. CASE pc' = [pc EXCEPT ![c] = "done"] /\ pendingRequests' = pendingRequests
    BY <2>1, <2>3
  <2>4. CASE /\ pc' = [pc EXCEPT ![c] = "route"]
             /\ pendingRequests[req[c].id] = None
             /\ pendingRequests' = [pendingRequests EXCEPT ![req[c].id] = c]
    <3>1. \A d \in Calls : pc'[d] \in Registered => pendingRequests'[req'[d].id] = d
      BY <2>1, <2>2, <2>4
    <3>2. \A r \in ReqIds : pendingRequests'[r] # None =>
            pc'[pendingRequests'[r]] \in Registered /\ req'[pendingRequests'[r]].id = r
      BY <2>1, <2>2, <2>4
    <3> QED
      BY <3>1, <3>2
  <2> QED
    BY <1>2, <2>3, <2>4 DEF Register, mapVars
<1>3. ASSUME NEW c \in Calls, Cleanup(c) PROVE PendingOwnership'
  BY <1>3 DEF Cleanup, Request
<1>4. ASSUME NEW c \in Calls, CallStep(c), ~Register(c), ~Cleanup(c)
      PROVE PendingOwnership'
  BY <1>4 DEF CallStep, LookupHit, LookupMiss, RejectInvalid, RecordAccepted,
    RecordRouted, EncodeFails, PublishRequest, Timeout, Receive,
    RecordResponded, StoreIdempotent
<1>5. ASSUME NEW c \in Calls, PublishEnds(c) \/ Cancel(c)
      PROVE PendingOwnership'
  BY <1>5 DEF PublishEnds, PublishReturns, PublishFails, AsyncPublished,
    AsyncPublishFails, Cancel
<1>6. ASSUME NEW h \in Handlers,
             HandlerStep(h) \/ \E m \in responses : LookupWaiter(h, m)
      PROVE PendingOwnership'
  BY <1>6 DEF HandlerStep, TrySend, Drain, Resend, LookupWaiter
<1>7. ASSUME NEW c \in Calls, NEW n \in 1 .. MaxAnswers, Answer(c, n)
      PROVE PendingOwnership'
  BY <1>7 DEF Answer
<1>8. CASE Tick \/ SweepIdempotent \/ SweepTransferStatuses
  BY <1>8 DEF Tick, SweepIdempotent, SweepTransferStatuses
<1>9. CASE UNCHANGED vars
  BY <1>9 DEF vars
<1> QED
  BY <1>1, <1>2, <1>3, <1>4, <1>5, <1>6, <1>7, <1>8, <1>9 DEF Next

-----------------------------------------------------------------------------
(* Wait channels and callbacks. *)

(* The response callback keeps the channel its lookup found. *)
LEMMA NextHandlers ==
  TypeOK /\ Started /\ PendingOwnership /\ HandlersAddressed /\ [Next]_vars
    => HandlersAddressed'
<1> SUFFICES ASSUME TypeOK, Started, PendingOwnership, HandlersAddressed,
                    [Next]_vars
             PROVE  HandlersAddressed'
  OBVIOUS
<1> USE NoneAssumption, RequestsAssumption
    DEF TypeOK, HandlersAddressed, Goto, Finish
<1>1. ASSUME NEW c \in Calls, Enter(c) PROVE HandlersAddressed'
  BY <1>1 DEF Enter, SendSync, SendAsync
<1>2. ASSUME NEW c \in Calls, CallStep(c) PROVE HandlersAddressed'
  BY <1>2 DEF CallStep, LookupHit, LookupMiss, RejectInvalid, RecordAccepted,
    Register, RecordRouted, EncodeFails, PublishRequest, Timeout, Receive,
    RecordResponded, StoreIdempotent, Cleanup
<1>3. ASSUME NEW c \in Calls, PublishEnds(c) \/ Cancel(c)
      PROVE HandlersAddressed'
  BY <1>3 DEF PublishEnds, PublishReturns, PublishFails, AsyncPublished,
    AsyncPublishFails, Cancel
<1>4. ASSUME NEW h \in Handlers, HandlerStep(h) PROVE HandlersAddressed'
  BY <1>4 DEF HandlerStep, TrySend, Drain, Resend, HandlerDone, HandlerSteps
<1>5. ASSUME NEW h \in Handlers, NEW m \in responses, LookupWaiter(h, m)
      PROVE HandlersAddressed'
  BY <1>5 DEF LookupWaiter, PendingOwnership, Registered, Response
<1>6. ASSUME NEW c \in Calls, NEW n \in 1 .. MaxAnswers, Answer(c, n)
      PROVE HandlersAddressed'
  BY <1>6 DEF Answer
<1>7. CASE Tick \/ SweepIdempotent \/ SweepTransferStatuses
  BY <1>7 DEF Tick, SweepIdempotent, SweepTransferStatuses
<1>8. CASE UNCHANGED vars
  BY <1>8 DEF vars
<1> QED
  BY <1>1, <1>2, <1>3, <1>4, <1>5, <1>6, <1>7, <1>8 DEF Next

(* The callback sends only to the call the response names. *)
LEMMA NextChannels ==
  /\ TypeOK /\ Started /\ HandlersAddressed
  /\ ChannelsAddressed /\ [Next]_vars
  => ChannelsAddressed'
<1> SUFFICES ASSUME TypeOK, Started, HandlersAddressed,
                    ChannelsAddressed, [Next]_vars
             PROVE  ChannelsAddressed'
  OBVIOUS
<1> USE NoneAssumption, RequestsAssumption
    DEF TypeOK, ChannelsAddressed, Goto, Finish
<1>1. ASSUME NEW c \in Calls, Enter(c) PROVE ChannelsAddressed'
  BY <1>1 DEF Enter, SendSync, SendAsync
<1>2. ASSUME NEW c \in Calls, CallStep(c) PROVE ChannelsAddressed'
  BY <1>2 DEF CallStep, LookupHit, LookupMiss, RejectInvalid, RecordAccepted,
    Register, RecordRouted, EncodeFails, PublishRequest, Timeout, Receive,
    RecordResponded, StoreIdempotent, Cleanup
<1>3. ASSUME NEW c \in Calls, PublishEnds(c) \/ Cancel(c)
      PROVE ChannelsAddressed'
  BY <1>3 DEF PublishEnds, PublishReturns, PublishFails, AsyncPublished,
    AsyncPublishFails, Cancel
<1>4. ASSUME NEW h \in Handlers, HandlerStep(h) PROVE ChannelsAddressed'
  BY <1>4 DEF HandlerStep, TrySend, Drain, Resend, Put, HandlerDone,
    HandlersAddressed
<1>5. ASSUME NEW h \in Handlers, NEW m \in responses, LookupWaiter(h, m)
      PROVE ChannelsAddressed'
  BY <1>5 DEF LookupWaiter
<1>6. ASSUME NEW c \in Calls, NEW n \in 1 .. MaxAnswers, Answer(c, n)
      PROVE ChannelsAddressed'
  BY <1>6 DEF Answer
<1>7. CASE Tick \/ SweepIdempotent \/ SweepTransferStatuses
  BY <1>7 DEF Tick, SweepIdempotent, SweepTransferStatuses
<1>8. CASE UNCHANGED vars
  BY <1>8 DEF vars
<1> QED
  BY <1>1, <1>2, <1>3, <1>4, <1>5, <1>6, <1>7, <1>8 DEF Next

(* SendSync returns what it received from its own channel. *)
LEMMA NextReplies ==
  /\ TypeOK /\ Started /\ ChannelsAddressed /\ RepliesStored /\ [Next]_vars
  => RepliesStored'
<1> SUFFICES ASSUME TypeOK, Started, ChannelsAddressed, RepliesStored,
                    [Next]_vars
             PROVE  RepliesStored'
  OBVIOUS
<1> USE NoneAssumption, RequestsAssumption
    DEF TypeOK, Started, RepliesStored, Goto, Finish
<1>1. ASSUME NEW c \in Calls, Enter(c) PROVE RepliesStored'
  BY <1>1 DEF Enter, SendSync, SendAsync
<1>2. ASSUME NEW c \in Calls, Receive(c) PROVE RepliesStored'
  BY <1>2 DEF Receive, ChannelsAddressed
<1>3. ASSUME NEW c \in Calls, CallStep(c), ~Receive(c) PROVE RepliesStored'
  BY <1>3 DEF CallStep, LookupHit, LookupMiss, RejectInvalid, RecordAccepted,
    Register, RecordRouted, EncodeFails, PublishRequest, Timeout,
    RecordResponded, StoreIdempotent, Cleanup
<1>4. ASSUME NEW c \in Calls, PublishEnds(c) \/ Cancel(c)
      PROVE RepliesStored'
  BY <1>4 DEF PublishEnds, PublishReturns, PublishFails, AsyncPublished,
    AsyncPublishFails, Cancel
<1>5. ASSUME NEW h \in Handlers,
             HandlerStep(h) \/ \E m \in responses : LookupWaiter(h, m)
      PROVE RepliesStored'
  BY <1>5 DEF HandlerStep, TrySend, Drain, Resend, LookupWaiter
<1>6. ASSUME NEW c \in Calls, NEW n \in 1 .. MaxAnswers, Answer(c, n)
      PROVE RepliesStored'
  BY <1>6 DEF Answer
<1>7. CASE Tick \/ SweepIdempotent \/ SweepTransferStatuses
  BY <1>7 DEF Tick, SweepIdempotent, SweepTransferStatuses
<1>8. CASE UNCHANGED vars
  BY <1>8 DEF vars
<1> QED
  BY <1>1, <1>2, <1>3, <1>4, <1>5, <1>6, <1>7, <1>8 DEF Next

(* A lookup finds only calls that have registered. *)
LEMMA NextFound ==
  TypeOK /\ PendingOwnership /\ FoundAfterRegister /\ [Next]_vars
    => FoundAfterRegister'
<1> SUFFICES ASSUME TypeOK, PendingOwnership, FoundAfterRegister, [Next]_vars
             PROVE  FoundAfterRegister'
  OBVIOUS
<1> USE NoneAssumption DEF TypeOK, FoundAfterRegister, Registered, Goto, Finish
<1>1. ASSUME NEW c \in Calls, Enter(c) PROVE FoundAfterRegister'
  BY <1>1 DEF Enter, SendSync, SendAsync
<1>2. ASSUME NEW c \in Calls, CallStep(c) PROVE FoundAfterRegister'
  BY <1>2 DEF CallStep, LookupHit, LookupMiss, RejectInvalid, RecordAccepted,
    Register, RecordRouted, EncodeFails, PublishRequest, Timeout, Receive,
    RecordResponded, StoreIdempotent, Cleanup
<1>3. ASSUME NEW c \in Calls, PublishEnds(c) \/ Cancel(c)
      PROVE FoundAfterRegister'
  BY <1>3 DEF PublishEnds, PublishReturns, PublishFails, AsyncPublished,
    AsyncPublishFails, Cancel
<1>4. ASSUME NEW h \in Handlers, HandlerStep(h) PROVE FoundAfterRegister'
  BY <1>4 DEF HandlerStep, TrySend, Drain, Resend
<1>5. ASSUME NEW h \in Handlers, NEW m \in responses, LookupWaiter(h, m)
      PROVE FoundAfterRegister'
  BY <1>5 DEF LookupWaiter, PendingOwnership, Response
<1>6. ASSUME NEW c \in Calls, NEW n \in 1 .. MaxAnswers, Answer(c, n)
      PROVE FoundAfterRegister'
  BY <1>6 DEF Answer
<1>7. CASE Tick \/ SweepIdempotent \/ SweepTransferStatuses
  BY <1>7 DEF Tick, SweepIdempotent, SweepTransferStatuses
<1>8. CASE UNCHANGED vars
  BY <1>8 DEF vars
<1> QED
  BY <1>1, <1>2, <1>3, <1>4, <1>5, <1>6, <1>7, <1>8 DEF Next

(* Emptying a buffer is left to a callback that still has a message to     *)
(* put, so a waiter that was ever found is never left with nothing.        *)
LEMMA NextNoLoss ==
  /\ TypeOK /\ HandlersAddressed /\ FoundAfterRegister /\ PendingOwnership
  /\ NoLostResponse /\ [Next]_vars
  => NoLostResponse'
<1> SUFFICES ASSUME TypeOK, HandlersAddressed, FoundAfterRegister,
                    PendingOwnership, NoLostResponse, [Next]_vars
             PROVE  NoLostResponse'
  OBVIOUS
<1> USE NoneAssumption
    DEF TypeOK, NoLostResponse, Serving, Undelivered, Goto, Finish
<1>1. ASSUME NEW c \in Calls, Enter(c) PROVE NoLostResponse'
  BY <1>1 DEF Enter, SendSync, SendAsync
<1>2. ASSUME NEW c \in Calls, Register(c) PROVE NoLostResponse'
  BY <1>2 DEF Register, FoundAfterRegister, Registered
<1>3. ASSUME NEW c \in Calls, CallStep(c), ~Register(c) PROVE NoLostResponse'
  BY <1>3 DEF CallStep, LookupHit, LookupMiss, RejectInvalid, RecordAccepted,
    RecordRouted, EncodeFails, PublishRequest, Timeout, Receive,
    RecordResponded, StoreIdempotent, Cleanup
<1>4. ASSUME NEW c \in Calls, PublishEnds(c) \/ Cancel(c)
      PROVE NoLostResponse'
  BY <1>4 DEF PublishEnds, PublishReturns, PublishFails, AsyncPublished,
    AsyncPublishFails, Cancel
<1>5. ASSUME NEW h \in Handlers, HandlerStep(h) PROVE NoLostResponse'
  <2>1. hcall[h] \in Calls /\ hmsg[h] # None
    BY <1>5 DEF HandlerStep, TrySend, Drain, Resend, HandlersAddressed
  <2>2. CASE TrySend(h)
    BY <2>1, <2>2 DEF TrySend, Put, HandlerDone
  <2>3. CASE Drain(h)
    BY <2>1, <2>3 DEF Drain
  <2>4. CASE Resend(h)
    BY <2>1, <2>4 DEF Resend, Put, HandlerDone
  <2> QED
    BY <1>5, <2>2, <2>3, <2>4 DEF HandlerStep
<1>6. ASSUME NEW h \in Handlers, NEW m \in responses, LookupWaiter(h, m)
      PROVE NoLostResponse'
  <2> DEFINE w == pendingRequests[m.id]
  <2>1. w \in Calls
    BY <1>6 DEF LookupWaiter, Response
  <2>2. hcall[h] = None
    BY <1>6 DEF LookupWaiter, HandlersAddressed
  <2>3. ASSUME NEW c \in Calls, Serving(c)' = {} PROVE c # w /\ Serving(c) = {}
    <3>1. /\ hcall'[h] = w
          /\ \A g \in Handlers : hcall[g] = c => hcall'[g] = c
      BY <1>6, <2>1, <2>2 DEF LookupWaiter
    <3> QED
      BY <2>3, <3>1
  <2>4. \A c \in Calls : c # w => latest'[c] = latest[c]
    BY <1>6 DEF LookupWaiter
  <2>5. UNCHANGED <<pc, waitCh>>
    BY <1>6 DEF LookupWaiter
  <2> QED
    BY <2>3, <2>4, <2>5
<1>7. ASSUME NEW c \in Calls, NEW n \in 1 .. MaxAnswers, Answer(c, n)
      PROVE NoLostResponse'
  BY <1>7 DEF Answer
<1>8. CASE Tick \/ SweepIdempotent \/ SweepTransferStatuses
  <2>1. UNCHANGED <<pc, waitCh, hcall, latest>>
    BY <1>8 DEF Tick, SweepIdempotent, SweepTransferStatuses
  <2> QED
    BY <2>1
<1>9. CASE UNCHANGED vars
  BY <1>9 DEF vars
<1> QED
  BY <1>1, <1>2, <1>3, <1>4, <1>5, <1>6, <1>7, <1>8, <1>9 DEF Next

-----------------------------------------------------------------------------
(* The inductive invariant and its consequences. *)

IInv ==
  /\ TypeOK
  /\ Started
  /\ PendingOwnership
  /\ HandlersAddressed
  /\ ChannelsAddressed
  /\ RepliesStored
  /\ FoundAfterRegister
  /\ NoLostResponse

(* The conjuncts above support each other: together they hold always. *)
THEOREM Invariance == Spec => []IInv
<1>1. Init => IInv
  <2> SUFFICES ASSUME Init PROVE IInv
    OBVIOUS
  <2>1. TypeOK /\ Started
    BY InitType
  <2>2. PendingOwnership
    BY DEF Init, PendingOwnership, Registered
  <2>3. HandlersAddressed /\ ChannelsAddressed
    BY DEF Init, HandlersAddressed, ChannelsAddressed
  <2>4. RepliesStored /\ FoundAfterRegister /\ NoLostResponse
    BY DEF Init, RepliesStored, FoundAfterRegister, NoLostResponse
  <2> QED
    BY <2>1, <2>2, <2>3, <2>4 DEF IInv
<1>2. IInv /\ [Next]_vars => IInv'
  BY NextType, NextStarted, NextOwnership, NextHandlers, NextChannels,
     NextReplies, NextFound, NextNoLoss DEF IInv
<1> QED
  BY <1>1, <1>2, PTL DEF Spec

(* Every variable of the service keeps its type. *)
THEOREM TypeCorrect == Spec => []TypeOK
  BY Invariance, PTL DEF IInv

(* A call in flight owns the pending entry of its request id, so the       *)
(* deferred delete by id removes its own entry and no entry leaks.         *)
THEOREM OwnershipCorrect == Spec => []PendingOwnership
  BY Invariance, PTL DEF IInv

(* However many callbacks drain and refill a wait channel, an answer that  *)
(* found its waiter is not lost.                                           *)
THEOREM NoResponseLost == Spec => []NoLostResponse
  BY Invariance, PTL DEF IInv

(* SendSync returns only answers published under its own request id. *)
THEOREM RepliesCorrelated == Spec => []CorrelatedReply
<1>1. IInv => CorrelatedReply
  BY DEF IInv, CorrelatedReply, RepliesStored, ChannelsAddressed
<1> QED
  BY <1>1, Invariance, PTL

-----------------------------------------------------------------------------
(* Backpressure. *)

PendingWithinLimit ==
  IsFiniteSet(pendingIds) /\ Cardinality(pendingIds) <= MaxPending

(* Only Register adds an entry, after it checked the limit. *)
LEMMA NextWithinLimit ==
  TypeOK /\ Started /\ PendingWithinLimit /\ [Next]_vars => PendingWithinLimit'
<1> SUFFICES ASSUME TypeOK, Started, PendingWithinLimit, [Next]_vars
             PROVE  PendingWithinLimit'
  OBVIOUS
<1>1. Cardinality(pendingIds) \in Nat
  BY FS_CardinalityType DEF PendingWithinLimit
<1>2. ASSUME NEW c \in Calls, Register(c) PROVE PendingWithinLimit'
  <2>1. req[c].id \in ReqIds
    BY <1>2, NoneAssumption DEF Register, TypeOK, Started, Request, Goto, Finish
  <2>2. CASE UNCHANGED pendingRequests
    BY <2>2 DEF PendingWithinLimit, pendingIds
  <2>3. CASE ~UNCHANGED pendingRequests
    <3>1. /\ pendingRequests' = [pendingRequests EXCEPT ![req[c].id] = c]
          /\ Cardinality(pendingIds) < MaxPending
      BY <1>2, <2>3 DEF Register, PendingRequestCount
    <3>2. pendingIds' = pendingIds \cup {req[c].id}
      BY <2>1, <3>1, NoneAssumption DEF pendingIds, TypeOK
    <3> DEFINE grown == pendingIds \cup {req[c].id}
    <3>a. /\ IsFiniteSet(grown)
          /\ Cardinality(grown) = IF req[c].id \in pendingIds
                                  THEN Cardinality(pendingIds)
                                  ELSE Cardinality(pendingIds) + 1
      BY FS_AddElement DEF PendingWithinLimit
    <3>3. /\ IsFiniteSet(pendingIds')
          /\ Cardinality(pendingIds') <= Cardinality(pendingIds) + 1
      BY <1>1, <3>2, <3>a
    <3>4. Cardinality(pendingIds') \in Nat
      BY <3>3, FS_CardinalityType
    <3> QED
      BY <1>1, <3>1, <3>3, <3>4, BoundsAssumption DEF PendingWithinLimit
  <2> QED
    BY <2>2, <2>3
<1>3. ASSUME NEW c \in Calls, Cleanup(c) PROVE PendingWithinLimit'
  <2>1. pendingIds' \subseteq pendingIds
    BY <1>3 DEF Cleanup, pendingIds, TypeOK
  <2>2. /\ IsFiniteSet(pendingIds')
        /\ Cardinality(pendingIds') <= Cardinality(pendingIds)
    BY <2>1, FS_Subset DEF PendingWithinLimit
  <2>3. Cardinality(pendingIds') \in Nat
    BY <2>2, FS_CardinalityType
  <2> QED
    BY <1>1, <2>2, <2>3, BoundsAssumption DEF PendingWithinLimit
<1>4. CASE UNCHANGED pendingRequests
  BY <1>4 DEF PendingWithinLimit, pendingIds
<1>5. \/ UNCHANGED pendingRequests
      \/ \E c \in Calls : Register(c) \/ Cleanup(c)
  BY DEF Next, vars, Enter, SendSync, SendAsync, CallStep, LookupHit,
    LookupMiss, RejectInvalid, RecordAccepted, RecordRouted, EncodeFails,
    PublishRequest, Timeout, Receive, RecordResponded, StoreIdempotent,
    PublishEnds, PublishReturns, PublishFails, AsyncPublished,
    AsyncPublishFails, Cancel, HandlerStep, TrySend, Drain, Resend,
    LookupWaiter, Answer, Tick, SweepIdempotent, SweepTransferStatuses
<1> QED
  BY <1>2, <1>3, <1>4, <1>5

(* No more calls are in flight than maxPendingRequests allows: each one    *)
(* owns a different entry of the map, whose size the check bounds.         *)
THEOREM BackpressureHolds == Spec => []BackpressureBound
<1>1. Init => PendingWithinLimit
  <2> SUFFICES ASSUME Init PROVE PendingWithinLimit
    OBVIOUS
  <2>1. pendingIds = {}
    BY DEF Init, pendingIds
  <2> QED
    BY <2>1, FS_EmptySet, BoundsAssumption DEF PendingWithinLimit
<1>2. IInv /\ PendingWithinLimit /\ [Next]_vars => PendingWithinLimit'
  BY NextWithinLimit DEF IInv
<1>3. IInv /\ PendingWithinLimit => BackpressureBound
  <2> SUFFICES ASSUME IInv, PendingWithinLimit PROVE BackpressureBound
    OBVIOUS
  <2> DEFINE inFlight == {c \in Calls : pc[c] \in Registered}
             owner == [r \in pendingIds |-> pendingRequests[r]]
  <2>1. owner \in Surjection(pendingIds, inFlight)
    <3>1. \A r \in pendingIds : pendingRequests[r] \in inFlight
      BY DEF IInv, TypeOK, PendingOwnership, pendingIds
    <3>2. \A c \in inFlight : req[c].id \in pendingIds /\ owner[req[c].id] = c
      BY NoneAssumption DEF IInv, TypeOK, Started, PendingOwnership,
        pendingIds, Request, Registered
    <3> QED
      BY <3>1, <3>2 DEF Surjection
  <2>2. Cardinality(inFlight) <= Cardinality(pendingIds)
    BY <2>1, FS_Surjection DEF PendingWithinLimit
  <2>3. IsFiniteSet(inFlight)
    BY <2>1, FS_Surjection DEF PendingWithinLimit
  <2>4. Cardinality(inFlight) \in Nat /\ Cardinality(pendingIds) \in Nat
    BY <2>3, FS_CardinalityType DEF PendingWithinLimit
  <2> QED
    BY <2>2, <2>4, BoundsAssumption DEF PendingWithinLimit, BackpressureBound
<1> QED
  BY <1>1, <1>2, <1>3, Invariance, PTL DEF Spec

-----------------------------------------------------------------------------
(* One callback at a time: the order in which the broker client calls      *)
(* back is the order in which responses reach a wait channel.              *)

LatestHeld ==
  /\ \A h \in Handlers :
       /\ hpc[h] # "idle" => hmsg[h] = latest[hcall[h]]
       /\ hpc[h] = "resend" => waitCh[hcall[h]] = None
  /\ LatestWins

(* A lone callback replaces what it finds in the channel. *)
LEMMA NextLatest ==
  ASSUME \A g, h \in Handlers : g = h
  PROVE  IInv /\ LatestHeld /\ [Next]_vars => LatestHeld'
<1> SUFFICES ASSUME IInv, LatestHeld, [Next]_vars PROVE LatestHeld'
  OBVIOUS
<1> USE NoneAssumption
    DEF IInv, TypeOK, LatestHeld, LatestWins, Serving
<1>1. ASSUME NEW c \in Calls, Receive(c) PROVE LatestHeld'
  BY <1>1 DEF Receive
<1>2. ASSUME NEW h \in Handlers, HandlerStep(h) PROVE LatestHeld'
  <2>1. hcall[h] \in Calls /\ hmsg[h] # None /\ hmsg[h] = latest[hcall[h]]
    BY <1>2 DEF HandlerStep, TrySend, Drain, Resend, HandlersAddressed
  <2>2. CASE TrySend(h)
    BY <2>1, <2>2 DEF TrySend, Put, HandlerDone
  <2>3. CASE Drain(h)
    BY <2>1, <2>3 DEF Drain
  <2>4. CASE Resend(h)
    BY <2>1, <2>4 DEF Resend, Put, HandlerDone
  <2> QED
    BY <1>2, <2>2, <2>3, <2>4 DEF HandlerStep
<1>3. ASSUME NEW h \in Handlers, NEW m \in responses, LookupWaiter(h, m)
      PROVE LatestHeld'
  BY <1>3 DEF LookupWaiter, Response, HandlersAddressed
<1>4. CASE UNCHANGED <<waitCh, hpc, hcall, hmsg, latest>>
  BY <1>4
<1>5. \/ UNCHANGED <<waitCh, hpc, hcall, hmsg, latest>>
      \/ \E c \in Calls : Receive(c)
      \/ \E h \in Handlers :
           HandlerStep(h) \/ \E m \in responses : LookupWaiter(h, m)
  <2> DEFINE Same == UNCHANGED <<waitCh, hpc, hcall, hmsg, latest>>
  <2>1. ASSUME NEW c \in Calls, Enter(c) PROVE Same
    BY <2>1 DEF Enter, SendSync, SendAsync, handlerVars
  <2>2. ASSUME NEW c \in Calls, CallStep(c), ~Receive(c) PROVE Same
    BY <2>2 DEF CallStep, LookupHit, LookupMiss, RejectInvalid, RecordAccepted,
      Register, RecordRouted, EncodeFails, PublishRequest, Timeout,
      RecordResponded, StoreIdempotent, Cleanup, handlerVars
  <2>3. ASSUME NEW c \in Calls, PublishEnds(c) \/ Cancel(c) PROVE Same
    BY <2>3 DEF PublishEnds, PublishReturns, PublishFails, AsyncPublished,
      AsyncPublishFails, Cancel, handlerVars
  <2>4. ASSUME NEW c \in Calls, NEW n \in 1 .. MaxAnswers, Answer(c, n) PROVE Same
    BY <2>4 DEF Answer, handlerVars
  <2>5. CASE Tick \/ SweepIdempotent \/ SweepTransferStatuses
    BY <2>5 DEF Tick, SweepIdempotent, SweepTransferStatuses, handlerVars
  <2>6. CASE UNCHANGED vars
    BY <2>6 DEF vars
  <2> HIDE DEF Same
  <2>7. CASE Next
    BY <2>1, <2>2, <2>3, <2>4, <2>5, <2>7, Zenon DEF Next, Same
  <2> QED
    BY <2>6, <2>7, Zenon
<1> QED
  BY <1>1, <1>2, <1>3, <1>4, <1>5

(* With callbacks run one at a time, as the broker client does by default, *)
(* the value a waiter finds is the latest response that was delivered.     *)
THEOREM LatestResponseWins ==
  ASSUME \A g, h \in Handlers : g = h
  PROVE  Spec => []LatestWins
<1>1. Init => LatestHeld
  BY DEF Init, LatestHeld, LatestWins
<1>2. IInv /\ LatestHeld /\ [Next]_vars => LatestHeld'
  BY NextLatest
<1>3. LatestHeld => LatestWins
  BY DEF LatestHeld
<1> QED
  BY <1>1, <1>2, <1>3, Invariance, PTL DEF Spec

-----------------------------------------------------------------------------
(* The idempotency cache. *)

EntriesGenuine ==
  \A k \in Keys : idempotentKeys[k] # None =>
    \E d \in Calls : /\ outcome[d] = "responded"
                     /\ req[d].key = k
                     /\ reply[d] = idempotentKeys[k].response

CacheInv == EntriesGenuine /\ CachedReply

(* Only storeIdempotent fills the cache, with the reply it returns. *)
LEMMA NextCache == IInv /\ CacheInv /\ [Next]_vars => CacheInv'
<1> SUFFICES ASSUME IInv, CacheInv, [Next]_vars PROVE CacheInv'
  OBVIOUS
<1> USE NoneAssumption DEF CacheInv, EntriesGenuine, CachedReply, Goto, Finish
<1>t. TypeOK /\ Started
  BY DEF IInv
(* Returned replies and their messages never change. *)
<1>1. \A d \in Calls : outcome[d] = "responded" =>
         outcome'[d] = "responded" /\ req'[d] = req[d] /\ reply'[d] = reply[d]
  <2> USE <1>t DEF TypeOK, Started
  <2>1. ASSUME NEW c \in Calls, Enter(c) \/ CallStep(c) \/ PublishEnds(c) \/ Cancel(c)
        PROVE \A d \in Calls : outcome[d] = "responded" =>
         outcome'[d] = "responded" /\ req'[d] = req[d] /\ reply'[d] = reply[d]
    BY <2>1 DEF Enter, SendSync, SendAsync, CallStep, LookupHit, LookupMiss,
      RejectInvalid, RecordAccepted, Register, RecordRouted, EncodeFails,
      PublishRequest, Timeout, Receive, RecordResponded, StoreIdempotent,
      Cleanup, PublishEnds, PublishReturns, PublishFails, AsyncPublished,
      AsyncPublishFails, Cancel
  <2>2. \/ UNCHANGED <<outcome, req, reply>>
        \/ \E c \in Calls : Enter(c) \/ CallStep(c) \/ PublishEnds(c) \/ Cancel(c)
    BY DEF Next, vars, HandlerStep, TrySend, Drain, Resend, LookupWaiter,
      Answer, Tick, SweepIdempotent, SweepTransferStatuses
  <2> QED
    BY <2>1, <2>2
<1>2. ASSUME NEW c \in Calls, LookupHit(c) PROVE CacheInv'
  <2>1. req[c].key \in Keys /\ idempotentKeys[req[c].key] # None
    BY <1>2, <1>t DEF LookupHit, CacheHit, TypeOK, Started, Request
  <2>2. PICK d \in Calls : /\ outcome[d] = "responded"
                           /\ req[d].key = req[c].key
                           /\ reply[d] = idempotentKeys[req[c].key].response
    BY <2>1
  <2>3. /\ outcome'[d] = "responded"
        /\ req'[d].key = req'[c].key
        /\ reply'[d] = reply'[c]
    BY <1>1, <1>2, <1>t, <2>2 DEF LookupHit, TypeOK
  <2>4. \A e \in Calls \ {c} : UNCHANGED <<outcome[e], req[e], reply[e]>>
    BY <1>2, <1>t DEF LookupHit, TypeOK
  <2>5. EntriesGenuine'
    BY <1>1, <1>2 DEF LookupHit
  <2>6. CachedReply'
    BY <1>1, <2>3, <2>4
  <2> QED
    BY <2>5, <2>6
<1>3. ASSUME NEW c \in Calls, StoreIdempotent(c) PROVE CacheInv'
  <2>1. /\ outcome'[c] = "responded" /\ req' = req /\ reply' = reply
        /\ \A k \in Keys :
             \/ idempotentKeys'[k] = idempotentKeys[k]
             \/ k = req[c].key /\ idempotentKeys'[k].response = reply[c]
    BY <1>3, <1>t DEF StoreIdempotent, TypeOK
  <2>2. \A d \in Calls : outcome'[d] = "idempotent" => outcome[d] = "idempotent"
    BY <1>3, <1>t DEF StoreIdempotent, TypeOK
  <2>3. EntriesGenuine'
    BY <1>1, <2>1
  <2>4. CachedReply'
    BY <1>1, <2>1, <2>2
  <2> QED
    BY <2>3, <2>4
<1>4. CASE SweepIdempotent
  <2>1. /\ UNCHANGED <<outcome, req, reply>>
        /\ \A k \in Keys : idempotentKeys'[k] \in {idempotentKeys[k], None}
    BY <1>4 DEF SweepIdempotent
  <2> QED
    BY <2>1
<1>5. ASSUME UNCHANGED idempotentKeys,
             \A d \in Calls : outcome'[d] = "idempotent" =>
               outcome[d] = "idempotent" /\ UNCHANGED <<req[d], reply[d]>>
      PROVE CacheInv'
  BY <1>1, <1>5
<1>6. ASSUME NEW c \in Calls, Enter(c) \/ CallStep(c) \/ PublishEnds(c) \/ Cancel(c),
             ~LookupHit(c), ~StoreIdempotent(c)
      PROVE  /\ UNCHANGED idempotentKeys
             /\ \A d \in Calls : outcome'[d] = "idempotent" =>
                  outcome[d] = "idempotent" /\ UNCHANGED <<req[d], reply[d]>>
  BY <1>6, <1>t DEF TypeOK, Started, Enter, SendSync, SendAsync, CallStep,
      LookupMiss, RejectInvalid, RecordAccepted, Register, RecordRouted,
      EncodeFails, PublishRequest, Timeout, Receive, RecordResponded,
      Cleanup, PublishEnds, PublishReturns, PublishFails, AsyncPublished,
      AsyncPublishFails, Cancel
<1>7. \/ \E c \in Calls : Enter(c) \/ CallStep(c) \/ PublishEnds(c) \/ Cancel(c)
      \/ SweepIdempotent
      \/ UNCHANGED <<idempotentKeys, outcome, req, reply>>
  BY DEF Next, vars, HandlerStep, TrySend, Drain, Resend, LookupWaiter,
      Answer, Tick, SweepTransferStatuses
<1> QED
  BY <1>2, <1>3, <1>4, <1>5, <1>6, <1>7

(* An idempotency hit returns what a completed call with that key got. *)
THEOREM CachedRepliesGenuine == Spec => []CachedReply
<1>1. Init => CacheInv
  BY DEF Init, CacheInv, EntriesGenuine, CachedReply
<1>2. CacheInv => CachedReply
  BY DEF CacheInv
<1> QED
  BY <1>1, <1>2, NextCache, Invariance, PTL DEF Spec

(* While a lease lasts, the key has an entry that lasts at least as long. *)
LeasesCovered(T) ==
  \A d \in Calls : lease[d] # None =>
    /\ pc[d] # "idle"
    /\ lease[d] \in Nat /\ lease[d] <= now + T
    /\ req[d].key \in Keys
    /\ now <= lease[d] => /\ idempotentKeys[req[d].key] # None
                          /\ lease[d] <= idempotentKeys[req[d].key].expireAt

(* No sweep or later store ends a lease early. *)
LEMMA NextLeases ==
  ASSUME NEW T \in Nat, TTLs = {T}, IsFiniteSet(Keys),
         Cardinality(Keys) <= MaxIdempotentKeys
  PROVE  IInv /\ LeasesCovered(T) /\ [Next]_vars => LeasesCovered(T)'
<1> SUFFICES ASSUME IInv, LeasesCovered(T), [Next]_vars PROVE LeasesCovered(T)'
  OBVIOUS
<1>t. TypeOK /\ Started
  BY DEF IInv
<1> USE NoneAssumption DEF LeasesCovered, Goto, Finish
<1>1. ASSUME NEW c \in Calls, StoreIdempotent(c) PROVE LeasesCovered(T)'
  <2>1. req[c] \in Request /\ pc[c] = "store"
    BY <1>1, <1>t DEF StoreIdempotent, TypeOK, Started
  <2>2. req[c].ttl = T
    BY <2>1 DEF Request
  <2>3. CASE req[c].key = None
    BY <1>1, <1>t, <2>3 DEF StoreIdempotent, TypeOK
  <2>4. CASE req[c].key # None
    <3>1. req[c].key \in Keys
      BY <2>1, <2>4 DEF Request
    <3> DEFINE entry == [response |-> reply[c], expireAt |-> now + T]
    <3>2. /\ idempotentKeys' = [idempotentKeys EXCEPT ![req[c].key] = entry]
          /\ lease' = [lease EXCEPT ![c] = now + T]
          /\ UNCHANGED <<req, now>>
          /\ pc' = [pc EXCEPT ![c] = "cleanup"]
      BY <1>1, <2>2, <2>4 DEF StoreIdempotent
    <3>3. entry # None
      <4>1. reply[c] \in Response /\ now + T \in Nat
        BY <1>t, <2>1 DEF IInv, TypeOK, RepliesStored
      <4> QED
        BY <4>1 DEF IdempotentEntry
    <3>4. ASSUME NEW d \in Calls, lease'[d] # None
          PROVE  /\ pc'[d] # "idle"
                 /\ lease'[d] \in Nat /\ lease'[d] <= now' + T
                 /\ req'[d].key \in Keys
                 /\ now' <= lease'[d] =>
                      /\ idempotentKeys'[req'[d].key] # None
                      /\ lease'[d] <= idempotentKeys'[req'[d].key].expireAt
      <4>1. now \in Nat
        BY <1>t DEF TypeOK
      <4>2. CASE d = c
        BY <1>t, <3>1, <3>2, <3>3, <4>1, <4>2 DEF TypeOK
      <4>3. CASE d # c
        <5>1. /\ lease'[d] = lease[d] /\ pc'[d] = pc[d]
          BY <1>t, <3>2, <4>3 DEF TypeOK
        <5>2. CASE req[d].key = req[c].key
          <6>1. idempotentKeys'[req[d].key] = entry
            BY <1>t, <3>1, <3>2, <5>2 DEF TypeOK
          <6> QED
            BY <3>1, <3>2, <3>3, <3>4, <4>1, <5>1, <5>2, <6>1
        <5>3. CASE req[d].key # req[c].key
          BY <1>t, <3>2, <3>4, <5>1, <5>3 DEF TypeOK
        <5> QED
          BY <5>2, <5>3
      <4> QED
        BY <4>2, <4>3
    <3> QED
      BY <3>4
  <2> QED
    BY <2>3, <2>4
<1>2. CASE SweepIdempotent
  <2> DEFINE live == {k \in Keys : /\ idempotentKeys[k] # None
                                   /\ ~(now > idempotentKeys[k].expireAt)}
  <2>1. Cardinality(live) <= Cardinality(Keys)
    BY FS_Subset
  <2>2. ~(Cardinality(live) > MaxIdempotentKeys)
    <3>1. Cardinality(live) \in Nat /\ Cardinality(Keys) \in Nat
      BY FS_Subset, FS_CardinalityType
    <3> QED
      BY <2>1, <3>1, BoundsAssumption
  <2>3. /\ idempotentKeys' =
             [k \in Keys |-> IF k \in live THEN idempotentKeys[k] ELSE None]
        /\ UNCHANGED <<pc, req, now, lease>>
    BY <1>2, <2>2 DEF SweepIdempotent
  <2>4. ASSUME NEW d \in Calls, lease[d] # None, now <= lease[d]
        PROVE  req[d].key \in live
    <3>1. /\ req[d].key \in Keys /\ idempotentKeys[req[d].key] # None
          /\ lease[d] <= idempotentKeys[req[d].key].expireAt
          /\ lease[d] \in Nat
      BY <2>4
    <3>2. now \in Nat /\ idempotentKeys[req[d].key].expireAt \in Nat
      BY <1>t, <3>1 DEF TypeOK, IdempotentEntry
    <3> QED
      BY <2>4, <3>1, <3>2
  <2> HIDE DEF live
  <2> QED
    BY <2>3, <2>4
<1>3. CASE Tick
  <2>1. now \in Nat /\ now' = now + 1 /\ UNCHANGED <<pc, req, lease, idempotentKeys>>
    BY <1>3, <1>t DEF Tick, TypeOK
  <2> QED
    BY <2>1
<1>4. ASSUME NEW c \in Calls, Enter(c) PROVE LeasesCovered(T)'
  <2>1. /\ UNCHANGED <<now, lease, idempotentKeys>> /\ pc[c] = "idle"
        /\ \A d \in Calls \ {c} : UNCHANGED <<pc[d], req[d]>>
    BY <1>4, <1>t DEF Enter, SendSync, SendAsync, TypeOK
  <2> QED
    BY <2>1
<1>5. ASSUME NEW c \in Calls,
             CallStep(c) \/ PublishEnds(c) \/ Cancel(c), ~StoreIdempotent(c)
      PROVE LeasesCovered(T)'
  <2>1. /\ UNCHANGED <<now, lease, idempotentKeys, req>>
        /\ \A d \in Calls : pc[d] # "idle" => pc'[d] # "idle"
    BY <1>5, <1>t DEF TypeOK, CallStep, LookupHit, LookupMiss, RejectInvalid,
      RecordAccepted, Register, RecordRouted, EncodeFails, PublishRequest,
      Timeout, Receive, RecordResponded, Cleanup, PublishEnds,
      PublishReturns, PublishFails, AsyncPublished, AsyncPublishFails, Cancel
  <2> QED
    BY <2>1
<1>6. CASE UNCHANGED <<pc, req, now, lease, idempotentKeys>>
  BY <1>6
<1>7. \/ \E c \in Calls : Enter(c) \/ CallStep(c) \/ PublishEnds(c) \/ Cancel(c)
      \/ SweepIdempotent \/ Tick
      \/ UNCHANGED <<pc, req, now, lease, idempotentKeys>>
  BY DEF Next, vars, HandlerStep, TrySend, Drain, Resend, LookupWaiter,
    Answer, SweepTransferStatuses
<1> QED
  BY <1>1, <1>2, <1>3, <1>4, <1>5, <1>6, <1>7

(* With one TTL and a cache that can hold every key, a call whose key has  *)
(* a live entry is answered from the cache and never published, whatever   *)
(* stores, ticks and sweeps happened in between.                           *)
THEOREM Deduplicated ==
  ASSUME NEW T \in Nat, TTLs = {T}, IsFiniteSet(Keys),
         Cardinality(Keys) <= MaxIdempotentKeys
  PROVE  Spec => DedupWithinTTL
<1> DEFINE Step == \A c, d \in Calls :
       /\ pc[d] = "done" /\ lease[d] # None /\ now < lease[d]
       /\ pc[c] = "lookup" /\ pc'[c] # "lookup" /\ SameKey(c, d)
       => outcome'[c] = "idempotent"
<1>1. Init => LeasesCovered(T)
  BY DEF Init, LeasesCovered
<1>2. IInv /\ LeasesCovered(T) /\ [Next]_vars => [Step]_vars
  <2> SUFFICES ASSUME IInv, LeasesCovered(T), Next,
                      NEW c \in Calls, NEW d \in Calls,
                      lease[d] # None, now < lease[d],
                      pc[c] = "lookup", pc'[c] # "lookup", SameKey(c, d)
               PROVE  outcome'[c] = "idempotent"
    OBVIOUS
  <2>t. TypeOK
    BY DEF IInv
  <2>1. CacheHit(c)
    <3>1. /\ req[c].key \in Keys /\ idempotentKeys[req[c].key] # None
          /\ lease[d] <= idempotentKeys[req[c].key].expireAt
          /\ lease[d] \in Nat
      BY <2>t DEF LeasesCovered, SameKey, TypeOK
    <3>2. now \in Nat /\ idempotentKeys[req[c].key].expireAt \in Nat
      BY <2>t, <3>1 DEF TypeOK, IdempotentEntry
    <3> QED
      BY <3>1, <3>2, NoneAssumption DEF CacheHit
  <2>2. LookupHit(c) \/ LookupMiss(c)
    <3>1. PICK e \in Calls : Enter(e) \/ CallStep(e) \/ PublishEnds(e) \/ Cancel(e)
      BY DEF Next, HandlerStep, TrySend, Drain, Resend, LookupWaiter, Answer,
        Tick, SweepIdempotent, SweepTransferStatuses
    <3>2. e = c
      BY <2>t, <3>1 DEF TypeOK, Goto, Finish, Enter, SendSync, SendAsync,
        CallStep, LookupHit, LookupMiss, RejectInvalid, RecordAccepted,
        Register, RecordRouted, EncodeFails, PublishRequest, Timeout, Receive,
        RecordResponded, StoreIdempotent, Cleanup, PublishEnds,
        PublishReturns, PublishFails, AsyncPublished, AsyncPublishFails, Cancel
    <3> QED
      BY <3>1, <3>2 DEF Goto, Finish, Enter, SendSync, SendAsync, CallStep,
        RejectInvalid, RecordAccepted, Register, RecordRouted, EncodeFails,
        PublishRequest, Timeout, Receive, RecordResponded, StoreIdempotent,
        Cleanup, PublishEnds, PublishReturns, PublishFails, AsyncPublished,
        AsyncPublishFails, Cancel
  <2> QED
    BY <2>t, <2>1, <2>2 DEF LookupHit, LookupMiss, Finish, TypeOK
<1> QED
  BY <1>1, <1>2, NextLeases, Invariance, PTL DEF Spec, DedupWithinTTL

-----------------------------------------------------------------------------
(* Recorded statuses. *)

(* The status the record of a call's request id shows at the end and at    *)
(* each step ("none": no record was made), when no other call uses the id. *)
LastRecord(result) ==
  CASE result \in {"denied", "invalid", "unsent", "idempotent"} -> "none"
    [] result \in {"sent", "backpressure"} -> "accepted"
    [] result = "cancelled" -> "routed"
    [] OTHER -> result

Expected(c) ==
  CASE pc[c] \in {"idle", "lookup", "accept", "publishingAsync"} -> "none"
    [] pc[c] \in {"register", "route"} -> "accepted"
    [] pc[c] \in {"publish", "publishing", "waiting", "received"} -> "routed"
    [] pc[c] = "store" -> "responded"
    [] OTHER -> LastRecord(outcome[c])

(* A record under an id was made by a call that uses the id; a record of a *)
(* sole call is the one expected, or the retention sweep took it.          *)
RecordsUsed ==
  \A r \in ReqIds :
    transferStatuses[r] # None => \E d \in Calls : req[d] # None /\ req[d].id = r

RecordOf(c) ==
  LET rec == transferStatuses[req[c].id] IN
    IF rec = None THEN Expected(c) = "none" \/ now > StatusRetention
    ELSE rec.status = Expected(c)

RecordsTell == \A c \in Calls : req[c] # None /\ Sole(c) => RecordOf(c)

(* A call that has not started has no message. *)
IdleUnused == \A c \in Calls : pc[c] = "idle" => req[c] = None

StatusInv == IdleUnused /\ RecordsUsed /\ RecordsTell

(* LastRecord by cases. *)
LEMMA LastRecords ==
  /\ LastRecord("denied") = "none" /\ LastRecord("invalid") = "none"
  /\ LastRecord("unsent") = "none" /\ LastRecord("idempotent") = "none"
  /\ LastRecord("sent") = "accepted" /\ LastRecord("backpressure") = "accepted"
  /\ LastRecord("cancelled") = "routed" /\ LastRecord("failed") = "failed"
  /\ LastRecord("timeout") = "timeout" /\ LastRecord("responded") = "responded"
  /\ LastRecord("none") = "none" /\ LastRecord("duplicate") = "duplicate"
  BY DEF LastRecord

(* Only the call that moves writes a record, and only under its own id. *)
LEMMA RecordMoves ==
  ASSUME TypeOK, StatusInv, NEW c \in Calls, req[c] # None, UNCHANGED <<req, now>>,
         pc[c] # "idle", pc'[c] # "idle",
         \A d \in Calls : d # c => pc'[d] = pc[d] /\ outcome'[d] = outcome[d],
         \/ UNCHANGED transferStatuses /\ (Sole(c) => Expected(c)' = Expected(c))
         \/ \E s \in Status : recordStatus(c, s) /\ Expected(c)' = s
  PROVE  StatusInv'
<1>1. IdleUnused'
  BY DEF StatusInv, IdleUnused
<1>2. req[c].id \in ReqIds
  BY DEF TypeOK, Request
<1>3. \/ UNCHANGED transferStatuses
      \/ \E s \in Status : transferStatuses' =
           [transferStatuses EXCEPT ![req[c].id] = [status |-> s, updatedAt |-> now]]
  BY DEF recordStatus
<1>4. \A r \in ReqIds : r # req[c].id => transferStatuses'[r] = transferStatuses[r]
  BY <1>2, <1>3 DEF TypeOK
<1>5. RecordsUsed'
  <2>1. ASSUME NEW r \in ReqIds, transferStatuses'[r] # None
        PROVE  \E d \in Calls : req[d] # None /\ req[d].id = r
    BY <1>4, <2>1 DEF StatusInv, RecordsUsed
  <2> QED BY <2>1 DEF RecordsUsed
<1>6. ASSUME NEW d \in Calls, req[d] # None, Sole(d) PROVE RecordOf(d)'
  <2>1. RecordOf(d) /\ req[d].id \in ReqIds
    BY <1>6 DEF StatusInv, RecordsTell, TypeOK, Request
  <2>2. CASE d # c
    <3>1. req[d].id # req[c].id
      BY <1>6, <2>2 DEF Sole, SameId
    <3>2. transferStatuses'[req[d].id] = transferStatuses[req[d].id]
      BY <1>4, <2>1, <3>1
    <3>3. Expected(d)' = Expected(d)
      BY <2>2 DEF Expected
    <3> HIDE DEF Expected
    <3> QED BY <2>1, <3>2, <3>3 DEF RecordOf
  <2>3. CASE d = c /\ UNCHANGED transferStatuses /\ Expected(c)' = Expected(c)
    BY <2>1, <2>3 DEF RecordOf
  <2>4. CASE d = c /\ \E s \in Status : recordStatus(c, s) /\ Expected(c)' = s
    <3>1. PICK s \in Status : recordStatus(c, s) /\ Expected(c)' = s
      BY <2>4
    <3>2. transferStatuses'[req[c].id] = [status |-> s, updatedAt |-> now]
      BY <1>2, <3>1 DEF recordStatus, TypeOK
    <3>3. [status |-> s, updatedAt |-> now] \in StatusRecord
      BY DEF StatusRecord, TypeOK
    <3>4. transferStatuses'[req[c].id] # None
      BY <3>2, <3>3, NoneAssumption
    <3>5. transferStatuses'[req[c].id].status = s
      BY <3>2
    <3> QED BY <2>4, <3>1, <3>4, <3>5 DEF RecordOf
  <2> QED BY <1>6, <2>2, <2>3, <2>4
<1>7. RecordsTell'
  <2>1. \A d \in Calls : Sole(d)' <=> Sole(d)
    BY DEF Sole, SameId
  <2> QED BY <1>6, <2>1 DEF RecordsTell
<1> QED BY <1>1, <1>5, <1>7 DEF StatusInv

(* A call starts under an id that has no record unless another call uses   *)
(* the id too.                                                             *)
LEMMA RecordEnter ==
  ASSUME TypeOK, StatusInv, NEW c \in Calls, Enter(c)
  PROVE  StatusInv'
<1>1. PICK m \in Request : req' = [req EXCEPT ![c] = m]
  BY RequestsAssumption DEF Enter, SendSync, SendAsync
<1>2. /\ pc[c] = "idle" /\ req[c] = None /\ UNCHANGED <<transferStatuses, now>>
      /\ \A d \in Calls : d # c => pc'[d] = pc[d] /\ outcome'[d] = outcome[d] /\ req'[d] = req[d]
      /\ req'[c] = m /\ m # None /\ m.id \in ReqIds
  <2>1. /\ pc[c] = "idle" /\ UNCHANGED <<transferStatuses, now>>
        /\ \A d \in Calls : d # c => pc'[d] = pc[d] /\ outcome'[d] = outcome[d]
    BY DEF Enter, SendSync, SendAsync, Goto, Finish, TypeOK
  <2>2. req[c] = None
    BY <2>1 DEF StatusInv, IdleUnused
  <2>3. req'[c] = m /\ \A d \in Calls : d # c => req'[d] = req[d]
    BY <1>1 DEF TypeOK
  <2>4. m # None /\ m.id \in ReqIds
    BY NoneAssumption DEF Request
  <2> QED BY <2>1, <2>2, <2>3, <2>4
<1>3. pc'[c] # "idle" /\ Expected(c)' = "none"
  <2>1. \/ pc'[c] \in {"lookup", "publishingAsync"}
        \/ pc'[c] = "done" /\ outcome'[c] \in {"denied", "invalid", "unsent"}
    BY DEF Enter, SendSync, SendAsync, Goto, Finish, TypeOK
  <2> QED BY <2>1, LastRecords DEF Expected
<1>4. IdleUnused'
  BY <1>2, <1>3 DEF StatusInv, IdleUnused
<1>5. RecordsUsed'
  <2>1. ASSUME NEW r \in ReqIds, transferStatuses'[r] # None
        PROVE  \E d \in Calls : req'[d] # None /\ req'[d].id = r
    <3>1. PICK d \in Calls : req[d] # None /\ req[d].id = r
      BY <1>2, <2>1 DEF StatusInv, RecordsUsed
    <3> QED BY <1>2, <3>1
  <2> QED BY <2>1 DEF RecordsUsed
<1>6. ASSUME NEW d \in Calls, req'[d] # None, Sole(d)' PROVE RecordOf(d)'
  <2>1. CASE d = c
    <3>1. transferStatuses[m.id] = None
      <4>1. SUFFICES ASSUME transferStatuses[m.id] # None PROVE FALSE
        OBVIOUS
      <4>2. PICK e \in Calls : req[e] # None /\ req[e].id = m.id
        BY <1>2, <4>1 DEF StatusInv, RecordsUsed
      <4>3. e # c /\ req'[e] # None /\ req'[e].id = m.id
        BY <1>2, <4>2
      <4> QED BY <1>2, <1>6, <2>1, <4>3 DEF Sole, SameId
    <3> QED BY <1>2, <1>3, <2>1, <3>1 DEF RecordOf
  <2>2. CASE d # c
    <3>1. req[d] # None /\ Sole(d)
      BY <1>2, <1>6, <2>2 DEF Sole, SameId
    <3>2. RecordOf(d)
      BY <3>1 DEF StatusInv, RecordsTell
    <3>3. Expected(d)' = Expected(d)
      BY <1>2, <2>2 DEF Expected
    <3> HIDE DEF Expected
    <3> QED BY <1>2, <2>2, <3>2, <3>3 DEF RecordOf
  <2> QED BY <2>1, <2>2
<1> QED BY <1>4, <1>5, <1>6 DEF StatusInv, RecordsTell

(* The clock and the retention sweep. *)
LEMMA RecordSweep ==
  ASSUME TypeOK, StatusInv, Tick \/ SweepTransferStatuses
  PROVE  StatusInv'
<1>1. /\ UNCHANGED <<pc, req, outcome>> /\ now \in Nat /\ now' \in Nat /\ now' >= now
      /\ \A r \in ReqIds :
           \/ transferStatuses'[r] = transferStatuses[r]
           \/ transferStatuses'[r] = None /\ now > StatusRetention
  <2>1. CASE Tick
    BY <2>1 DEF Tick, TypeOK
  <2>2. CASE SweepTransferStatuses
    <3>1. UNCHANGED <<pc, req, outcome, now>> /\ now \in Nat
      BY <2>2 DEF SweepTransferStatuses, TypeOK
    <3>2. ASSUME NEW r \in ReqIds, transferStatuses'[r] # transferStatuses[r]
          PROVE  transferStatuses'[r] = None /\ now > StatusRetention
      <4>1. /\ transferStatuses[r] # None /\ transferStatuses'[r] = None
            /\ now - transferStatuses[r].updatedAt > StatusRetention
        BY <2>2, <3>2 DEF SweepTransferStatuses
      <4>2. transferStatuses[r].updatedAt \in Nat
        BY <4>1 DEF TypeOK, StatusRecord
      <4> QED BY <3>1, <4>1, <4>2, BoundsAssumption
    <3> QED BY <3>1, <3>2
  <2> QED BY <2>1, <2>2
<1>2. IdleUnused' /\ RecordsUsed'
  BY <1>1 DEF StatusInv, IdleUnused, RecordsUsed
<1>3. ASSUME NEW c \in Calls, req[c] # None, Sole(c) PROVE RecordOf(c)'
  <2>1. RecordOf(c) /\ req[c].id \in ReqIds
    BY <1>3 DEF StatusInv, RecordsTell, TypeOK, Request
  <2>2. Expected(c)' = Expected(c)
    BY <1>1 DEF Expected
  <2> HIDE DEF Expected
  <2>3. now > StatusRetention => now' > StatusRetention
    BY <1>1, BoundsAssumption
  <2> QED BY <1>1, <2>1, <2>2, <2>3 DEF RecordOf
<1>4. \A c \in Calls : Sole(c)' <=> Sole(c)
  BY <1>1 DEF Sole, SameId
<1> QED BY <1>1, <1>2, <1>3, <1>4 DEF StatusInv, RecordsTell

(* A sole call never finds its id taken. *)
LEMMA SoleNotDuplicate ==
  ASSUME TypeOK, Started, PendingOwnership, NEW c \in Calls, req[c] # None,
         Sole(c), pc[c] = "register"
  PROVE  pendingRequests[req[c].id] = None
<1>1. req[c].id \in ReqIds
  BY DEF TypeOK, Request
<1>2. SUFFICES ASSUME pendingRequests[req[c].id] # None PROVE FALSE
  OBVIOUS
<1>3. PICK d \in Calls : d = pendingRequests[req[c].id]
  BY <1>1, <1>2 DEF TypeOK
<1>4. pc[d] \in Registered /\ req[d].id = req[c].id
  BY <1>1, <1>2, <1>3 DEF PendingOwnership
<1>5. d # c
  BY <1>4 DEF Registered
<1>6. req[d] # None
  BY <1>4 DEF Registered, Started
<1> QED BY <1>4, <1>5, <1>6 DEF Sole, SameId

(* Every step of a call leaves the record that belongs to the step. *)
LEMMA RecordStep ==
  ASSUME TypeOK, Started, PendingOwnership, StatusInv, NEW c \in Calls,
         CallStep(c) \/ PublishEnds(c) \/ Cancel(c)
  PROVE  StatusInv'
<1> USE DEF Goto, Finish
<1>1. /\ UNCHANGED <<req, now>> /\ pc[c] # "idle" /\ pc'[c] # "idle"
      /\ \A d \in Calls : d # c => pc'[d] = pc[d] /\ outcome'[d] = outcome[d]
  BY DEF TypeOK, CallStep, LookupHit, LookupMiss, RejectInvalid, RecordAccepted,
    Register, RecordRouted, EncodeFails, PublishRequest, Timeout, Receive,
    RecordResponded, StoreIdempotent, Cleanup, PublishEnds, PublishReturns,
    PublishFails, AsyncPublished, AsyncPublishFails, Cancel
<1>2. req[c] # None
  BY <1>1 DEF Started
<1>3. pc \in [Calls -> CallSteps] /\ outcome \in [Calls -> Outcomes]
  BY DEF TypeOK
<1>4. ASSUME \/ LookupHit(c) \/ LookupMiss(c) \/ RejectInvalid(c) \/ PublishRequest(c)
             \/ Receive(c) \/ PublishReturns(c) \/ Cancel(c) \/ Cleanup(c)
      PROVE  UNCHANGED transferStatuses /\ Expected(c)' = Expected(c)
  BY <1>3, <1>4, LastRecords
  DEF LookupHit, LookupMiss, RejectInvalid, PublishRequest, Receive, PublishReturns,
      Cancel, Cleanup, Expected
<1>5. ASSUME Register(c)
      PROVE  UNCHANGED transferStatuses /\ (Sole(c) => Expected(c)' = Expected(c))
  <2>1. pc[c] = "register" /\ UNCHANGED transferStatuses
    BY <1>5 DEF Register
  <2>2. Sole(c) => pendingRequests[req[c].id] = None
    BY <1>2, <2>1, SoleNotDuplicate
  <2>3. Sole(c) => \/ pc'[c] = "route"
                   \/ pc'[c] = "done" /\ outcome'[c] = "backpressure"
    BY <1>3, <1>5, <2>2 DEF Register
  <2> QED BY <2>1, <2>3, LastRecords DEF Expected
<1>6. ASSUME StoreIdempotent(c)
      PROVE  UNCHANGED transferStatuses /\ Expected(c)' = Expected(c)
  BY <1>3, <1>6, LastRecords DEF StoreIdempotent, Expected
<1>7. ASSUME RecordAccepted(c) \/ RecordRouted(c) \/ RecordResponded(c)
      PROVE  \E s \in Status : recordStatus(c, s) /\ Expected(c)' = s
  <2>1. CASE RecordAccepted(c)
    <3>1. recordStatus(c, "accepted") /\ pc'[c] = "register"
      BY <1>3, <2>1 DEF RecordAccepted
    <3>2. Expected(c)' = "accepted"
      BY <3>1 DEF Expected
    <3> QED BY <3>1, <3>2 DEF Status
  <2>2. CASE RecordRouted(c)
    <3>1. recordStatus(c, "routed") /\ pc'[c] = "publish"
      BY <1>3, <2>2 DEF RecordRouted
    <3>2. Expected(c)' = "routed"
      BY <3>1 DEF Expected
    <3> QED BY <3>1, <3>2 DEF Status
  <2>3. CASE RecordResponded(c)
    <3>1. recordStatus(c, "responded") /\ pc'[c] = "store"
      BY <1>3, <2>3 DEF RecordResponded
    <3>2. Expected(c)' = "responded"
      BY <3>1 DEF Expected
    <3> QED BY <3>1, <3>2 DEF Status
  <2> QED BY <1>7, <2>1, <2>2, <2>3
<1>8. ASSUME EncodeFails(c) \/ PublishFails(c) \/ AsyncPublishFails(c)
      PROVE  \E s \in Status : recordStatus(c, s) /\ Expected(c)' = s
  <2>1. /\ recordStatus(c, "failed") /\ pc'[c] \in {"cleanup", "done"}
        /\ outcome'[c] = "failed"
    BY <1>3, <1>8 DEF EncodeFails, PublishFails, AsyncPublishFails
  <2>2. Expected(c)' = "failed"
    BY <2>1, LastRecords DEF Expected
  <2> QED BY <2>1, <2>2 DEF Status
<1>9. ASSUME Timeout(c)
      PROVE  \E s \in Status : recordStatus(c, s) /\ Expected(c)' = s
  <2>1. recordStatus(c, "timeout") /\ pc'[c] = "cleanup" /\ outcome'[c] = "timeout"
    BY <1>3, <1>9 DEF Timeout
  <2>2. Expected(c)' = "timeout"
    BY <2>1, LastRecords DEF Expected
  <2> QED BY <2>1, <2>2 DEF Status
<1>10. ASSUME AsyncPublished(c)
       PROVE  \E s \in Status : recordStatus(c, s) /\ Expected(c)' = s
  <2>1. recordStatus(c, "accepted") /\ pc'[c] = "done" /\ outcome'[c] = "sent"
    BY <1>3, <1>10 DEF AsyncPublished
  <2>2. Expected(c)' = "accepted"
    BY <2>1, LastRecords DEF Expected
  <2> QED BY <2>1, <2>2 DEF Status
<1>11. \/ UNCHANGED transferStatuses /\ (Sole(c) => Expected(c)' = Expected(c))
       \/ \E s \in Status : recordStatus(c, s) /\ Expected(c)' = s
  BY <1>4, <1>5, <1>6, <1>7, <1>8, <1>9, <1>10 DEF CallStep, PublishEnds
<1> QED BY <1>1, <1>2, <1>11, RecordMoves

(* A final status recorded for a request id that only one call used is     *)
(* what that call returned, and a call with a final result left it there   *)
(* until the retention sweep, on every path through SendSync and SendAsync.*)
THEOREM StatusTold == Spec => []StatusTellsOutcome
<1>1. Init => StatusInv
  BY DEF Init, StatusInv, IdleUnused, RecordsUsed, RecordsTell
<1>2. IInv /\ StatusInv /\ [Next]_vars => StatusInv'
  <2> SUFFICES ASSUME IInv, StatusInv, [Next]_vars PROVE StatusInv'
    OBVIOUS
  <2>1. TypeOK /\ Started /\ PendingOwnership
    BY DEF IInv
  <2>2. CASE \E c \in Calls : Enter(c) \/ CallStep(c) \/ PublishEnds(c) \/ Cancel(c)
    BY <2>1, <2>2, RecordEnter, RecordStep
  <2>3. CASE Tick \/ SweepTransferStatuses
    BY <2>1, <2>3, RecordSweep
  <2>4. CASE UNCHANGED <<pc, req, outcome, transferStatuses, now>>
    <3>1. \A c \in Calls : (Sole(c)' <=> Sole(c)) /\ Expected(c)' = Expected(c)
      BY <2>4 DEF Sole, SameId, Expected
    <3> HIDE DEF Expected
    <3> QED BY <2>4, <3>1 DEF StatusInv, IdleUnused, RecordsUsed, RecordsTell, RecordOf
  <2>5. \/ \E c \in Calls : Enter(c) \/ CallStep(c) \/ PublishEnds(c) \/ Cancel(c)
        \/ Tick \/ SweepTransferStatuses
        \/ UNCHANGED <<pc, req, outcome, transferStatuses, now>>
    BY DEF Next, vars, HandlerStep, TrySend, Drain, Resend, LookupWaiter, Answer,
      SweepIdempotent
  <2> QED BY <2>2, <2>3, <2>4, <2>5
<1>3. IInv /\ StatusInv => StatusTellsOutcome
  <2> SUFFICES ASSUME IInv, StatusInv, NEW c \in Calls, pc[c] = "done", Sole(c),
                      NEW rec, rec = transferStatuses[req[c].id]
               PROVE  /\ rec # None /\ rec.status \in FinalStatuses => outcome[c] = rec.status
                      /\ outcome[c] \in FinalStatuses =>
                           IF rec = None THEN now > StatusRetention
                                         ELSE rec.status = outcome[c]
    BY DEF StatusTellsOutcome
  <2>1. req[c] # None /\ outcome[c] \in Outcomes
    BY DEF IInv, Started, TypeOK
  <2>2. RecordOf(c)
    BY <2>1 DEF StatusInv, RecordsTell
  <2>3. Expected(c) = LastRecord(outcome[c])
    BY DEF Expected
  <2>4. IF rec = None THEN LastRecord(outcome[c]) = "none" \/ now > StatusRetention
                      ELSE rec.status = LastRecord(outcome[c])
    <3> HIDE DEF Expected, LastRecord
    <3> QED BY <2>2, <2>3 DEF RecordOf
  <2>5. /\ outcome[c] \in FinalStatuses =>
             LastRecord(outcome[c]) = outcome[c] /\ outcome[c] # "none"
        /\ LastRecord(outcome[c]) \in FinalStatuses => outcome[c] = LastRecord(outcome[c])
    BY <2>1, LastRecords DEF Outcomes, FinalStatuses
  <2> HIDE DEF LastRecord
  <2> QED BY <2>4, <2>5
<1> QED BY <1>1, <1>2, <1>3, Invariance, PTL DEF Spec

-----------------------------------------------------------------------------
(* Implementation of RequestReply. *)

(* A call has no answer before it takes one from its channel. *)
UnansweredYet ==
  \A c \in Calls :
    pc[c] \notin {"received", "store", "cleanup", "done"} => reply[c] = None

(* A call has no reply before it takes one from its channel. *)
LEMMA NextUnanswered ==
  TypeOK /\ UnansweredYet /\ [Next]_vars => UnansweredYet'
<1> SUFFICES ASSUME TypeOK, UnansweredYet, [Next]_vars PROVE UnansweredYet'
  OBVIOUS
<1> USE DEF TypeOK, UnansweredYet, Goto, Finish
<1>1. ASSUME NEW c \in Calls, Enter(c) \/ CallStep(c) \/ PublishEnds(c) \/ Cancel(c)
      PROVE UnansweredYet'
  BY <1>1 DEF Enter, SendSync, SendAsync, CallStep, LookupHit, LookupMiss,
    RejectInvalid, RecordAccepted, Register, RecordRouted, EncodeFails,
    PublishRequest, Timeout, Receive, RecordResponded, StoreIdempotent,
    Cleanup, PublishEnds, PublishReturns, PublishFails, AsyncPublished,
    AsyncPublishFails, Cancel
<1>2. CASE UNCHANGED <<pc, reply>>
  BY <1>2
<1>3. \/ UNCHANGED <<pc, reply>>
      \/ \E c \in Calls : Enter(c) \/ CallStep(c) \/ PublishEnds(c) \/ Cancel(c)
  BY DEF Next, vars, HandlerStep, TrySend, Drain, Resend, LookupWaiter,
    Answer, Tick, SweepIdempotent, SweepTransferStatuses
<1> QED
  BY <1>1, <1>2, <1>3

(* Every step maps to a step of RequestReply or changes nothing there. *)
LEMMA StepSimulation ==
  IInv /\ UnansweredYet /\ [Next]_vars => [Promise!ANext]_(Promise!avars)
<1> SUFFICES ASSUME IInv, UnansweredYet, [Next]_vars
             PROVE  [Promise!ANext]_(Promise!avars)
  OBVIOUS
<1> DEFINE stage == [c \in Calls |-> Stage(c)]
<1>t. TypeOK /\ Started /\ PendingOwnership /\ ChannelsAddressed
  BY DEF IInv
<1> USE NoneAssumption DEF Goto, Finish
(* Steps that end a call before it takes a lease. *)
<1>1. ASSUME NEW c \in Calls, pc[c] \notin Registered \cup {"done"},
             pc' = [pc EXCEPT ![c] = "done"], UNCHANGED pendingRequests,
             NEW m \in Response \cup {None}, reply' = [reply EXCEPT ![c] = m]
      PROVE  Promise!Refuse(c)
  <2>1. stage[c] = "new" /\ stage' = [stage EXCEPT ![c] = "closed"]
    BY <1>1, <1>t DEF Stage, TypeOK
  <2> QED
    BY <1>1, <2>1 DEF Promise!Refuse, Promise!Move
(* Steps inside one stage. *)
<1>2. ASSUME NEW c \in Calls, UNCHANGED <<pendingRequests, reply>>,
             NEW to \in CallSteps, pc' = [pc EXCEPT ![c] = to],
             \/ pc[c] \in Registered /\ to \in Registered
             \/ /\ pc[c] \notin Registered \cup {"done"}
                /\ to \notin Registered \cup {"done"}
      PROVE UNCHANGED Promise!avars
  <2>1. stage' = stage
    BY <1>2, <1>t DEF Stage, TypeOK, Registered
  <2> QED
    BY <1>2, <2>1 DEF Promise!avars
<1>3. ASSUME NEW c \in Calls, Register(c), ~UNCHANGED pendingRequests
      PROVE  Promise!Open(c, req[c].id) /\ req[c].id \in ReqIds
  <2>1. /\ pc[c] = "register" /\ pc' = [pc EXCEPT ![c] = "route"]
        /\ reply' = reply /\ reply[c] = None
        /\ pendingRequests' = [pendingRequests EXCEPT ![req[c].id] = c]
        /\ pendingRequests[req[c].id] = None
        /\ Cardinality(pendingIds) < MaxPending
    BY <1>3 DEF Register, UnansweredYet, PendingRequestCount
  <2>2. stage[c] = "new" /\ stage' = [stage EXCEPT ![c] = "open"]
    BY <2>1, <1>t DEF Stage, TypeOK, Registered
  <2>3. Cardinality(Promise!Held) < MaxPending
    BY <2>1 DEF pendingIds, Promise!Held, Promise!Free
  <2>4. req[c].id \in ReqIds
    BY <2>1, <1>t DEF TypeOK, Started, Request
  <2>5. Promise!Move(c, "new", "open") /\ Promise!Free(req[c].id)
    BY <2>1, <2>2 DEF Promise!Move, Promise!Free
  <2>6. UNCHANGED reply
    BY <2>1
  <2>7. pendingRequests' = [pendingRequests EXCEPT ![req[c].id] = c]
    BY <2>1
  <2>8. Promise!Open(c, req[c].id)
    BY <2>3, <2>5, <2>6, <2>7, Zenon DEF Promise!Open, Cardinality, Promise!Cardinality
  <2> QED
    BY <2>4, <2>8
<1>4. ASSUME NEW c \in Calls, Receive(c)
      PROVE  Promise!HandOver(c, waitCh[c]) /\ waitCh[c] \in Response
  <2>1. /\ waitCh[c] \in Response /\ waitCh[c].id = req[c].id
        /\ pendingRequests[req[c].id] = c /\ reply[c] = None
    BY <1>4, <1>t DEF Receive, TypeOK, ChannelsAddressed, PendingOwnership,
      Registered, UnansweredYet
  <2>2. stage[c] = "open" /\ stage' = [stage EXCEPT ![c] = "answered"]
    BY <1>4, <2>1, <1>t DEF Receive, Stage, TypeOK, Registered
  <2> QED
    BY <1>4, <2>1, <2>2 DEF Receive, Promise!HandOver, Promise!Move
<1>5. ASSUME NEW c \in Calls, Cleanup(c)
      PROVE  Promise!Close(c, req[c].id) /\ req[c].id \in ReqIds
  <2>1. pendingRequests[req[c].id] = c /\ req[c].id \in ReqIds
    BY <1>5, <1>t DEF Cleanup, TypeOK, Started, PendingOwnership, Registered,
      Request
  <2>2. stage[c] \in {"open", "answered"} /\ stage' = [stage EXCEPT ![c] = "closed"]
    BY <1>5, <1>t DEF Cleanup, Stage, TypeOK, Registered
  <2> QED
    BY <1>5, <2>1, <2>2 DEF Cleanup, Promise!Close, Promise!Move
<1>6. ASSUME UNCHANGED <<pc, pendingRequests, reply>>
      PROVE  UNCHANGED Promise!avars
  BY <1>6 DEF Promise!avars, Stage
<1>7. ASSUME NEW c \in Calls, Enter(c)
      PROVE  [Promise!ANext]_(Promise!avars)
  <2>1. CASE pc' = [pc EXCEPT ![c] = "done"]
    <3>1. pc[c] = "idle" /\ UNCHANGED <<pendingRequests, reply>>
      BY <1>7 DEF Enter, SendSync, SendAsync
    <3>2. reply[c] = None /\ reply' = [reply EXCEPT ![c] = None]
      BY <3>1, <1>t DEF UnansweredYet, TypeOK
    <3> QED
      BY <1>1, <2>1, <3>1, <3>2 DEF Promise!ANext, Registered
  <2>2. CASE pc' # [pc EXCEPT ![c] = "done"]
    <3>1. /\ pc[c] = "idle" /\ UNCHANGED <<pendingRequests, reply>>
          /\ \E to \in {"lookup", "publishingAsync"} : pc' = [pc EXCEPT ![c] = to]
      BY <1>7, <2>2 DEF Enter, SendSync, SendAsync
    <3> QED
      BY <1>2, <3>1 DEF CallSteps, Registered
  <2> QED
    BY <2>1, <2>2
(* Refusals after the entry; the cached response comes with one of them. *)
<1>8. ASSUME NEW c \in Calls,
             \/ LookupHit(c) \/ RejectInvalid(c)
             \/ AsyncPublished(c) \/ AsyncPublishFails(c)
             \/ Register(c) /\ UNCHANGED pendingRequests
      PROVE  [Promise!ANext]_(Promise!avars)
  <2>1. /\ pc[c] \notin Registered \cup {"done"}
        /\ pc[c] \notin {"received", "store", "cleanup", "done"}
        /\ pc' = [pc EXCEPT ![c] = "done"]
        /\ UNCHANGED pendingRequests
    <3>1. CASE Register(c) /\ UNCHANGED pendingRequests
      <4>1. req[c].id \in ReqIds
        BY <3>1, <1>t DEF Register, TypeOK, Started, Request
      <4> QED
        BY <3>1, <4>1, <1>t DEF Register, TypeOK, Registered
    <3> QED
      BY <1>8, <3>1 DEF LookupHit, RejectInvalid, AsyncPublished,
        AsyncPublishFails, Registered
  <2>2. \E m \in Response \cup {None} : reply' = [reply EXCEPT ![c] = m]
    <3>1. CASE LookupHit(c)
      <4> DEFINE entry == idempotentKeys[req[c].key]
      <4>1. req[c].key \in Keys
        BY <3>1, <1>t DEF LookupHit, CacheHit, TypeOK, Started, Request
      <4>2. entry \in IdempotentEntry
        BY <3>1, <4>1, <1>t DEF LookupHit, CacheHit, TypeOK
      <4>3. entry.response \in Response
        BY <4>2 DEF IdempotentEntry
      <4> QED
        BY <3>1, <4>3 DEF LookupHit
    <3>2. CASE UNCHANGED reply
      BY <2>1, <3>2, <1>t DEF UnansweredYet, TypeOK
    <3> QED
      BY <1>8, <3>1, <3>2 DEF RejectInvalid, AsyncPublished,
        AsyncPublishFails, Register
  <2> QED
    BY <1>1, <2>1, <2>2 DEF Promise!ANext
<1>9. ASSUME NEW c \in Calls,
             \/ LookupMiss(c) \/ RecordAccepted(c) \/ RecordRouted(c)
             \/ EncodeFails(c) \/ PublishRequest(c) \/ Timeout(c)
             \/ RecordResponded(c) \/ StoreIdempotent(c)
             \/ PublishReturns(c) \/ PublishFails(c) \/ Cancel(c)
      PROVE  UNCHANGED Promise!avars
  <2>1. /\ UNCHANGED <<pendingRequests, reply>>
        /\ \E to \in CallSteps :
             /\ pc' = [pc EXCEPT ![c] = to]
             /\ \/ pc[c] \in Registered /\ to \in Registered
                \/ /\ pc[c] \notin Registered \cup {"done"}
                   /\ to \notin Registered \cup {"done"}
    BY <1>9 DEF LookupMiss, RecordAccepted, RecordRouted, EncodeFails,
      PublishRequest, Timeout, RecordResponded, StoreIdempotent,
      PublishReturns, PublishFails, Cancel, CallSteps, Registered
  <2> QED
    BY <1>2, <2>1
<1>10. \/ UNCHANGED <<pc, pendingRequests, reply>>
       \/ \E c \in Calls : Enter(c) \/ CallStep(c) \/ PublishEnds(c) \/ Cancel(c)
  BY DEF Next, vars, HandlerStep, TrySend, Drain, Resend, LookupWaiter,
    Answer, Tick, SweepIdempotent, SweepTransferStatuses
<1>11. ASSUME NEW c \in Calls, CallStep(c) \/ PublishEnds(c) \/ Cancel(c)
       PROVE  [Promise!ANext]_(Promise!avars)
  BY <1>3, <1>4, <1>5, <1>8, <1>9, <1>11 DEF CallStep, PublishEnds, Promise!ANext
<1> QED
  BY <1>6, <1>7, <1>10, <1>11

(* The service implements the request/reply promise: exclusive request     *)
(* ids, bounded in number, at most one answer per call, and only one that  *)
(* carries the id the call holds.                                          *)
THEOREM Implementation == Spec => ImplementsRequestReply
<1>1. Init => UnansweredYet
  BY DEF Init, UnansweredYet
<1>2. Init => Promise!AInit
  BY DEF Init, Promise!AInit, Stage, Registered
<1>3. IInv /\ UnansweredYet /\ [Next]_vars => UnansweredYet'
  BY NextUnanswered DEF IInv
<1> QED
  BY <1>1, <1>2, <1>3, StepSimulation, Invariance, PTL
  DEF Spec, ImplementsRequestReply, Promise!ASpec
=============================================================================
