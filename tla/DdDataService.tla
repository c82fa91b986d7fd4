---------------------------- MODULE DdDataService ----------------------------
(***************************************************************************)
(* The transfer service of dd-core (internal/service/dd_data_service.go).  *)
(*                                                                         *)
(* SendSync publishes a request on the broker and blocks until a response  *)
(* with the same correlation id, its timer or its context ends the wait.   *)
(* The calls share three mutex-protected maps: pendingRequests (request id *)
(* to wait channel), idempotentKeys (idempotency key to cached response)   *)
(* and transferStatuses (request id to last recorded status).  Responses   *)
(* arrive on the callback goroutines of the broker client, and two tickers *)
(* sweep the caches.                                                       *)
(*                                                                         *)
(* Every action is one critical section, one channel operation, or one     *)
(* call on the broker client, with the local code around it.               *)
(***************************************************************************)
EXTENDS Integers, FiniteSets

CONSTANTS
  Calls,              \* one element per invocation of SendSync or SendAsync
  ReqIds,             \* request ids the callers use
  Keys,               \* idempotency keys the callers use
  Handlers,           \* callback goroutines of the broker client
  None,               \* Go's nil / "no entry in the map"
  MaxPending,         \* maxPendingRequests
  MaxIdempotentKeys,  \* maxIdempotentKeys
  SyncRequests,       \* messages passed to SendSync
  AsyncRequests,      \* messages passed to SendAsync
  TTLs,               \* values of max(5 * timeout, one minute)
  StatusRetention,    \* statusRetention
  MaxAnswers,         \* bound: answers a peer gives to one request
  MaxTime             \* bound: ticks of the clock

ASSUME BoundsAssumption ==
  /\ MaxPending \in Nat /\ MaxIdempotentKeys \in Nat
  /\ StatusRetention \in Nat /\ MaxAnswers \in Nat /\ MaxTime \in Nat
  /\ TTLs \subseteq Nat

(* What SendSync and SendAsync look at in a message. *)
Request == [id : ReqIds, key : Keys \cup {None}, ttl : TTLs]

ASSUME RequestsAssumption ==
  SyncRequests \subseteq Request /\ AsyncRequests \subseteq Request

(* A message on a response topic.  "for" is the call whose request it      *)
(* answers; the code never sees it, only the correlation id.               *)
Response == [id : ReqIds, for : Calls, n : 1 .. MaxAnswers]

Status == {"accepted", "routed", "responded", "timeout", "failed"}
StatusRecord == [status : Status, updatedAt : Nat]
IdempotentEntry == [response : Response, expireAt : Nat]

ASSUME NoneAssumption ==
  /\ None \notin Calls
  /\ None \notin Keys
  /\ None \notin Request
  /\ None \notin Response
  /\ None \notin StatusRecord
  /\ None \notin IdempotentEntry
  /\ None \notin Nat

VARIABLES
  pc,                \* where each call is
  req,               \* the message each call was given
  outcome,           \* what each call returned
  reply,             \* the response each call returned, if any
  pendingRequests,   \* request id -> call that owns the wait channel
  waitCh,            \* buffer (capacity 1) of each call's wait channel
  transferStatuses,  \* request id -> status record
  idempotentKeys,    \* idempotency key -> cached response
  published,         \* calls whose request was handed to the broker
  responses,         \* answers that exist; the broker may deliver each one
                     \* any number of times, late, in any order, or never
  hpc, hcall, hmsg,  \* callback goroutine: step, channel looked up, message
  now,               \* time.Now(), in coarse ticks
  latest,            \* history: last response whose lookup found this call
  lease              \* history: expireAt of the cache entry a call stored

callVars == <<pc, req, outcome, reply>>
mapVars == <<pendingRequests, transferStatuses, idempotentKeys>>
brokerVars == <<published, responses>>
handlerVars == <<hpc, hcall, hmsg, latest>>
vars == <<pc, req, outcome, reply, pendingRequests, waitCh, transferStatuses,
          idempotentKeys, published, responses, hpc, hcall, hmsg, now, latest,
          lease>>

(* Between the insertion into pendingRequests and the deferred deletion. *)
Registered == {"route", "publish", "publishing", "waiting", "received",
               "store", "cleanup"}
CallSteps == {"idle", "lookup", "accept", "register"} \cup Registered
               \cup {"publishingAsync", "done"}
Outcomes == {"none", "denied", "invalid", "idempotent", "backpressure",
             "duplicate", "failed", "timeout", "cancelled", "responded",
             "sent", "unsent"}
HandlerSteps == {"idle", "send", "drain", "resend"}

TypeOK ==
  /\ pc \in [Calls -> CallSteps]
  /\ req \in [Calls -> Request \cup {None}]
  /\ outcome \in [Calls -> Outcomes]
  /\ reply \in [Calls -> Response \cup {None}]
  /\ pendingRequests \in [ReqIds -> Calls \cup {None}]
  /\ waitCh \in [Calls -> Response \cup {None}]
  /\ transferStatuses \in [ReqIds -> StatusRecord \cup {None}]
  /\ idempotentKeys \in [Keys -> IdempotentEntry \cup {None}]
  /\ published \subseteq Calls
  /\ responses \subseteq Response
  /\ hpc \in [Handlers -> HandlerSteps]
  /\ hcall \in [Handlers -> Calls \cup {None}]
  /\ hmsg \in [Handlers -> Response \cup {None}]
  /\ now \in Nat
  /\ latest \in [Calls -> Response \cup {None}]
  /\ lease \in [Calls -> Nat \cup {None}]

Init ==
  /\ pc = [c \in Calls |-> "idle"]
  /\ req = [c \in Calls |-> None]
  /\ outcome = [c \in Calls |-> "none"]
  /\ reply = [c \in Calls |-> None]
  /\ pendingRequests = [r \in ReqIds |-> None]
  /\ waitCh = [c \in Calls |-> None]
  /\ transferStatuses = [r \in ReqIds |-> None]
  /\ idempotentKeys = [k \in Keys |-> None]
  /\ published = {}
  /\ responses = {}
  /\ hpc = [h \in Handlers |-> "idle"]
  /\ hcall = [h \in Handlers |-> None]
  /\ hmsg = [h \in Handlers |-> None]
  /\ now = 0
  /\ latest = [c \in Calls |-> None]
  /\ lease = [c \in Calls |-> None]

-----------------------------------------------------------------------------
(* Helpers. *)

Goto(c, from, to) ==
  /\ pc[c] = from
  /\ pc' = [pc EXCEPT ![c] = to]

(* The call has its result; deferred functions may still have to run. *)
Finish(c, from, to, result) ==
  /\ Goto(c, from, to)
  /\ outcome' = [outcome EXCEPT ![c] = result]

pendingIds == {r \in ReqIds : pendingRequests[r] # None}

(* PendingRequestCount *)
PendingRequestCount == Cardinality(pendingIds)

recordStatus(c, s) ==
  transferStatuses' =
    [transferStatuses EXCEPT ![req[c].id] = [status |-> s, updatedAt |-> now]]

(* lookupIdempotent: a present entry counts until the instant it expires. *)
CacheHit(c) ==
  /\ req[c].key # None
  /\ idempotentKeys[req[c].key] # None
  /\ now < idempotentKeys[req[c].key].expireAt

-----------------------------------------------------------------------------
(* SendSync, in program order. *)

(* Entry: nil check, Normalize and the ACL check. *)
SendSync(c, m) ==
  /\ req' = [req EXCEPT ![c] = m]
  /\ \/ /\ Goto(c, "idle", "lookup")
        /\ UNCHANGED outcome
     \/ Finish(c, "idle", "done", "denied")
  /\ UNCHANGED <<reply, waitCh, mapVars, brokerVars, handlerVars, now, lease>>

LookupHit(c) ==
  /\ Finish(c, "lookup", "done", "idempotent")
  /\ CacheHit(c)
  /\ reply' = [reply EXCEPT ![c] = idempotentKeys[req[c].key].response]
  /\ UNCHANGED <<req, waitCh, mapVars, brokerVars, handlerVars, now, lease>>

LookupMiss(c) ==
  /\ Goto(c, "lookup", "accept")
  /\ ~CacheHit(c)
  /\ UNCHANGED <<req, outcome, reply, waitCh, mapVars, brokerVars,
                 handlerVars, now, lease>>

(* The message fails Validate: no status is recorded. *)
RejectInvalid(c) ==
  /\ Finish(c, "accept", "done", "invalid")
  /\ UNCHANGED <<req, reply, waitCh, mapVars, brokerVars, handlerVars, now,
                 lease>>

RecordAccepted(c) ==
  /\ Goto(c, "accept", "register")
  /\ recordStatus(c, "accepted")
  /\ UNCHANGED <<req, outcome, reply, pendingRequests, waitCh,
                 idempotentKeys, brokerVars, handlerVars, now, lease>>

(* The pendingMu section with the limit checked one entry too late. *)
RegisterOverLimit(c) ==
  /\ PendingRequestCount <= MaxPending
  /\ Goto(c, "register", "route")
  /\ pendingRequests[req[c].id] = None
  /\ pendingRequests' = [pendingRequests EXCEPT ![req[c].id] = c]
  /\ UNCHANGED <<req, outcome, reply, waitCh, transferStatuses,
                 idempotentKeys, brokerVars, handlerVars, now, lease>>

(* The pendingMu section without the test for an existing entry. *)
RegisterNoDuplicateCheck(c) ==
  /\ PendingRequestCount < MaxPending
  /\ Goto(c, "register", "route")
  /\ pendingRequests' = [pendingRequests EXCEPT ![req[c].id] = c]
  /\ UNCHANGED <<req, outcome, reply, waitCh, transferStatuses,
                 idempotentKeys, brokerVars, handlerVars, now, lease>>

(* The pendingMu section.  The two errors return before the defer. *)
Register(c) ==
  \/ /\ PendingRequestCount >= MaxPending
     /\ Finish(c, "register", "done", "backpressure")
     /\ UNCHANGED <<req, reply, waitCh, mapVars, brokerVars, handlerVars,
                    now, lease>>
  \/ /\ PendingRequestCount < MaxPending
     /\ Finish(c, "register", "done", "duplicate")
     /\ pendingRequests[req[c].id] # None
     /\ UNCHANGED <<req, reply, waitCh, mapVars, brokerVars, handlerVars,
                    now, lease>>
  \/ /\ PendingRequestCount < MaxPending
     /\ Goto(c, "register", "route")
     /\ pendingRequests[req[c].id] = None
     /\ pendingRequests' = [pendingRequests EXCEPT ![req[c].id] = c]
     /\ UNCHANGED <<req, outcome, reply, waitCh, transferStatuses,
                    idempotentKeys, brokerVars, handlerVars, now, lease>>

RecordRouted(c) ==
  /\ Goto(c, "route", "publish")
  /\ recordStatus(c, "routed")
  /\ UNCHANGED <<req, outcome, reply, pendingRequests, waitCh,
                 idempotentKeys, brokerVars, handlerVars, now, lease>>

EncodeFails(c) ==
  /\ Finish(c, "publish", "cleanup", "failed")
  /\ recordStatus(c, "failed")
  /\ UNCHANGED <<req, reply, pendingRequests, waitCh, idempotentKeys,
                 brokerVars, handlerVars, now, lease>>

(* mqClient.Publish is entered: from here on the peer may answer. *)
PublishRequest(c) ==
  /\ Goto(c, "publish", "publishing")
  /\ published' = published \cup {c}
  /\ UNCHANGED <<req, outcome, reply, waitCh, mapVars, responses,
                 handlerVars, now, lease>>

(* mqClient.Publish returns; only now is the timer created. *)
PublishReturns(c) ==
  /\ Goto(c, "publishing", "waiting")
  /\ UNCHANGED <<req, outcome, reply, waitCh, mapVars, brokerVars,
                 handlerVars, now, lease>>

(* A publish error that returns without recording the failure. *)
PublishFailsSilently(c) ==
  /\ Finish(c, "publishing", "cleanup", "failed")
  /\ UNCHANGED <<req, reply, mapVars, waitCh, brokerVars, handlerVars, now,
                 lease>>

(* A broker error, or the context ends during Publish. *)
PublishFails(c) ==
  /\ Finish(c, "publishing", "cleanup", "failed")
  /\ recordStatus(c, "failed")
  /\ UNCHANGED <<req, reply, pendingRequests, waitCh, idempotentKeys,
                 brokerVars, handlerVars, now, lease>>

(* A select whose timer case is lost. *)
TimeoutNever(c) == FALSE /\ Goto(c, "waiting", "cleanup") /\ UNCHANGED vars

(* The select: any ready case may be taken. *)
Timeout(c) ==
  /\ Finish(c, "waiting", "cleanup", "timeout")
  /\ recordStatus(c, "timeout")
  /\ UNCHANGED <<req, reply, pendingRequests, waitCh, idempotentKeys,
                 brokerVars, handlerVars, now, lease>>

Cancel(c) ==
  /\ Finish(c, "waiting", "cleanup", "cancelled")
  /\ UNCHANGED <<req, reply, waitCh, mapVars, brokerVars, handlerVars, now,
                 lease>>

Receive(c) ==
  /\ waitCh[c] # None
  /\ Goto(c, "waiting", "received")
  /\ reply' = [reply EXCEPT ![c] = waitCh[c]]
  /\ waitCh' = [waitCh EXCEPT ![c] = None]
  /\ UNCHANGED <<req, outcome, mapVars, brokerVars, handlerVars, now, lease>>

RecordResponded(c) ==
  /\ Goto(c, "received", "store")
  /\ recordStatus(c, "responded")
  /\ UNCHANGED <<req, outcome, reply, pendingRequests, waitCh,
                 idempotentKeys, brokerVars, handlerVars, now, lease>>

(* Caching what is left in the channel instead of the response received. *)
StoreEmptiedBuffer(c) ==
  /\ Finish(c, "store", "cleanup", "responded")
  /\ req[c].key # None
  /\ idempotentKeys' =
       [idempotentKeys EXCEPT ![req[c].key] =
          [response |-> waitCh[c], expireAt |-> now + req[c].ttl]]
  /\ UNCHANGED <<req, reply, pendingRequests, waitCh, transferStatuses,
                 brokerVars, handlerVars, now, lease>>

(* storeIdempotent, then the return that runs the deferred deletion. *)
StoreIdempotent(c) ==
  /\ Finish(c, "store", "cleanup", "responded")
  /\ \/ /\ req[c].key = None
        /\ UNCHANGED <<idempotentKeys, lease>>
     \/ /\ req[c].key # None
        /\ idempotentKeys' =
             [idempotentKeys EXCEPT ![req[c].key] =
                [response |-> reply[c], expireAt |-> now + req[c].ttl]]
        /\ lease' = [lease EXCEPT ![c] = now + req[c].ttl]
  /\ UNCHANGED <<req, reply, pendingRequests, waitCh, transferStatuses,
                 brokerVars, handlerVars, now>>

(* The deferred delete(pendingRequests, RequestId). *)
Cleanup(c) ==
  /\ Goto(c, "cleanup", "done")
  /\ pendingRequests' = [pendingRequests EXCEPT ![req[c].id] = None]
  /\ UNCHANGED <<req, outcome, reply, waitCh, transferStatuses,
                 idempotentKeys, brokerVars, handlerVars, now, lease>>

-----------------------------------------------------------------------------
(* SendAsync: the status is recorded after Publish has returned. *)

(* Entry: ACL check, Validate and the encoding, whose error is returned    *)
(* ("unsent") without a record.                                            *)
SendAsync(c, m) ==
  /\ req' = [req EXCEPT ![c] = m]
  /\ \/ /\ Goto(c, "idle", "publishingAsync")
        /\ UNCHANGED outcome
     \/ \E result \in {"denied", "invalid", "unsent"} :
          Finish(c, "idle", "done", result)
  /\ UNCHANGED <<reply, waitCh, mapVars, brokerVars, handlerVars, now, lease>>

AsyncPublished(c) ==
  /\ Finish(c, "publishingAsync", "done", "sent")
  /\ recordStatus(c, "accepted")
  /\ UNCHANGED <<req, reply, pendingRequests, waitCh, idempotentKeys,
                 brokerVars, handlerVars, now, lease>>

AsyncPublishFails(c) ==
  /\ Finish(c, "publishingAsync", "done", "failed")
  /\ recordStatus(c, "failed")
  /\ UNCHANGED <<req, reply, pendingRequests, waitCh, idempotentKeys,
                 brokerVars, handlerVars, now, lease>>

-----------------------------------------------------------------------------
(* The callback of SubscribeSyncResponses.                                 *)

(* A lookup that takes whichever waiter the map yields. *)
LookupAnyWaiter(h, m) ==
  \E r \in pendingIds :
    /\ hpc[h] = "idle"
    /\ hpc' = [hpc EXCEPT ![h] = "send"]
    /\ hcall' = [hcall EXCEPT ![h] = pendingRequests[r]]
    /\ hmsg' = [hmsg EXCEPT ![h] = m]
    /\ latest' = [latest EXCEPT ![pendingRequests[r]] = m]
    /\ UNCHANGED <<callVars, waitCh, mapVars, brokerVars, now, lease>>

(* Lookup under pendingMu; an id nobody waits for is dropped. *)
LookupWaiter(h, m) ==
  /\ hpc[h] = "idle"
  /\ pendingRequests[m.id] # None
  /\ hpc' = [hpc EXCEPT ![h] = "send"]
  /\ hcall' = [hcall EXCEPT ![h] = pendingRequests[m.id]]
  /\ hmsg' = [hmsg EXCEPT ![h] = m]
  /\ latest' = [latest EXCEPT ![pendingRequests[m.id]] = m]
  /\ UNCHANGED <<callVars, waitCh, mapVars, brokerVars, now, lease>>

HandlerDone(h) ==
  /\ hpc' = [hpc EXCEPT ![h] = "idle"]
  /\ hcall' = [hcall EXCEPT ![h] = None]
  /\ hmsg' = [hmsg EXCEPT ![h] = None]

Put(h) == waitCh' = [waitCh EXCEPT ![hcall[h]] = hmsg[h]]

(* The earlier form of the callback, which dropped what does not fit. *)
TrySendOrDrop(h) ==
  /\ hpc[h] = "send"
  /\ \/ waitCh[hcall[h]] = None /\ Put(h)
     \/ waitCh[hcall[h]] # None /\ UNCHANGED waitCh
  /\ HandlerDone(h)
  /\ UNCHANGED <<callVars, mapVars, brokerVars, now, latest, lease>>

(* First select: send, or find the buffer full. *)
TrySend(h) ==
  /\ hpc[h] = "send"
  /\ \/ /\ waitCh[hcall[h]] = None
        /\ Put(h)
        /\ HandlerDone(h)
     \/ /\ waitCh[hcall[h]] # None
        /\ hpc' = [hpc EXCEPT ![h] = "drain"]
        /\ UNCHANGED <<waitCh, hcall, hmsg>>
  /\ UNCHANGED <<callVars, mapVars, brokerVars, now, latest, lease>>

(* A drain that is not followed by a second attempt to send. *)
DrainAndGiveUp(h) ==
  /\ hpc[h] = "drain"
  /\ waitCh' = [waitCh EXCEPT ![hcall[h]] = None]
  /\ HandlerDone(h)
  /\ UNCHANGED <<callVars, mapVars, brokerVars, now, latest, lease>>

(* Second select: take the stale value out, if it is still there. *)
Drain(h) ==
  /\ hpc[h] = "drain"
  /\ waitCh' = [waitCh EXCEPT ![hcall[h]] = None]
  /\ hpc' = [hpc EXCEPT ![h] = "resend"]
  /\ UNCHANGED <<callVars, mapVars, brokerVars, hcall, hmsg, now, latest,
                 lease>>

(* Third select: send again, or drop when another goroutine was faster. *)
Resend(h) ==
  /\ hpc[h] = "resend"
  /\ \/ waitCh[hcall[h]] = None /\ Put(h)
     \/ waitCh[hcall[h]] # None /\ UNCHANGED waitCh
  /\ HandlerDone(h)
  /\ UNCHANGED <<callVars, mapVars, brokerVars, now, latest, lease>>

-----------------------------------------------------------------------------
(* The peer that serves requests (external): it answers a published        *)
(* request with CorrelationId = RequestId, up to MaxAnswers times.         *)
Answer(c, n) ==
  /\ c \in published
  /\ responses' = responses \cup {[id |-> req[c].id, for |-> c, n |-> n]}
  /\ UNCHANGED <<callVars, mapVars, waitCh, published, handlerVars, now,
                 lease>>

-----------------------------------------------------------------------------
(* The tickers. *)

Tick ==
  /\ now < MaxTime
  /\ now' = now + 1
  /\ UNCHANGED <<callVars, waitCh, mapVars, brokerVars, handlerVars, lease>>

(* A sweep that compares the wrong way round. *)
SweepLiveEntries ==
  /\ idempotentKeys' =
       [k \in Keys |-> IF /\ idempotentKeys[k] # None
                          /\ now < idempotentKeys[k].expireAt
                       THEN None ELSE idempotentKeys[k]]
  /\ UNCHANGED <<callVars, waitCh, pendingRequests, transferStatuses,
                 brokerVars, handlerVars, now, lease>>

(* sweepIdempotent: expired entries go, then the oldest while over the     *)
(* limit; which of two equally old ones goes is the map's iteration order. *)
SweepIdempotent ==
  LET live == {k \in Keys : /\ idempotentKeys[k] # None
                            /\ ~(now > idempotentKeys[k].expireAt)}
  IN \E kept \in SUBSET live :
       /\ IF Cardinality(live) > MaxIdempotentKeys
            THEN Cardinality(kept) = MaxIdempotentKeys
            ELSE kept = live
       /\ \A k \in kept, g \in live \ kept :
            idempotentKeys[g].expireAt <= idempotentKeys[k].expireAt
       /\ idempotentKeys' =
            [k \in Keys |-> IF k \in kept THEN idempotentKeys[k] ELSE None]
       /\ UNCHANGED <<callVars, waitCh, pendingRequests, transferStatuses,
                      brokerVars, handlerVars, now, lease>>

(* sweepTransferStatuses *)
SweepTransferStatuses ==
  /\ transferStatuses' =
       [r \in ReqIds |->
          IF /\ transferStatuses[r] # None
             /\ now - transferStatuses[r].updatedAt > StatusRetention
          THEN None
          ELSE transferStatuses[r]]
  /\ UNCHANGED <<callVars, waitCh, pendingRequests, idempotentKeys,
                 brokerVars, handlerVars, now, lease>>

-----------------------------------------------------------------------------
(* Specification. *)

Enter(c) ==
  \/ \E m \in SyncRequests : SendSync(c, m)
  \/ \E m \in AsyncRequests : SendAsync(c, m)

(* Steps the Go runtime takes for a call.  Publish ends when the broker    *)
(* client says so, a context when the caller does.                         *)
CallStep(c) ==
  \/ LookupHit(c) \/ LookupMiss(c) \/ RejectInvalid(c) \/ RecordAccepted(c)
  \/ Register(c) \/ RecordRouted(c) \/ EncodeFails(c) \/ PublishRequest(c)
  \/ Timeout(c) \/ Receive(c)
  \/ RecordResponded(c) \/ StoreIdempotent(c) \/ Cleanup(c)

PublishEnds(c) ==
  \/ PublishReturns(c) \/ PublishFails(c)
  \/ AsyncPublished(c) \/ AsyncPublishFails(c)

HandlerStep(h) == TrySend(h) \/ Drain(h) \/ Resend(h)

Next ==
  \/ \E c \in Calls : Enter(c) \/ CallStep(c) \/ PublishEnds(c) \/ Cancel(c)
  \/ \E h \in Handlers : HandlerStep(h) \/ \E m \in responses : LookupWaiter(h, m)
  \/ \E c \in Calls, n \in 1 .. MaxAnswers : Answer(c, n)
  \/ Tick \/ SweepIdempotent \/ SweepTransferStatuses

Spec == Init /\ [][Next]_vars

(* Goroutines are scheduled and timers fire; nothing obliges the broker to *)
(* acknowledge, a peer to answer or a caller to cancel.                    *)
CodeFairness ==
  /\ \A c \in Calls : WF_vars(CallStep(c))
  /\ \A h \in Handlers : WF_vars(HandlerStep(h))

BrokerFairness == \A c \in Calls : WF_vars(PublishEnds(c))

FairSpec == Spec /\ CodeFairness /\ BrokerFairness

-----------------------------------------------------------------------------
(* Properties. *)

(* SendSync deletes by request id, not by channel: that is right only if   *)
(* a call between Register and its deferred Cleanup always owns the entry  *)
(* of its id.  Conversely no entry outlives the call that made it.         *)
PendingOwnership ==
  /\ \A c \in Calls :
       pc[c] \in Registered => pendingRequests[req[c].id] = c
  /\ \A r \in ReqIds :
       pendingRequests[r] # None =>
         /\ pc[pendingRequests[r]] \in Registered
         /\ req[pendingRequests[r]].id = r

(* The maxPendingRequests check bounds the calls that are in flight, not   *)
(* only the size of the map.                                               *)
BackpressureBound ==
  Cardinality({c \in Calls : pc[c] \in Registered}) <= MaxPending

Undelivered == {"route", "publish", "publishing", "waiting"}
Serving(c) == {h \in Handlers : hcall[h] = c}

(* The three selects of the response callback never lose the only answer:  *)
(* once a callback has found the waiter, the waiter's buffer holds an      *)
(* answer whenever no callback is at work on it, however many callbacks    *)
(* drain and refill it concurrently.                                       *)
NoLostResponse ==
  \A c \in Calls :
    latest[c] # None /\ pc[c] \in Undelivered /\ Serving(c) = {} =>
      waitCh[c] # None

(* The comment in SubscribeSyncResponses: a full buffer is overwritten by  *)
(* the latest response.  True when callbacks run one at a time.            *)
LatestWins ==
  \A c \in Calls :
    waitCh[c] # None /\ Serving(c) = {} => waitCh[c] = latest[c]

(* What SendSync returns answers a request that was really published under *)
(* the caller's own request id, although a channel outlives its map entry  *)
(* and callbacks may write to it late.                                     *)
CorrelatedReply ==
  \A c \in Calls :
    outcome[c] = "responded" =>
      /\ reply[c] \in responses
      /\ reply[c].id = req[c].id
      /\ reply[c].for \in published

(* A response taken from the idempotency cache is one that a completed     *)
(* call with the same idempotency key returned.                            *)
CachedReply ==
  \A c \in Calls :
    outcome[c] = "idempotent" =>
      \E d \in Calls : /\ outcome[d] = "responded"
                       /\ req[d].key = req[c].key
                       /\ reply[d] = reply[c]

SameKey(c, d) == req[c].key # None /\ req[c].key = req[d].key

(* A call that looks up a key after another call returned a response for   *)
(* it, and before that entry's TTL ends, does not go on to publish: the    *)
(* sweepers and later stores never lose a live entry (for one TTL value    *)
(* and a cache that is large enough).                                      *)
DedupWithinTTL ==
  [][\A c, d \in Calls :
       /\ pc[d] = "done" /\ lease[d] # None /\ now < lease[d]
       /\ pc[c] = "lookup" /\ pc'[c] # "lookup" /\ SameKey(c, d)
       => outcome'[c] = "idempotent"]_vars

SameId(c, d) == req[c] # None /\ req[d] # None /\ req[c].id = req[d].id
Sole(c) == \A d \in Calls \ {c} : ~SameId(c, d)

(* The statuses of TransferStatus that say how a transfer ended. *)
FinalStatuses == {"responded", "timeout", "failed"}

(* The record of a request id that only one call used: a final status in   *)
(* it is what that call returned, on every error path, and a call that     *)
(* returned one of the final results left it there until the retention     *)
(* sweep.  Refused and cancelled calls leave no final status: see          *)
(* ReportsFinalStatus.                                                     *)
StatusTellsOutcome ==
  \A c \in Calls :
    pc[c] = "done" /\ Sole(c) =>
      LET rec == transferStatuses[req[c].id] IN
        /\ rec # None /\ rec.status \in FinalStatuses => outcome[c] = rec.status
        /\ outcome[c] \in FinalStatuses =>
             IF rec = None THEN now > StatusRetention
                           ELSE rec.status = outcome[c]

(* The claim of the requirements (FR-5) that the transfer API returns the  *)
(* final status: the record a returned SendSync left under its own id no   *)
(* longer shows a transfer under way.                                      *)
ReportsFinalStatus ==
  \A c \in Calls :
    pc[c] = "done" /\ Sole(c) /\ outcome[c] # "sent" =>
      LET rec == transferStatuses[req[c].id] IN
        rec # None => rec.status \in FinalStatuses

(* Every SendSync and SendAsync returns once the broker client answers     *)
(* Publish: the timer ends every wait and nothing blocks the cleanup.      *)
EveryCallReturns ==
  \A c \in Calls : pc[c] # "idle" ~> pc[c] = "done"

-----------------------------------------------------------------------------
(* The abstract view of a call: its lease starts with the insertion into   *)
(* pendingRequests, its answer is the value taken from the wait channel.   *)
Stage(c) ==
  IF pc[c] = "done" THEN "closed"
  ELSE IF pc[c] \notin Registered THEN "new"
  ELSE IF reply[c] = None THEN "open"
  ELSE "answered"

Promise == INSTANCE RequestReply WITH
  stage <- [c \in Calls |-> Stage(c)],
  holder <- pendingRequests,
  answer <- reply

(* The maps, channels, callbacks and sweepers of the service implement the *)
(* request/reply promise: exclusive request ids, a bounded number of them, *)
(* at most one answer per call and only for the id it holds.               *)
ImplementsRequestReply == Promise!ASpec
=============================================================================
