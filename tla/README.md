# dd-core: TLA+ models and proofs

dd-core is a data-distribution node. Peers register with a hub, declare
resources, and exchange messages over an MQTT broker: `sync` transfers are
request/reply with a timeout, `async` transfers are events, streams are sessions
that are opened and closed. Bridges carry the messages to HTTP, CoAP or other
MQTT topics. This directory holds TLA+ models of the program, the TLC runs that
check them, and TLAPS proofs of the most important results.

## 1. Inventory

| component | state | operations | interacts with |
|---|---|---|---|
| `DdDataService` | `pendingRequests`, `idempotentKeys`, `transferStatuses`, one lock each | `SendSync`, `SendAsync`, response callback, two sweepers | MQ client; HTTP handlers call it |
| `PeerRegistryService`, `MemoryStore` | peer records under one lock | MQ handlers (register, heartbeat, report, query, unregister), HTTP-side register/heartbeat/unregister, `SweepStale` | publishes the events it also handles |
| `ResourceCatalog` | resource -> providers | `OnPeerRegistered`, two updates without a caller | called by the HTTP register handler |
| `CoapBridge` | `reqCh`, `stopCh`, worker pool, breaker | `enqueueTask`, `worker`, `doCoap`, `Stop` | MQ callbacks in, UDP out, replies and DLQ to MQ |
| `HttpBridge` | breaker | handler per message, `doHttp` | MQ callbacks in, HTTP out, replies and DLQ to MQ |
| `MqttBridge` | none | forward | MQ to MQ |
| transfer endpoints of `api` | per request | route decision, direct call, fallback, batch | data service, targets |
| `HubDiscoveryService` | active hubs and auth peers, ticker | broadcast, receive, getters, `Stop` | MQ |
| `AuthPeerService` | secrets | verify, token | MQ |
| `StreamService` | sessions | open, close, `SweepIdle` | MQ, ticker in `main` |
| `PeerListService`, `ProtocolResourceIndex` | none | filtered, paged reads | registry, catalog, ACL |
| `TopicAclService`, `TopicSet`, `DecideRoute` | rules, set once | pure decisions | everybody |
| `mq` clients | subscriptions | publish, subscribe, alias, QoS class, match | paho, or in memory for tests |
| `model` | none | normalise, validate | everybody |
| `config`, `observability`, `cmd/main` | settings, gauges | layers of settings, start | all |

What is hard here:

* several goroutines use one map through separate critical sections (the
  idempotency lookup and store at the two ends of `SendSync`; `Get` and `Set` in
  `handleHeartbeat`);
* callbacks use a channel after releasing the lock under which they found it;
* an HTTP request writes the store and then publishes the event whose handler
  writes the store again;
* responses and events are late, repeated, lost, or never come;
* a call that failed may still be executed, and is made again over another route;
* `Stop` closes channels that callbacks still send on;
* sweepers, leases and TTLs compare times at boundaries, across clocks;
* pure decisions with edges: wildcards, merged schemas, page arithmetic, packet
  lengths, layers of settings with different notions of "not given".

`PROJECT.json` lists each of these as a hazard, at its line, with the properties
that would catch it.

## 2. Modules

| module | models |
|---|---|
| `DdDataService` | `internal/service/dd_data_service.go` |
| `RequestReply` | abstract promise of the sync half of the service |
| `PeerRegistry` | `peer_registry_service.go`, `memory_store.go`, the used part of `resource_catalog.go` and `protocol_resource_index.go`, the peer handlers of `api/handler.go` |
| `CoapBridge` | `internal/adapter/coap_bridge.go` without the packets |
| `HttpBridge` | `internal/adapter/http_bridge.go` with the target it calls |
| `Transfer` | the transfer handlers of `api/handler.go` and `route_decision.go`, composed with `HttpBridge` |
| `HubDiscovery` | `internal/service/hub_discovery.go` |
| `StreamService` | `internal/service/stream_service.go` |
| `Topics` | `topic_set.go`, `topic_acl_service.go`, the matcher of `mock_client.go` |
| `MqClient` | alias, QoS class and delivery of `mqtt_client.go`; the forwarding of `mqtt_bridge.go` |
| `MetaSchema` | `Normalize`, `Validate` and the merge and check of schemas |
| `PeerList`, `AuthPeer`, `CoapPacket`, `Config` | the decisions of the files of those names |
| `Decisions` | asks every one of these decisions with every input of a set |
| `..._proofs` | theorems about the module of that name |
| `MC...` | inputs and symmetry for the runs |

Operators whose comment says "A bug", or that state what a faulty variant does
(`RegisterOverLimit`, `TrySendOrDrop`, ...), are not part of a specification:
they are the code with one plausible mistake, used to confirm that each property
can fail.

### DdDataService

One element of `Calls` is one invocation. `pc` says which critical section,
channel operation or broker call comes next; each is one action, so all
interleavings of the three locks are there.

* A wait channel (capacity 1) is `waitCh[c]`; `pendingRequests` maps an id to the
  call that owns the channel.
* The response callback is three actions, `TrySend`, `Drain`, `Resend`, one per
  `select`, after `LookupWaiter`. `Handlers` is the set of callback goroutines:
  paho delivers in order (one handler), the in-memory client runs callbacks on
  the publisher's goroutine (several).
* The broker and the serving peer are the environment: `Answer` creates a
  response, and an existing response may be delivered any number of times, late,
  in any order, or never.
* Time is a coarse counter. The timer of a call may fire at any moment of its
  wait, which covers every timeout value. `TTLs` are the values of
  `max(5 * timeout, 1 min)`.
* Message contents are abstracted to id, key and TTL; ACL, validation and
  encoding are nondeterministic outcomes at their place in the control flow, in
  `SendSync` and in `SendAsync`.
* `latest` and `lease` are history variables.

### PeerRegistry

* `bus` holds the events the broker has for this hub in delivery order, one
  callback goroutine handles them. Register and unregister are QoS 1 (the head
  may be handled again), heartbeat and report QoS 0 (the head may be lost).
* `RegisterPeer`/`UnregisterPeer` write the store, then `Publish` appends the
  event; `OnPeerRegistered` follows only a successful publish. `main`'s
  self-registration is a registration without resources, whose catalog update is
  empty.
* `GetPeer` followed by `HeartbeatSet` or `ReportSet` is the read-modify-write of
  the two handlers.
* The catalog is written by registrations over HTTP and never cleaned up;
  `handleResourceProviders` and `lookupPeers` are the two readers that filter it.
* The zero `time.Time` is `None`. Other nodes' clocks are not ahead of the hub's.
* `Sweeping` says whether anything calls `SweepStale`. `cmd/main.go` does not.
* `expected`, `alive` and `lost` are history variables.

### CoapBridge

* Each message is a task with its own callback, so any number of callbacks may be
  between the check of `stopCh` and the send.
* A send on the closed channel sets `panicked`, which ends the process.
* `Attempt` sends one request, then one of three outcomes. Dial, write and read
  errors are one action: they do the same to breaker and loop.
* The fate of a task (`replied`, `deadLettered`, ...) replaces the bodies.
* `openAttempts` is a history variable.

### HttpBridge and Transfer

* A callback keeps its goroutine through all attempts (`hpc`, `hattempt`). The
  bridge never looks at the protocol of a message, so the model has none.
* The target is part of the model: it executes a request while the caller waits
  (`TargetExecutes`) or after the caller gave up (`abandoned`, `LateExecution`).
* An HTTP request to a transfer endpoint walks through its items: checks,
  `DecideRoute`, direct call, fallback, `SendSync` or `SendAsync`, end of the
  item. A batch is the same loop with counters. The data service appears by what
  `RequestReply` promises; the refinement run and theorem of `DdDataService` are
  the reason it may.
* The broker gives messages for this node's bridge to its callbacks, request
  messages perhaps more than once; messages for another peer are answered by the
  environment or not at all.
* `published` and `directly` are history variables.

### HubDiscovery

* The loop of a hub is its `select`: `broadcast` when the ticker has fired,
  `Exit` when `stopCh` is closed, either when both are ready. `Publish` may fail.
* Times are kept as ages that grow with `Tick`; the clock of a sender may differ
  by `Skew`. A broadcast is QoS 0: `Lose` it, or `Deliver` it at an age of up to
  `MaxDelay`.
* One reader is modelled: `active` is the age of its entry for each node, and
  `Active` the comparison with the TTL in the getters.
* `quiet` and `missed` are history variables.

### StreamService

* `log` is the sequence of open and close events of the node. `pos` counts those
  delivered; `Reconnect` goes back to the first that was not acknowledged, as a
  client does with QoS 1.
* `CloseStream` publishes a close for any id at any time: that of a session, of a
  stream whose open is under way, or of none.
* `Deliver` routes by topic: `Matches` is `MockMatches` or `BrokerMatches`, and
  the handlers are subscribed with `*` as in the code.
* `SweepIdle` and `Tick` are the ticker and the clock; nothing else touches
  `LastActiveAt`.

### Decisions and the modules of operators

Each `Ask...` action puts one question to an operator translated from the code
and keeps question and answer; the properties compare the answer with a reference
definition that is written differently (a set of applying rules against the loop
over them, a page against the set of peers it is cut from, the conjunction of the
providers' checks against the check of the merged schema).

* `LevelsMatch` is the loop of both matchers; `BrokerMatches` states what MQTT
  says.
* `GetResourceMetaSchema` starts with an empty schema, merges those of the peers
  that have one, and says whether there was any; without one nothing is checked.
* Page arithmetic has the width of Go's `int`, so the overflow of
  `offset + pageSize` is there.
* `CoapPacket` builds and parses packets as sequences of bytes, with the extended
  option lengths.
* A question about a peer list is one query, over one order of the registry's
  peers: every query ranges over the Go map anew, so nothing connects the orders
  of two queries.
* `forward` takes any mapping, as `main` does. It works on levels; `Glue` is the
  one level that comes out of a replacement that ends inside a level.
* `Config` has one row per kind of field: which layers reach it and what each of
  them takes for "not given". `Absent` is a source that does not mention the
  field, which is not the same as one that gives 0 or `false`. A number of the
  environment is a sequence of digits, which `parseInt64` reads with the
  wrap-around of its type; the runs have an `int64` of 16 bits.
* A token is the pair of the key's secret and the text `peerId + ":" + peerSecret`
  (`Text`), since an HMAC does not collide in practice; the text does, for ids
  with a `:` in them, and `MCDecisions` has such ids.

## 3. Runs

| run | shows | bounds |
|---|---|---|
| `response_channel` | deletion by id removes the caller's own entry; concurrent callbacks never leave the channel of an answered call empty; every call ends | 2 calls, sync and async, on one id, limit 2, 1 key, 2 callback goroutines, an answer to each call that may be delivered again, with fairness (386 626 states) |
| `cache_and_status` | types; the limit bounds calls in flight; replies carry the caller's id; the latest response wins; a final status that is recorded is the outcome, and an outcome that has one is recorded, on every path; cached replies are genuine; a live entry is never bypassed; refinement of `RequestReply` | 2 calls, sync and async, 2 ids, 1 key, limit 1, 1 callback goroutine, expiry and sweeps (509 891 states) |
| `peer_registry` | looped-back events repair every race on the store; reports, sweeps and late writes never relist an expired peer; provider lists name registered, live peers although the catalog never forgets | 1 peer, 1 resource, 2 requests, 2 remote events, lease 1, 2 ticks |
| `bridge_pool` | tasks neither lost nor handled twice; `Stop` waits for them and returns; every accepted task ends; an open breaker lets through only attempts in progress | 3 tasks of all kinds, 2 workers, queue 1, 2 retries, limit 2, with fairness (301 442 states) |
| `transfer` | how often a target executes a transfer over both routes; the reported route is the one taken; refused transfers never went out; batches account for every item; an open breaker lets through only the attempts in progress; every request is answered | 1 request of seven kinds with up to 2 items, 1 foreign message, 1 callback, 2 retries, 2 deliveries, limit 2, with fairness (81 932 states) |
| `streams` | behind an open a close has the last word, through sweeps and redeliveries; once the reconnects end a closed stream stays closed; no session is active for ever | 2 streams, 4 events, closes of any id at any time, 2 reconnects, timeouts 0 and 1, with fairness (248 583 states) |
| `hub_discovery` | a running hub stays listed through the losses its TTL leaves room for; no entry outlives TTL and clock difference; a hub that falls silent is forgotten | 2 hubs and 1 auth peer, skews 0, 1 and -1, interval 2, TTL 6, delay 1, with fairness (177 097 states) |
| `decisions` | eight decisions against their reference definitions, see below | every input of the sets in `MCDecisions` (228 581 states) |

The properties of `decisions`: the ACL allows what some rule for the caller allows
and none denies (`DenyOverrides`, for lists without rules for `*`); aliases bring
no subscriber a message it did not ask for, and take none from an exact
subscriber (`PublishReaches`); a message of a source that only ends in a wildcard
is forwarded to the target, with the levels the wildcard stood for
(`ForwardLands`); the merged schema is the conjunction of the providers', and
both forms of a message are judged alike (`SchemaIsConjunction`); a page holds
peers the caller may see and asked for, none twice and as many as fit and are
left, with the right `total` and `hasMore` (`PageFits`); a token is taken for the
peer it was given to and, among ids without `:`, for no other (`GrantVerifies`); a
CoAP payload comes out as it went in (`PayloadSurvives`); a field has the value of
the strongest source, if it is one that source is able to set
(`StrongestSource`).

Four further runs show where the program and its documents disagree. Each states
what the document says as a property, and TLC shows how the code breaks it; the
quoted lines are under `findings` in `PROJECT.json`:

| run | what happens |
|---|---|
| `graceful_stop` | a callback races `Stop` and sends on a closed channel |
| `stream_wildcard` | with the matching of an MQTT broker an opened stream never becomes a session, because `*` is no wildcard there |
| `final_status` | a call refused at the pending limit, or cancelled while it waits, is over and its record says `accepted` or `routed` for good |
| `auth_broadcast` | an auth peer is announced once, and every reader forgets it one TTL later although it runs |

The passing properties claim nothing where the code departs from a document: they
exclude the case (rules for `*`, wildcard subscribers with aliases, mappings that
do not only end in a wildcard, values a source is not able to set, the pages of
two queries), and section 4 describes it.

Why the bounds are enough. Ids, peers and resources interact only when equal or
through a shared limit: two calls compete for one id, for one key, and with a limit
of 1 for the only place, which shows every conflict between two; the theorems are
for any number of calls and any limit. Two callbacks are needed for a drain to hit
another's value.
Peers meet only in gauges and catalog, so the races of the registry need one
peer, two requests and two events. The breaker needs enough attempts to fail
`FailLimit` times and still have one to refuse; two workers are enough for one to
be past the breaker when another opens it. In `transfer` requests meet only in
the breaker, and one request with a foreign message reaches every state of it. What
several callbacks do to each other through the breaker is beyond this run;
`BreakerHolds` in `Transfer_proofs` is about any number of them. In
`hub_discovery` the TTL leaves room for one or two losses, depending on the
clock, and up to three are counted. Four events are an open and a close for each
of two streams, or an early, a repeated and a late close of one, and two
reconnects make an open be delivered three times. In `decisions` the largest `int`
is 7 and the largest `int64` 32767, so that offsets and texts around both are
among the inputs.

Fairness. `WF` on the steps of goroutines stands for the Go scheduler, and for
timers, tickers, the clock and network deadlines that go on. A publish is assumed
to return, and a message the client holds to be delivered or lost. Nothing is
assumed of a serving peer, a cancelling caller or a target. A direct HTTP call
without `timeout_ms` has no deadline and is not assumed to end: `Bounded` in
`Transfer` says which calls are. Deadlock checking is off where the requests,
tasks or events of an instance are finite and a node with nothing left to do
rests.

## 4. Differences between code and documents without a run

The models have these behaviours as the code has them, and the properties exclude
them. Paths are below `src/`.

Where a document or the shipped configuration says otherwise:

* A refused duplicate writes `accepted` over the status of the call it duplicates
  (`dd_data_service.go:195`; `docs/prd-v1.0.md:110` wants the status to tell the
  outcome).
* Concurrent calls with one idempotency key are all published, since lookup and
  store are two critical sections (`dd_data_service.go:172`;
  `docs/plan-v.1.2.md:408`).
* The timer of `SendSync` starts after the broker acknowledged the publish
  (`dd_data_service.go:222`; `docs/test-fault-injection-v1.1.md:34`).
* `SendAsync` returns an encoding error without any record of the transfer
  (`dd_data_service.go:140`), where `SendSync` records one.
* An unregistered peer stays in the catalog (`peer_registry_service.go:224`;
  `docs/plan-v.1.2.md:402`); the API filters it.
* `main` starts no ticker for `SweepStale`, so statuses of silent peers never
  change (`GetPeers` filters by lease all the same), and `SweepStale` does not
  refresh the gauges.
* A direct HTTP call without `timeout_ms` never falls back while its target is
  silent (`api/handler.go:805`; `README.md:317` describes the fallback).
* The API answers 200 with the payload of any reply (`api/handler.go:209`), also
  when it is the error body that `doHttp` made of a failed call or an open breaker
  and the bridge published: no target executed the transfer.
  `docs/plan-v.1.1.md:154` says "所有错误返回结构化 DD-xxxx 错误码".
* `Authorize` skips every rule whose `peer_id` is not the caller's id
  (`topic_acl_service.go:43`), so a rule for `*` is about nobody, and a node with
  the rules of the shipped `config.yaml:31-38` (and `docs/plan-v.1.2.md:506-511`),
  `peer_id: "*"` with `allow: true`, refuses everyone it asks about.
* With topic aliases on, `aliasTopic` rewrites an exact transfer topic on publish
  and no wildcard filter on subscribe (`mqtt_client.go:147`): the two response
  subscriptions of `main` get nothing. `README.md:312` says that both are listened
  to, `README.md:323` that leaving wildcards alone keeps bridges compatible.
  Wildcard subscribers of events whose resource is called `transfer` get nothing
  either.
* The MQTT bridge replaces the text of the source before its trailing wildcard by
  that of the target (`mqtt_bridge.go:50`). A message of a source with a wildcard
  in its middle (`a/+/c`), or of the parent level of a source that ends in `#`
  (`a` for `a/#`), does not have that text and is published on its own topic
  again, which the bridge receives again. A target without a wildcard gets the
  rest glued to its last level: `a/b` under the mapping of `a/#` to `x` goes to
  `xb`. `docs/plan-v.1.2.md:244-245` says that messages are forwarded to the
  target and that wildcard sources are supported.
* A peer list is not sorted, and every query ranges over the map of the registry
  anew (`peer_list_service.go:49`, `memory_store.go:48`): pages of two queries are
  cut from two orders, and a caller that walks them all can see one peer twice and
  another never. `docs/design-auth-v1.2.md:234` says "排序 + 分页截断".
* A `false` or 0 of a stronger source does not replace what a weaker one says:
  `DD_MQTT_TLS_ENABLED=false` does not turn off what the file turned on
  (`config.go:349`), and neither does the inline JSON. `README.md:252` says
  "CLI flags > ENV > config file > defaults", line 265 there that the variable
  takes true and false. Inline JSON, which comes with a flag, outranks the
  environment (`docs/plan-v.1.2.md:75-80`).
* `GetActiveHub` returns any active hub (`docs/design-auth-v1.2.md:70` says the
  newest).

What no document speaks of, and a reader may not expect:

* A response that comes after its call timed out is handed to a later call with
  the same id.
* An open that is delivered again makes a closed session active until its close is
  delivered again (`stream_service.go`, `handleStreamOpen`), and a close that
  overtakes its open is forgotten.
* The HTTP bridge takes messages of any protocol, and `doCoap` ignores the code of
  the response.
* A number of the environment that is no `int64` wraps around and may be taken for
  a small one (`config.go:394`).
* Without aliases a transfer to a resource called `event` is sent with QoS 0; a
  tenant of that name has QoS 0 for everything.
* Two peers whose ids and secrets make one text, as `a:b` with secret `c` and `a`
  with secret `b:c`, have one token (`auth_peer_service.go:95`).
* Providers without a common enum value leave an empty enum, which allows
  everything.

## 5. Proofs

Eight modules prove, for every value of the constants, the following; the names in
the third column are the properties that the runs check.

| module | theorem | states |
|---|---|---|
| `DdDataService_proofs` | `TypeCorrect` | `TypeOK` |
| | `OwnershipCorrect` | `PendingOwnership` |
| | `NoResponseLost` | `NoLostResponse` |
| | `RepliesCorrelated` | `CorrelatedReply` |
| | `BackpressureHolds` | `BackpressureBound` |
| | `LatestResponseWins` | `LatestWins`, assuming one callback goroutine |
| | `CachedRepliesGenuine` | `CachedReply` |
| | `Deduplicated` | `DedupWithinTTL`, assuming one TTL and a cache no smaller than the key set |
| | `StatusTold` | `StatusTellsOutcome` |
| | `Implementation` | `ImplementsRequestReply` |
| `Transfer_proofs` | `ExecutionsPaidFor` | `ExecutionsBounded` |
| | `RouteIsReported` | `RouteTellsPath` |
| | `RefusalIsFinal` | `RefusedNotSent` |
| | `BatchIsAccounted` | `BatchAccounts` |
| | `BreakerHolds` | `BreakerShields` |
| `PeerRegistry_proofs` | `StoreAgrees` | `StoreConverges` |
| | `ListedPeersAlive` | `ListedIsAlive` |
| | `ProvidersAreCurrent` | `ProvidersCurrent` |
| `CoapBridge_proofs` | `NoTaskLost` | `TaskConservation` |
| | `StopWaitsForWork` | `StopDrains` |
| | `BreakerHolds` | `BreakerShields` |
| `HubDiscovery_proofs` | `KnownHubsListed` | `KnownWhileHeard` |
| | `NoGhosts` | `NoGhost` |
| `StreamService_proofs` | `CloseHasLastWord` | `CloseWins` |
| `Decisions_proofs` | `DenialOverrides` | `DenyOverrides` |
| | `PublishIsSeen` | `PublishReaches` |
| | `ForwardIsPlaced` | `ForwardLands` |
| | `GrantIsVerified` | `GrantVerifies` |
| | `StrongestIsTaken` | `StrongestSource` |
| `DataLoops_proofs` | `PagesFit` | `PageFits` |
| | `PayloadComesThrough` | `PayloadSurvives` |
| | `SchemaTakesWhatAllTake` | `SchemaIsConjunction` |

Every invariant of the passing runs is in this table. Every module but the last two, which
are about `Decisions`, also has `Invariance`, its inductive invariant
`IInv`, and type correctness as a theorem or a conjunct of `IInv`. The assumptions
are those named in the modules: limits and times are naturals, `None` is no other
value, the worker pool is finite and not empty, the callbacks are finitely many,
messages of other nodes are none of this node's, a broadcast is under way for less than an interval,
stream events reach no handler of the other kind. Those of `Decisions` say what
the inputs are: topics have no wildcards and leave the level `ta` to the aliases,
the hash of the aliases is one-to-one, `#` ends a pattern, the text of a token is
one-to-one for ids without `:` (`TextAssumption`; nothing is assumed of the
others), a number in a configuration source is a number and a text of the
environment a sequence of characters; nothing is assumed of a mapping but that it
is made of topics; schemas and messages have their declared fields
(`SchemaAssumption`); the registry has every peer once, a list
is at most half as long as the largest `int`, a query's offset is an `int`, and the
default page is not empty (`ListAssumption`); a
packet is made of bytes, its token has at most 15, and the numbers and lengths of
its options fit the two-byte extension, the largest there is (`CoapAssumption`).
TLC evaluates all of them in the runs.

Why the invariants are needed:

* `DdDataService`. A reply has the right id because the channel held a response
  with that id, because the callback that wrote it had found the channel under
  that id, because at that moment the entry belonged to the call that made the
  channel. `IInv` holds these links. `Deduplicated` adds that a finished call's
  lease is covered by a cache entry; its two assumptions are necessary, since a
  store with a shorter TTL, or eviction at the limit, ends a lease early.
  `StatusTold` needs, for each step of a call that is alone with its id, the
  status recorded by then (`RecordsTell`), and that a record exists only for an id
  some call has used (`RecordsUsed`), so that the first write is this call's. It
  speaks of final statuses only: a refused or cancelled call has none, which is
  what `final_status` shows.
* `Transfer`. Two arguments, both about all components at once.
  *Counting.* `Paid` says of every message that what the target did and may still
  do for it (`Spent`: executions, abandoned requests, attempts left of the
  callbacks at work on it, a direct call under way) is within `Budget`: one for
  the direct route if it was used, `Retries` for each delivery. Only a message
  that another peer serves may exceed it, by the execution of that peer, and only
  if something was executed. A step moves from one summand to another, and
  only a direct call or a delivery raises the budget. The sum over callbacks is
  the size of a set of pairs (callback, attempt) (`Slots`), so the laws of finite
  sets are enough for it. The bound on executions alone is not inductive: an
  abandoned request is executed later, and nothing else would pay for it. The
  breaker uses the same pairs: while it is open, attempts made and attempts left
  together do not grow (`Shielded`).
  *Paths.* `PathSound` says for every step of a handler what it knows about its
  current item (not sent at all, tried directly, published), `ResultSound` the
  same of every result it has collected. The theorems about routes and refusals
  read it off; `RefusedNotSent` also needs the count, because "not
  executed by the bridge" is the budget of a message that was never delivered.
  A batch is accounted for because the counter is the number of good results
  (`Counted`).
* `PeerRegistry`. `StoreConverges` speaks of peers nothing is under way about.
  `Converging` says what holds before: without a command (register or unregister)
  between its write to the store and its handler, the store agrees with the
  delivered events, or the handler is between `Get` and `Set` and holds a record
  that will make it agree. It is inductive because a command can only go away
  through its handler, which the same goroutine runs after the read-modify-write.
  `Leased` carries the lease through the copy the handler holds.
* `CoapBridge`. An accepted task is in the channel or with one worker, each once;
  a worker holds a task exactly in the steps of `handle...`; a worker that has
  left saw the channel closed and empty, and nothing is put into it afterwards.
  The last two give `StopDrains`, which needs a worker to have left: a pool of
  none would return from `Stop` at once. `BreakerHolds` counts attempts made and
  left as in `Transfer`, over workers.
* `HubDiscovery`. `NotOlder`: neither a broadcast under way nor the reader's entry
  is younger than the last broadcast. `Paced`: while the loop runs a broadcast
  under way is as old as the ticker, and the entry is no older than one interval
  per broadcast missed since plus the ticker. With the definition of `Tolerated`
  this bounds the age by the TTL.
* `StreamService`. A close may be anywhere in the log, an open is there once
  (`OpenedOnce`). So of the delivered events the open of a closed stream is before
  the close that closes it, no second open follows, and a sweep leaves a session
  that is not active alone. Going back in the log takes the close away from the
  delivered events before the open can come again, so `CloseWins`, which speaks
  of those, is kept.
* `Decisions` asks one question, so its invariants hold from what the operators
  return, and the lemmas are about those. `Authorize` and `matchMQTTTopic` are
  loops, written as recursive functions. `LoopHasValues` shows that such a
  function exists: the numbers of steps for which it does include 0 and, with k,
  k + 1, and the least number that is missing would contradict this
  (`LeastNatural`, from the well-foundedness of `<`, which speaks of sets and so
  needs no operator as a parameter). The same induction shows what the loops
  compute: `MatcherSays` for the levels from the i-th on, `JudgeSays` for the
  first k rules, `NumberRead` that `parseInt64` is the number of the text as long
  as that is an `int64`, since all its prefixes are smaller.
* `DataLoops_proofs` does the same for the loops over data.
  *Pages.* A filter is `Kept`; the three filters of `handleQuery` are one `Kept`
  with the intersection of their sets (`KeptAlike` and what follows it),
  `KeptMembers` counts what is kept, and `KeptDistinct` shows that no id is in it
  twice. `PageParts` says which slice a page is and when it fails, `PageCut` what
  a slice takes from its list, `PageShape` the rest, by arithmetic. Each query is
  taken by itself: what two of them show together depends on the orders of the
  map.
  *Packets.* The parser moves from the position of one option to the position of
  the next: a nibble and its extension are read as the number they were made of
  (the cases 13 and 269 of the encoder), an option never starts with the marker
  byte, and the position grows, which is why the parser's loop has a value. What
  is left after the last option is the marker and the payload, or nothing.
  *Schemas.* What the first k providers take, their merged schema takes, by
  induction on k. The converse is not inductive with "the lists of values agree"
  alone: two lists that have a value in common may meet in values a third does
  not have. So the hypothesis names one value `w[f]` per field that every list
  has (`Admits`), which merging keeps. Where there is no such value, an empty enum
  allows everything, as section 4 says. For the two forms of a message the lemmas
  show that normalising either gives the same header and the same fields.

Only model-checked: liveness (`EveryCallReturns`, `StopEnds`, `AcceptedEnds` and
the other properties with fairness, which the prover does not handle). The
properties of the runs that end in a violation do not hold and have no theorem.

## 6. Plan

An abstract registry (replay of the event log) that `PeerRegistry` implements at
rest.

## 7. Not modelled

* Contents of messages beyond what a decision reads, logging, counters and
  histograms, and the handlers of the API that only read.
* The gzip envelope of the codec, YAML and JSON parsing, TLS and HMAC: library
  calls on both sides.
* The internals of paho and of the broker beyond delivery, loss, repetition and
  silence; in particular the loss of subscriptions when a clean session
  reconnects, and callbacks that wait for their own client.
* The table of MQTT topics of `ProtocolResourceIndex`, which is a constant list.
* The order of start and shutdown in `cmd/main.go`: it is one sequence without a
  choice; what the components need of it is in their models.
* The data race of the stream list handler, which encodes sessions after the lock
  is released: what it may print depends on the JSON encoder.
* `OnPeerUnregistered`, `OnResourceReport` and the discovery callbacks: they have
  no caller.
