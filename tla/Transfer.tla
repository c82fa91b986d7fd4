------------------------------ MODULE Transfer ------------------------------
(***************************************************************************)
(* The transfer endpoints of dd-core (api/handler.go): a request is served *)
(* by a direct call to a target of this node or, when that fails or the    *)
(* route is not direct, by the data service over the broker, where the     *)
(* HTTP bridge of this node (HttpBridge) or another peer picks it up.  The *)
(* data service appears by what RequestReply promises: it refuses a call,  *)
(* or publishes the message and returns an answer with its id, an error or *)
(* a timeout.  main always passes one, so the nil checks are left out.     *)
(***************************************************************************)
EXTENDS HttpBridge

CONSTANTS
  Requests,    \* HTTP requests to the transfer endpoints
  Inputs,      \* what they ask for
  MaxItems,    \* bound: items of a batch
  HttpDirect,  \* cfg.Bridges.Http is enabled and has a target
  CoapDirect   \* cfg.Bridges.Coap is enabled and has a target

ASSUME TransferAssumption ==
  /\ MaxItems \in Nat /\ HttpDirect \in BOOLEAN /\ CoapDirect \in BOOLEAN
  /\ Messages = (Requests \X (1 .. MaxItems)) \cup Foreign
  /\ Foreign \cap (Requests \X (1 .. MaxItems)) = {}

(* A transfer: its resource names no topic, that of this node's bridge or  *)
(* that of another peer; meta says whether it conforms to the schema of    *)
(* the resource, class what becomes of it as a message, timed whether      *)
(* TimeoutMs is positive (the async endpoints have no such field).         *)
Item == [resource : {"", "bridge", "other"}, target : {"", "self", "other"},
         protocol : {"http", "coap", "mq"}, meta : BOOLEAN,
         class : {"invalid", "unbuildable", "plain"}, timed : BOOLEAN]

Input == [mode : {"sync", "async", "batch"}, items : Seq(Item)]

(* Only the batch endpoint takes several transfers, or none. *)
ASSUME InputsAssumption ==
  /\ Inputs \subseteq Input
  /\ \A in \in Inputs :
       /\ Len(in.items) <= MaxItems
       /\ in.mode # "batch" => Len(in.items) = 1

Routes == {"direct", "broker"}
Codes == {200, 202, 400, 403, 500, 504}

(* What a handler notes of an item. *)
Result == [ok : BOOLEAN, code : Codes, route : Routes]

VARIABLES
  input,      \* what each request asks for, or None
  apc,        \* handler: step
  idx,        \* handler: current item
  route,      \* handler: routeMode of the current item
  dexec,      \* handler: the target executed the direct call under way
  results,    \* handler: results so far
  accepted,   \* batch: items accepted
  failed,     \* batch: items failed
  answer,     \* code and status of the HTTP response, or None
  gone,       \* requests whose client hung up: r.Context() is done
  published,  \* history: messages handed to the broker client
  directly    \* history: messages tried on the direct route

handlerState == <<input, apc, idx, route, dexec, results, accepted, failed,
                  answer>>
history == <<published, directly>>
vars == <<bridgeVars, handlerState, gone, history>>

Answer == [code : Codes, status : {"", "ok", "partial", "error"}]

ASSUME NoneAssumption ==
  None \notin Kinds /\ None \notin Outcomes /\ None \notin Inputs /\ None \notin Answer

TypeOK ==
  /\ BridgeTypeOK
  /\ input \in [Requests -> Inputs \cup {None}]
  /\ apc \in [Requests -> {"new", "item", "direct", "send", "wait", "done"}]
  /\ idx \in [Requests -> 1 .. MaxItems + 1]
  /\ route \in [Requests -> Routes] /\ dexec \in [Requests -> BOOLEAN]
  /\ results \in [Requests -> Seq(Result)]
  /\ accepted \in [Requests -> Nat] /\ failed \in [Requests -> Nat]
  /\ answer \in [Requests -> Answer \cup {None}]
  /\ gone \subseteq Requests
  /\ published \subseteq Messages /\ directly \subseteq Messages

Init ==
  /\ BridgeInit
  /\ input = [c \in Requests |-> None]
  /\ apc = [c \in Requests |-> "new"]
  /\ idx = [c \in Requests |-> 1]
  /\ route = [c \in Requests |-> "broker"]
  /\ dexec = [c \in Requests |-> FALSE]
  /\ results = [c \in Requests |-> <<>>]
  /\ accepted = [c \in Requests |-> 0]
  /\ failed = [c \in Requests |-> 0]
  /\ answer = [c \in Requests |-> None]
  /\ gone = {}
  /\ published = {}
  /\ directly = {}

-----------------------------------------------------------------------------
(* Decisions. *)

it(c) == input[c].items[idx[c]]
msg(c) == <<c, idx[c]>>
Sync(c) == input[c].mode = "sync"

DecideRoute(i) ==
  IF /\ i.target = "self"
     /\ \/ i.protocol = "http" /\ HttpDirect
        \/ i.protocol = "coap" /\ CoapDirect
  THEN "direct" ELSE "broker"

(* errorToHTTPStatus, and the status of an error that is no DdError. *)
errorToHTTPStatus(code) ==
  CASE code \in {"ErrInvalidEnvelope", "ErrDuplicateRequest"} -> 400
    [] code = "ErrAclDenied" -> 403
    [] code = "ErrSyncTimeout" -> 504
    [] OTHER -> 500

(* Errors of SendSync and SendAsync before they publish. *)
Refusals(c) ==
  {"ErrAclDenied"} \cup
  IF it(c).class = "invalid" THEN {"ErrInvalidEnvelope"}
  ELSE {"encoding"} \cup
       (IF Sync(c) THEN {"ErrDuplicateRequest", "ErrInternal"} ELSE {})

-----------------------------------------------------------------------------
(* The end of an item. *)

(* A bug: a batch is judged by its failures alone. *)
BatchAnswerByFailures(acc, fail) ==
  [code |-> 202, status |-> IF fail > 0 THEN "partial" ELSE "ok"]

BatchAnswer(acc, fail) ==
  IF acc = 0 THEN [code |-> 400, status |-> "error"]
  ELSE [code |-> 202, status |-> IF fail > 0 THEN "partial" ELSE "ok"]

(* The item ends with this result: the loop of a batch goes on to the next *)
(* item or answers, any other request is answered.                         *)
EndItem(c, r) ==
  /\ results' = [results EXCEPT ![c] = Append(@, r)]
  /\ accepted' = [accepted EXCEPT ![c] = IF r.ok THEN @ + 1 ELSE @]
  /\ failed' = [failed EXCEPT ![c] = IF r.ok THEN @ ELSE @ + 1]
  /\ idx' = [idx EXCEPT ![c] = @ + 1]
  /\ route' = [route EXCEPT ![c] = "broker"]
  /\ dexec' = [dexec EXCEPT ![c] = FALSE]
  /\ IF idx[c] = Len(input[c].items)
     THEN /\ apc' = [apc EXCEPT ![c] = "done"]
          /\ answer' = [answer EXCEPT ![c] =
               IF input[c].mode = "batch"
               THEN BatchAnswer(accepted'[c], failed'[c])
               ELSE [code |-> r.code, status |-> ""]]
     ELSE apc' = [apc EXCEPT ![c] = "item"] /\ UNCHANGED answer
  /\ UNCHANGED input

Fails(c, code) == EndItem(c, [ok |-> FALSE, code |-> code, route |-> route[c]])
Succeeds(c) ==
  EndItem(c, [ok |-> TRUE, code |-> IF Sync(c) THEN 200 ELSE 202,
              route |-> route[c]])

-----------------------------------------------------------------------------
(* The handlers. *)

(* A request arrives.  An empty batch is answered at once. *)
Arrive(c, in) ==
  /\ apc[c] = "new"
  /\ input' = [input EXCEPT ![c] = in]
  /\ IF in.items = <<>>
     THEN /\ apc' = [apc EXCEPT ![c] = "done"]
          /\ answer' = [answer EXCEPT ![c] = [code |-> 400, status |-> ""]]
     ELSE apc' = [apc EXCEPT ![c] = "item"] /\ UNCHANGED answer
  /\ UNCHANGED <<bridgeVars, idx, route, dexec, results, accepted, failed,
                 gone, history>>

(* No resource, or a message that violates the schema of the resource. *)
RejectItem(c) ==
  /\ apc[c] = "item"
  /\ it(c).resource = "" \/ ~it(c).meta
  /\ Fails(c, 400)
  /\ UNCHANGED <<bridgeVars, gone, history>>

Decide(c) ==
  /\ apc[c] = "item"
  /\ it(c).resource # "" /\ it(c).meta
  /\ route' = [route EXCEPT ![c] = DecideRoute(it(c))]
  /\ IF DecideRoute(it(c)) = "direct"
     THEN /\ apc' = [apc EXCEPT ![c] = "direct"]
          /\ directly' = directly \cup {msg(c)}
     ELSE apc' = [apc EXCEPT ![c] = "send"] /\ UNCHANGED directly
  /\ UNCHANGED <<bridgeVars, input, idx, dexec, results, accepted, failed,
                 answer, gone, published>>

(* The target of the direct call, HTTP or CoAP, executes it. *)
DirectExecutes(c) ==
  /\ apc[c] = "direct"
  /\ it(c).class # "unbuildable"
  /\ ~dexec[c]
  /\ dexec' = [dexec EXCEPT ![c] = TRUE]
  /\ executed' = [executed EXCEPT ![msg(c)] = @ + 1]
  /\ UNCHANGED <<sent, deliveries, handlerVars, breakerVars, replies, dead,
                 abandoned, now, input, apc, idx, route, results, accepted,
                 failed, answer, gone, history>>

(* The direct call returns; any HTTP status will do. *)
DirectSucceeds(c) ==
  /\ apc[c] = "direct"
  /\ dexec[c]
  /\ Succeeds(c)
  /\ UNCHANGED <<bridgeVars, gone, history>>

(* A bug: the handler tries the direct route again. *)
DirectFailsAndRetries(c) ==
  /\ apc[c] = "direct"
  /\ apc' = [apc EXCEPT ![c] = "item"]
  /\ Abandon(msg(c), dexec[c] \/ it(c).class = "unbuildable")
  /\ abandoned[msg(c)] < 2
  /\ dexec' = [dexec EXCEPT ![c] = FALSE]
  /\ UNCHANGED <<sent, deliveries, handlerVars, breakerVars, replies, dead,
                 executed, now, input, idx, route, results, accepted, failed,
                 answer, gone, history>>

(* A bug: the fallback is reported as the direct route. *)
DirectFailsUnnoticed(c) ==
  /\ apc[c] = "direct"
  /\ apc' = [apc EXCEPT ![c] = "send"]
  /\ Abandon(msg(c), dexec[c] \/ it(c).class = "unbuildable")
  /\ UNCHANGED <<sent, deliveries, handlerVars, breakerVars, replies, dead,
                 executed, now, input, idx, route, dexec, results, accepted,
                 failed, answer, gone, history>>

(* The direct call fails, executed or not, and the handler falls back. *)
DirectFails(c) ==
  /\ apc[c] = "direct"
  /\ apc' = [apc EXCEPT ![c] = "send"]
  /\ route' = [route EXCEPT ![c] = "broker"]
  /\ Abandon(msg(c), dexec[c] \/ it(c).class = "unbuildable")
  /\ UNCHANGED <<sent, deliveries, handlerVars, breakerVars, replies, dead,
                 executed, now, input, idx, dexec, results, accepted, failed,
                 answer, gone, history>>

(* A bug: the message is validated after it was published. *)
SendRefusedLate(c) ==
  /\ apc[c] = "send"
  /\ \E e \in Refusals(c) : Fails(c, errorToHTTPStatus(e))
  /\ published' = published \cup {msg(c)}
  /\ UNCHANGED <<bridgeVars, gone, directly>>

(* SendSync or SendAsync refuses the message. *)
SendRefused(c) ==
  /\ apc[c] = "send"
  /\ \E e \in Refusals(c) : Fails(c, errorToHTTPStatus(e))
  /\ UNCHANGED <<bridgeVars, gone, history>>

(* The message is with the broker client; the bridge gets what is sent to  *)
(* its topics.                                                             *)
Publish(c) ==
  /\ published' = published \cup {msg(c)}
  /\ sent' = IF it(c).resource = "bridge"
             THEN [sent EXCEPT ![msg(c)] =
                     [sync |-> Sync(c), class |-> it(c).class]]
             ELSE sent
  /\ UNCHANGED <<deliveries, handlerVars, breakerVars, replies, dead,
                 targetVars, now, gone, directly>>

(* SendSync has published and waits; SendAsync is done. *)
SendPublishes(c) ==
  /\ apc[c] = "send"
  /\ it(c).class # "invalid"
  /\ Publish(c)
  /\ IF Sync(c)
     THEN /\ apc' = [apc EXCEPT ![c] = "wait"]
          /\ UNCHANGED <<input, idx, route, dexec, results, accepted, failed,
                         answer>>
     ELSE Succeeds(c)

(* Publish returns an error, although the broker may have the message. *)
PublishFails(c) ==
  /\ apc[c] = "send"
  /\ it(c).class # "invalid"
  /\ Fails(c, errorToHTTPStatus("publish"))
  /\ Publish(c) \/ UNCHANGED <<bridgeVars, gone, history>>

Response(c) ==
  /\ apc[c] = "wait"
  /\ \E r \in replies : r.msg = msg(c)
  /\ Succeeds(c)
  /\ UNCHANGED <<bridgeVars, gone, history>>

(* A bug: a call without an answer is never given up. *)
WaitTimeoutNever(c) == FALSE

WaitTimeout(c) ==
  /\ apc[c] = "wait"
  /\ Fails(c, errorToHTTPStatus("ErrSyncTimeout"))
  /\ UNCHANGED <<bridgeVars, gone, history>>

WaitCancelled(c) ==
  /\ apc[c] = "wait"
  /\ c \in gone
  /\ Fails(c, errorToHTTPStatus("context"))
  /\ UNCHANGED <<bridgeVars, gone, history>>

-----------------------------------------------------------------------------
(* The environment: clients and other peers. *)

HangUp(c) ==
  /\ apc[c] \notin {"new", "done"}
  /\ c \notin gone
  /\ gone' = gone \cup {c}
  /\ UNCHANGED <<bridgeVars, handlerState, history>>

(* Another peer serves a message of its topic. *)
PeerServes(c) ==
  /\ apc[c] = "wait"
  /\ it(c).resource = "other"
  /\ executed[msg(c)] = 0
  /\ executed' = [executed EXCEPT ![msg(c)] = @ + 1]
  /\ replies' = replies \cup {[msg |-> msg(c), outcome |-> "ok"]}
  /\ UNCHANGED <<sent, deliveries, handlerVars, breakerVars, dead, abandoned,
                 now, handlerState, gone, history>>

-----------------------------------------------------------------------------

(* The steps of a handler that do not depend on the target. *)
Handler(c) ==
  \/ RejectItem(c) \/ Decide(c) \/ SendRefused(c) \/ SendPublishes(c)
  \/ PublishFails(c) \/ Response(c) \/ WaitTimeout(c) \/ WaitCancelled(c)

Next ==
  \/ BridgeNext /\ UNCHANGED <<handlerState, gone, history>>
  \/ \E c \in Requests :
       \/ \E in \in Inputs : Arrive(c, in)
       \/ DirectExecutes(c) \/ DirectSucceeds(c) \/ DirectFails(c)
       \/ Handler(c)
       \/ HangUp(c)
       \/ PeerServes(c)

Spec == Init /\ [][Next]_vars

(* The direct call ends by itself: CoAP always has a deadline, HTTP only   *)
(* the client's timeout_ms or the end of the client's connection.          *)
Bounded(c) ==
  \/ it(c).protocol = "coap" \/ it(c).timed
  \/ it(c).class = "unbuildable" \/ c \in gone

(* Goroutines run, deadlines fire, the broker client answers a publish;    *)
(* the target, the other peers and the clients do as they please.          *)
FairSpec ==
  /\ Spec
  /\ \A c \in Requests :
       /\ WF_vars(Handler(c))
       /\ WF_vars(apc[c] = "direct" /\ Bounded(c) /\ DirectFails(c))
  /\ \A h \in Callbacks :
       WF_vars(Handle(h) /\ UNCHANGED <<handlerState, gone, history>>)

-----------------------------------------------------------------------------
(* Properties. *)

Done(c, i) == i \in DOMAIN results[c]

(* The target executes a transfer at most once over the direct route and   *)
(* at most Retries times for each delivery by the broker, whatever times   *)
(* out, fails after the fact, is redelivered or executed late.             *)
ExecutionsBounded ==
  \A m \in Messages :
    executed[m] + abandoned[m] <=
      (IF m \in directly THEN 1 ELSE 0) + deliveries[m] * Retries
      + (IF m \in published /\ sent[m] = None THEN 1 ELSE 0)

(* The reported route is the one that served the transfer: what is         *)
(* reported as direct was executed and never given to the broker, what is  *)
(* reported as sent over the broker was given to it.                       *)
RouteTellsPath ==
  \A c \in Requests : \A i \in DOMAIN results[c] :
    LET r == results[c][i] IN
      /\ r.route = "direct" /\ r.ok =>
           executed[<<c, i>>] > 0 /\ <<c, i>> \notin published
      /\ r.route = "broker" /\ r.ok => <<c, i>> \in published

(* A transfer refused with 400 or 403 never reached the broker, and        *)
(* reached the target at most by a direct call that failed before.         *)
RefusedNotSent ==
  \A c \in Requests : \A i \in DOMAIN results[c] :
    results[c][i].code \in {400, 403} =>
      /\ <<c, i>> \notin published
      /\ executed[<<c, i>>] + abandoned[<<c, i>>] <=
           (IF <<c, i>> \in directly THEN 1 ELSE 0)

(* The answer of a batch accounts for every item: the counters agree with  *)
(* the results, there is one result per item in order, and the status      *)
(* tells whether all, some or none of the items went out.                  *)
BatchAccounts ==
  \A c \in Requests :
    input[c] # None /\ input[c].mode = "batch" /\ answer[c] # None =>
      LET oks == {i \in DOMAIN results[c] : results[c][i].ok}
          out == {i \in DOMAIN results[c] :
                    <<c, i>> \in published \cup directly}
      IN /\ Len(results[c]) = Len(input[c].items)
         /\ accepted[c] = Cardinality(oks)
         /\ accepted[c] + failed[c] = Len(input[c].items)
         /\ oks \subseteq out
         /\ answer[c].code = 202 <=> oks # {}
         /\ answer[c].status = "ok" <=>
              oks = 1 .. Len(input[c].items) /\ oks # {}

(* Every request is answered, unless its handler is in a direct HTTP call  *)
(* that nothing bounds; and every message the broker hands to the bridge   *)
(* is dealt with, whatever the target does.                                *)
EveryTransferEnds ==
  /\ \A c \in Requests :
       apc[c] = "item" ~>
         apc[c] = "done" \/ (apc[c] = "direct" /\ ~Bounded(c))
  /\ \A h \in Callbacks : hpc[h] = "handle" ~> hpc[h] = "idle"

=============================================================================
