----------------------------- MODULE Decisions -----------------------------
(***************************************************************************)
(* The decisions of dd-core that depend on their inputs alone, each asked  *)
(* with every input of a set and compared with what it is for.             *)
(***************************************************************************)
EXTENDS MqClient, MetaSchema, PeerList, AuthPeer, CoapPacket, Config

CONSTANTS
  Topic, Filter,          \* topics, and topic filters with "#" only at the end
  RuleSets, ListRules,    \* sequences of ACL rules
  Caller,                 \* peers that ask
  Mapping,                \* mappings of the MQTT bridge
  Provider,               \* sequences of peers: [capable, schema]
  Message,                \* messages with meta parts
  PeerOrder,              \* what a query may find in the registry, in the order of
                          \* its map: sequences of peers [id, role, status]
  ListRequest,            \* peer list queries
  SecretMaps, AuthRequest,
  PlainId,                \* ids of peers without ":"
  CoapRequest,            \* [method, path, payload, id]
  CoapReply,              \* [token, options, payload]
  Layers(_)               \* field -> [file, env, json, cli] for it

CONSTANT Nothing

(* Topics and the exact filters have no wildcard in them, the third level  *)
(* "ta" is the aliases' own, and no topic that is not dd-core's has a      *)
(* level "transfer" inside.                                                *)
ExactTopic(t) ==
  /\ t \in Seq(STRING)
  /\ ~Wildcard(t)
  /\ Len(t) >= 3 => t[3] # "ta"
  /\ IsTransfer(t) => t[1] = "dd"

(* No subscriber asks for the aliases, by name or with a "+" in their      *)
(* place.                                                                  *)
WildFilter(f) ==
  /\ f \in Seq(STRING)
  /\ Wildcard(f)
  /\ Len(f) >= 3 => f[3] \notin {"+", "ta"}

ASSUME TopicAssumption ==
  /\ \A t \in Topic : ExactTopic(t)
  /\ \A f \in Filter : ExactTopic(f) \/ WildFilter(f)

(* The aliases are digits, and different for different topics. *)
ASSUME HashAssumption ==
  /\ \A t \in Topic \cup Filter : Hash(t) \in STRING /\ Hash(t) \notin {"+", "#"}
  /\ \A t, u \in Topic \cup Filter : Hash(t) = Hash(u) => t = u

ASSUME MappingAssumption ==
  \A m \in Mapping : m.source \in Seq(STRING) /\ m.target \in Seq(STRING)

(* An id without ":" can be read off the text it begins. *)
ASSUME TextAssumption ==
  LET Secrets == UNION {{s[k] : k \in DOMAIN s} : s \in SecretMaps}
  IN \A p, q \in PlainId, x, y \in Secrets : Text(p, x) = Text(q, y) => p = q /\ x = y

(* A rule is for a topic filter with its "#" at the end, if it has one. *)
ASSUME RulesAssumption ==
  \A rules \in RuleSets :
    /\ rules \in Seq({rules[i] : i \in DOMAIN rules})
    /\ \A i \in DOMAIN rules :
         /\ rules[i].allow \in BOOLEAN /\ rules[i].pattern \in Seq(STRING)
         /\ \A j \in 1 .. Len(rules[i].pattern) - 1 : rules[i].pattern[j] # "#"

(* A number is an int64 where it is written as one, and a text in the      *)
(* environment.                                                            *)
ASSUME LayersAssumption ==
  /\ MaxInt64 \in Nat
  /\ \A f \in Ints : \A l \in Layers(f) :
       /\ l.file \in Int \cup {Absent, Broken}
       /\ l.env = Absent \/ l.env \in Seq(Nat)
       /\ l.json \in Int \cup {Absent, Broken}
       /\ l.json \in Int => l.json <= MaxInt64

(* Schemas and messages have the fields they are declared with. *)
IsSchema(s) ==
  /\ s \in [required : SUBSET STRING, protocolRequired : SUBSET STRING,
            constraints : {s.constraints}]
  /\ DOMAIN s.constraints \subseteq STRING
  /\ s.constraints \in [DOMAIN s.constraints -> Constraint]

IsMessage(m) ==
  m \in [mode : STRING, protocol : STRING, resource : STRING,
         headers : {m.headers}, protocolMeta : {m.protocolMeta},
         header : Header, meta : Header]

ASSUME SchemaAssumption ==
  /\ \A ps \in Provider :
       /\ ps \in Seq({ps[i] : i \in DOMAIN ps})
       /\ \A i \in DOMAIN ps :
            /\ ps[i].capable \in BOOLEAN
            /\ ps[i].schema # NoSchema => IsSchema(ps[i].schema)
  /\ \A m \in Message : IsMessage(m)

(* The limits of a page are ints, and the default page is not empty; the   *)
(* registry has every peer once, and twice its size is an int.             *)
ASSUME ListAssumption ==
  /\ MaxInt \in Nat /\ MaxPageSize \in Int /\ MaxPageSize <= MaxInt
  /\ DefaultPageSize \in 1 .. MaxInt
  /\ \A p \in PeerOrder :
       /\ p \in Seq(PeersOf(p)) /\ 2 * Len(p) <= MaxInt
       /\ \A i, j \in DOMAIN p : p[i].id = p[j].id => i = j
  /\ \A q \in ListRequest :
       /\ q \in [caller : STRING, role : STRING, status : STRING, size : Int, offset : Int]
       /\ q.offset <= MaxInt

(* A packet is made of bytes; the length of a token fits its nibble, and   *)
(* the lengths and numbers of options fit the largest extension.           *)
LargestExtended == 269 + 65535

ASSUME CoapAssumption ==
  /\ \A q \in CoapRequest :
       /\ q.path \in Seq(Byte) /\ Len(q.path) <= LargestExtended
       /\ q.payload \in Seq(Byte) /\ q.id \in Nat
  /\ \A q \in CoapReply :
       /\ q.token \in Seq(Byte) /\ Len(q.token) <= 15 /\ q.payload \in Seq(Byte)
       /\ q.options \in Seq([delta : 0 .. LargestExtended, value : Seq(Byte)])
       /\ \A i \in DOMAIN q.options : Len(q.options[i].value) <= LargestExtended

VARIABLES query, answer   \* the question asked last, and what the code says

vars == <<query, answer>>

Init == query = Nothing /\ answer = Nothing

Idle == query = Nothing

Ask(kind, in, out) ==
  /\ query' = [kind |-> kind, in |-> in]
  /\ answer' = out

AskAcl ==
  /\ Idle
  /\ \E r \in RuleSets, p \in Caller, a \in {"pub", "sub"}, t \in Topic :
       Ask("acl", [rules |-> r, peer |-> p, action |-> a, topic |-> t],
           Authorize(r, p, a, t))

AskPublish ==
  /\ Idle
  /\ \E on \in BOOLEAN, t \in Topic, f \in Filter \cup Topic :
       Ask("publish", [alias |-> on, topic |-> t, filter |-> f], Publish(on, t, f))

(* The broker hands the bridge the topics its source matches. *)
AskForward ==
  /\ Idle
  /\ \E m \in Mapping, t \in Topic :
       /\ BrokerMatches(m.source, t)
       /\ Ask("forward", [mapping |-> m, topic |-> t], forward(m, t))

(* What a transfer must pass: Validate and the schema of its resource. *)
Accepted(providers, m) ==
  Validate(m) /\ validateRequestMeta(GetResourceMetaSchema(providers), Normalize(m))

AskSchema ==
  /\ Idle
  /\ \E p \in Provider, m \in Message :
       Ask("schema", [providers |-> p, message |-> m], Accepted(p, m))

AskPeers ==
  /\ Idle
  /\ \E r \in ListRules, p \in PeerOrder, q \in ListRequest :
       Ask("peers", [rules |-> r, peers |-> p, request |-> q], handleQuery(r, p, q))

AskAuth ==
  /\ Idle
  /\ \E s \in SecretMaps, q \in AuthRequest :
       Ask("auth", [secrets |-> s, request |-> q], handleVerifyReq(s, q))

(* A request as the server takes it apart, which the parser does too. *)
AskCoapRequest ==
  /\ Idle
  /\ \E q \in CoapRequest :
       Ask("coap", q, parseCoapPayload(buildCoapRequest(q.method, q.path, q.payload, q.id)))

AskCoapReply ==
  /\ Idle
  /\ \E q \in CoapReply :
       Ask("coap", q, parseCoapPayload(Packet(q.token, q.options, q.payload)))

AskConfig ==
  /\ Idle
  /\ \E f \in Fields : \E in \in Layers(f) :
       Ask("config", [field |-> f, layers |-> in], LoadWithArgs(f, in))

Next ==
  \/ AskAcl
  \/ AskPublish
  \/ AskForward
  \/ AskSchema
  \/ AskPeers
  \/ AskAuth
  \/ AskCoapRequest
  \/ AskCoapReply
  \/ AskConfig

Spec == Init /\ [][Next]_vars

Asked(kind) == query # Nothing /\ query.kind = kind

-----------------------------------------------------------------------------
(* Properties. *)

(* The rules of a question about access that are about peer p. *)
RulesFor(in, p) ==
  {r \in {in.rules[i] : i \in DOMAIN in.rules} :
     r.peer = p /\ r.action = in.action /\ BrokerMatches(r.pattern, in.topic)}

(* Authorize and matchMQTTTopic: where no rule is for the peer "*", access *)
(* is given by a rule that allows it and that no rule contradicts, in      *)
(* whatever order they are written, with patterns read as the broker reads *)
(* them.                                                                   *)
DenyOverrides ==
  Asked("acl") =>
    LET in == query.in
        applying == RulesFor(in, in.peer)
    IN RulesFor(in, "*") = {} => answer = (applying # {} /\ \A r \in applying : r.allow)

(* The topics TopicSet has for transfers. *)
TransferTopic(t) ==
  /\ Len(t) = 5 /\ t[1] = "dd" /\ t[3] = "transfer"
  /\ t[4] = "response" \/ t[5] \in {"request", "response"}

(* aliasTopic and qosForTopic: aliases bring no subscriber a message it    *)
(* would not get without them, and they take none from an exact subscriber *)
(* and none that is no transfer.  A transfer is sent with QoS 1 unless its *)
(* tenant is called "event", or its resource is and aliases are off.       *)
PublishReaches ==
  Asked("publish") =>
    LET in == query.in
        wanted == BrokerMatches(in.filter, in.topic)
        hidden == in.alias /\ IsTransfer(in.topic) /\ Wildcard(in.filter)
        ofEvent == "event" \in {in.topic[i] : i \in 2 .. Len(in.topic) - 1}
    IN /\ answer.delivered => wanted
       /\ ~hidden /\ wanted => answer.delivered
       /\ TransferTopic(in.topic) /\ (~ofEvent \/ (in.alias /\ in.topic[2] # "event"))
            => answer.qos = 1

(* The MQTT bridge: if the only wildcard of the source is its end, stands  *)
(* for something, and the target ends in "#" or the same wildcard, or if   *)
(* neither has one, a message goes to a topic of the target, with the      *)
(* levels the wildcard stood for.                                          *)
ForwardLands ==
  Asked("forward") =>
    LET m == query.in.mapping
        t == query.in.topic
        wild == EndsWild(m.source)
        ends == EndsWild(m.target) /\ m.target[Len(m.target)] \in {"#", m.source[Len(m.source)]}
        good == /\ ~Wildcard(Dir(m.source))
                /\ wild => Len(t) >= Len(m.source) /\ ends
                /\ ~wild => ~Wildcard(m.target)
    IN good => /\ BrokerMatches(m.target, answer)
               /\ wild => /\ Len(answer) - Len(m.target) = Len(t) - Len(m.source)
                          /\ answer[Len(answer)] = t[Len(t)]

(* Message m with its fields and header in the other of the two forms, if  *)
(* it has them in one only.                                                *)
OtherForm(m) ==
  LET old == m.protocolMeta = NoMap /\ m.headers # NoMap
      new == m.headers = NoMap /\ DOMAIN m.protocolMeta = {m.protocol}
  IN [m EXCEPT
        !.protocolMeta = IF old THEN [p \in {m.protocol} |-> m.headers]
                         ELSE IF new THEN NoMap ELSE @,
        !.headers = IF new THEN m.protocolMeta[m.protocol]
                    ELSE IF old THEN NoMap ELSE @,
        !.header = IF @ = ZeroHeader \/ m.meta = ZeroHeader THEN m.meta ELSE @,
        !.meta = IF @ = ZeroHeader \/ m.header = ZeroHeader THEN m.header ELSE @]

(* GetResourceMetaSchema and Normalize: the merged schema refuses no       *)
(* message that every provider takes, and takes no message that some       *)
(* provider refuses, unless two providers have no value of an enum in      *)
(* common: the empty enum that is left of it allows everything.  It makes  *)
(* no difference in which form the message was sent.                       *)
SchemaIsConjunction ==
  Asked("schema") =>
    LET m == query.in.message
        ps == {query.in.providers[i] : i \in DOMAIN query.in.providers}
        all == \A p \in ps : Accepted(<<p>>, m)
        schemas == {p.schema : p \in {q \in ps : Describes(q)}}
        enums(f) == {s.constraints[f].enum :
                       s \in {x \in schemas : f \in DOMAIN x.constraints}} \ {{}}
        agree == \A f \in UNION {DOMAIN s.constraints : s \in schemas} :
                   enums(f) = {} \/ \E v \in UNION enums(f) : \A e \in enums(f) : v \in e
    IN /\ all /\ Validate(m) => answer
       /\ answer /\ agree => all
       /\ answer = Accepted(query.in.providers, OtherForm(m))

(* The peers a query is about, whatever the page. *)
WantedPeers(in) ==
  LET q == in.request
      seen(p) == \/ q.caller = ""
                 \/ \E a \in {"pub", "sub"} :
                      Authorize(in.rules, q.caller, a, TransferRequest(p.id))
  IN {p \in PeersOf(in.peers) :
        seen(p) /\ q.role \in {"", p.role} /\ q.status \in {"", p.status}}

(* PeerListService: the total is the number of peers the caller may see    *)
(* and asked for; a page holds such peers only, none twice, as many as fit *)
(* and are left behind its offset, and hasMore tells whether there are     *)
(* others after it; a query only fails if offset and page size together    *)
(* are no int any more.                                                    *)
PageFits ==
  Asked("peers") =>
    LET in == query.in
        list == in.peers
        size == PageSize(in.request)
        page == answer.peers
        total == Cardinality({i \in DOMAIN list : list[i] \in WantedPeers(in)})
    IN /\ answer.total = total
       /\ answer.panics <=> in.request.offset > MaxInt - size
       /\ ~answer.panics =>
            /\ PeersOf(page) \subseteq WantedPeers(in)
            /\ \A i, j \in DOMAIN page : page[i].id = page[j].id => i = j
            /\ Len(page) <= size /\ (Len(page) > 0 => answer.offset + Len(page) <= total)
            /\ Len(page) = size \/ answer.offset + Len(page) >= total
            /\ answer.hasMore <=> answer.offset + Len(page) < total

(* AuthPeerService: a granted token is taken for the peer it was given to, *)
(* and under another key or for another peer - of those with no ":" in     *)
(* their ids - only if that key has the same secret and the peer is the    *)
(* same; a request is refused only where its secret is wrong.              *)
GrantVerifies ==
  Asked("auth") =>
    LET s == query.in.secrets
        q == query.in.request
    IN /\ answer.granted => VerifyToken(s, answer.token, q.peer, q.key)
       /\ \A p \in PlainId, k \in DOMAIN s :
            answer.granted /\ q.peer \in PlainId /\ VerifyToken(s, answer.token, p, k)
              => p = q.peer /\ s[k] = q.secret
       /\ ~answer.granted => q.key \notin DOMAIN s \/ s[q.key] # q.secret

(* The CoAP packets: the payload comes out as it went in, whatever the     *)
(* path, token and options are, at the lengths where their encoding        *)
(* changes.                                                                *)
PayloadSurvives == Asked("coap") => answer = query.in.payload

(* The number a text of digits stands for, however large. *)
Number(s) ==
  LET upTo[i \in 0 .. Len(s)] == IF i = 0 THEN 0 ELSE upTo[i - 1] * 10 + s[i]
  IN upTo[Len(s)]

IsNumber(s) == s # <<>> /\ \A i \in DOMAIN s : s[i] \in 0 .. 9

(* The four sources of a field, from the strongest on: flags, the inline   *)
(* JSON that comes with a flag, environment, file.  Whether they have a    *)
(* value for it, and which.                                                *)
Mentions(f, l, i) ==
  CASE i = 1 -> f \in CliFields /\ l.cli # Absent
    [] i = 2 -> l.json # Absent
    [] i = 3 -> f \in EnvFields /\ l.env # Absent /\ (f \in Ints => IsNumber(l.env))
    [] i = 4 -> l.file \notin {Absent, Broken}

ValueIn(f, l, i) ==
  CASE i = 1 -> l.cli
    [] i = 2 -> l.json
    [] i = 3 -> IF f \in Ints THEN Number(l.env) ELSE FromEnv(f, l.env)
    [] i = 4 -> l.file

Strongest(f, l, i) == Mentions(f, l, i) /\ \A j \in 1 .. i - 1 : ~Mentions(f, l, j)

(* A value that a source can set: not empty, TRUE, or a positive number    *)
(* that fits; and one of the inline JSON not of the auth peer.             *)
CanSet(f, l, i) ==
  \/ i = 4
  \/ /\ i = 2 => f \notin AuthStrings
     /\ i = 3 /\ f \in Ints => Number(l.env) <= MaxInt64
     /\ Counts(f, ValueIn(f, l, i))

(* LoadWithArgs: a field has the value of the strongest source that has    *)
(* one, if that is a value the source can set, and its default if none     *)
(* has; and the numbers a ticker or a page needs are positive, whatever    *)
(* the sources say.                                                        *)
StrongestSource ==
  Asked("config") =>
    LET f == query.in.field
        l == query.in.layers
    IN IF l.json = Broken THEN answer = Broken
       ELSE /\ \A i \in 1 .. 4 :
                 Strongest(f, l, i) /\ CanSet(f, l, i) => answer = ValueIn(f, l, i)
            /\ (\A i \in 1 .. 4 : ~Mentions(f, l, i)) => answer = defaultConfig(f)
            /\ f \in {"broadcast.interval_sec", "broadcast.ttl_sec",
                      "discovery.max_page_size"} => Effective(f, answer) > 0
=============================================================================
