---------------------------- MODULE MCDecisions ----------------------------
(* Decisions over small sets of inputs around the edges of each decision. *)
EXTENDS Decisions, TLC

MCHash(t) == ToString(t)
MCGlue(a, b) == a \o b
MCText(peer, secret) == peer \o ":" \o secret

MCTopic ==
  {TransferRequest(r) : r \in {"p", "event", "response"}}
    \cup {TransferResponseByRequest("q"), EventPublish("p"),
          EventPublish("transfer"), PeerTopic("heartbeat"), PeerResourceReport,
          <<"a">>, <<"a", "b">>, <<"a", "b", "c">>}
MCFilter ==
  {TransferRequest("+"), TransferResponseStream, TransferResponseByRequestStream,
   EventPublish("+"),
   <<"#">>, <<"dd", "#">>, <<"dd", Tenant, "#">>, <<"+", "+", "#">>, <<"a", "+">>,
   <<"a", "#">>, <<"+", "b">>, <<"+">>}

MCCaller == {"p", "q"}
MCRule == [peer : {"p", "q", "*"}, action : {"pub"}, allow : BOOLEAN,
           pattern : {<<"a", "#">>, <<"a", "+">>, <<"+", "b">>, TransferRequest("+")}]
MCRuleSets == UNION {[1 .. n -> MCRule] : n \in 0 .. 2}

MCMapping ==
  [source : {<<"a", "#">>, <<"a", "b">>, <<"a", "+", "c">>, <<"+", "#">>, <<"+">>, <<"#">>},
   target : {<<"x", "#">>, <<"x", "y">>, <<"+">>}]
  \cup [source : {<<"a">>, <<"a", "b">>}, target : {<<"x", "y">>}]

Bounds(lo, hi) == [f \in {"timeout_ms"} |-> [min |-> lo, max |-> hi, enum |-> {}]]
Enum(e) == [f \in {"method"} |-> [min |-> NoSchema, max |-> NoSchema, enum |-> e]]
Schema(req, proto, cs) ==
  [required |-> req, protocolRequired |-> proto, constraints |-> cs]
MCSchema ==
  {NoSchema, Schema({"trace_id"}, {}, NoMap), Schema({}, {"method"}, Bounds(1, 3)),
   Schema({"timeout_ms"}, {}, Bounds(2, NoSchema)), Schema({}, {}, Bounds(NoSchema, 2))}
  \cup {Schema({}, {}, Enum(e)) : e \in {{}, {"GET"}, {"GET", "PUT"}, {"PUT"}}}
MCPeer == [capable : {TRUE}, schema : MCSchema]
            \cup {[capable |-> FALSE, schema |-> Schema({"tenant"}, {}, NoMap)]}
MCProvider == UNION {[1 .. n -> MCPeer] : n \in 0 .. 3}

MCFields == {NoMap} \cup [{"method"} -> {"GET", "PUT"}] \cup [{"topic"} -> {"t"}]
MCMeta == {NoMap} \cup [{"http"} -> MCFields]
MCHeader ==
  [fields : {{"request_id"}, {"request_id", "trace_id"}}, timeout : {0, 2, 4}]
MCForm ==
  [headers : MCFields, protocolMeta : MCMeta, header : {ZeroHeader}, meta : MCHeader]
  \cup [headers : {NoMap}, protocolMeta : MCMeta, header : MCHeader, meta : {ZeroHeader}]
MCMessage ==
  {[mode |-> "sync", protocol |-> "http", resource |-> "r", headers |-> x.headers,
    protocolMeta |-> x.protocolMeta, header |-> x.header, meta |-> x.meta] : x \in MCForm}

MCAnyPeer == [id : {"p", "q", "r"}, role : {"edge", "hub"}, status : {"active"}]
MCOrder ==
  {s \in UNION {[1 .. n -> MCAnyPeer] : n \in 0 .. 3} :
     \A i, j \in DOMAIN s : i # j => s[i].id # s[j].id}
MCListRequest ==
  [caller : {"", "p"}, role : {"", "hub"}, status : {"", "stale"},
   size : {0, 1, 2, 4}, offset : {-1, 0, 2, 6, 7}]
MCListRules == {<<>>, <<[peer |-> "p", action |-> "pub", allow |-> TRUE,
                         pattern |-> TransferRequest("+")],
                        [peer |-> "p", action |-> "pub", allow |-> FALSE,
                         pattern |-> TransferRequest("q")]>>}

MCPlainId == {"p", "q"}
MCSecretMaps == UNION {[K -> {"s1", "s2", "s2:s1"}] : K \in SUBSET {"k1", "k2"}}
MCAuthRequest == [peer : {"p", "q", "p:s2"}, key : {"k1", "k2"},
                  secret : {"s1", "s2", "s2:s1", "k1"}]

Bytes(n, b) == [i \in 1 .. n |-> b]
EdgeLengths == {0, 1, 12, 13, 14, 268, 269, 270, 525}
MCPayload == {<<>>, <<255>>, <<0, 255, 13>>}
MCCoapRequest ==
  [method : {"GET", "PUT", ""}, path : {Bytes(n, b) : n \in EdgeLengths, b \in {47, 255}},
   payload : MCPayload, id : {65535}]
MCOption == [delta : {0, 12, 13, 269, 300}, value : {Bytes(n, 255) : n \in {0, 12, 13, 269}}]
MCCoapReply ==
  [token : {<<>>, <<255, 255>>}, payload : MCPayload,
   options : UNION {[1 .. n -> MCOption] : n \in 0 .. 2}]

MCValues(f, name) ==
  CASE f \in Ints -> {0, -1, 1, 2} [] f \in Bools -> BOOLEAN [] OTHER -> {"", name}
MCTexts(f) ==
  CASE f \in Ints -> {<<3>>, <<0>>, <<0, 3>>, <<11>>, <<4, 11>>, <<3, 2, 7, 6, 7>>,
                      <<3, 2, 7, 6, 8>>, <<6, 5, 5, 3, 9>>}
    [] f \in Bools -> {"true", "false"}
    [] OTHER -> {"env"}
MCLayers(f) ==
  [file : MCValues(f, "file") \cup {Absent, Broken}, env : MCTexts(f) \cup {Absent},
   json : MCValues(f, "json") \cup {Absent, Broken}, cli : {Absent, "cli"}]
=============================================================================
