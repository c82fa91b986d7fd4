----------------------------- MODULE MetaSchema -----------------------------
(***************************************************************************)
(* Messages and the schemas of resources: the normal form of a message     *)
(* (model/dd_message.go), the schema that the providers of a resource have *)
(* in common (service/peer_registry_service.go, GetResourceMetaSchema) and *)
(* the check of a message against it (api/handler.go).                     *)
(*                                                                         *)
(* A header is the set of its fields that are not empty and its timeout; a *)
(* map of strings is a function, with no value for absent keys.            *)
(***************************************************************************)
EXTENDS Integers, Sequences

CONSTANT NoSchema   \* no schema, no bound

Header == [fields : SUBSET STRING, timeout : Int]
ZeroHeader == [fields |-> {}, timeout |-> 0]
NoMap == [k \in {} |-> ""]
Get(map, k) == IF k \in DOMAIN map THEN map[k] ELSE ""

(* Normalize: the old and the new form of header and fields stand in for   *)
(* each other.                                                             *)
Normalize(m) ==
  LET pm == IF m.protocolMeta = NoMap /\ m.headers # NoMap
            THEN [p \in {m.protocol} |-> m.headers] ELSE m.protocolMeta
  IN [m EXCEPT
        !.meta = IF @ = ZeroHeader THEN m.header ELSE @,
        !.header = IF @ = ZeroHeader THEN m.meta ELSE @,
        !.protocolMeta = pm,
        !.headers = IF @ = NoMap /\ m.protocol \in DOMAIN pm
                    THEN pm[m.protocol] ELSE @]

ProtocolFields(m) ==
  LET n == Normalize(m) IN
  IF n.protocol \in DOMAIN n.protocolMeta THEN n.protocolMeta[n.protocol] ELSE n.headers

(* validateProtocolMeta; any field with a "-" is a header for http. *)
Allowed(protocol) ==
  CASE protocol = "http" -> {"method", "path", "query", "content-type", "content_type"}
    [] protocol = "coap" -> {"method", "path", "content_format", "token", "observe"}
    [] protocol = "mq" -> {"topic", "qos", "retain", "partition_key"}
    [] protocol = "stream" -> {"stream_id", "profile", "subproto", "chunk_seq"}
    [] OTHER -> {}

Dashed == {"x-trace"}

ValidFields(m) ==
  DOMAIN ProtocolFields(m) \subseteq
    Allowed(m.protocol) \cup (IF m.protocol = "http" THEN Dashed ELSE {})

Validate(m) ==
  LET n == Normalize(m) IN
  /\ n.mode \in {"sync", "async"}
  /\ n.protocol \in {"http", "mq", "socket", "stream", "coap"}
  /\ n.resource # ""
  /\ ValidFields(m)
  /\ n.mode = "sync" => "request_id" \in n.header.fields /\ n.header.timeout > 0

-----------------------------------------------------------------------------
(* Schemas: [required, protocolRequired, constraints], where a constraint  *)
(* of a field is [min, max, enum] and an empty enum allows everything.     *)
(* Optional fields are listed but never checked, and left out here.        *)

Bound == Int \cup {NoSchema}
Constraint == [min : Bound, max : Bound, enum : SUBSET STRING]

(* A bug: the wider lower bound is kept. *)
mergeConstraintWider(a, b) ==
  [a EXCEPT !.min = IF b.min # NoSchema /\ @ # NoSchema /\ b.min < @ THEN b.min ELSE @]

mergeConstraint(a, b) ==
  [min |-> IF b.min # NoSchema /\ (a.min = NoSchema \/ b.min > a.min)
           THEN b.min ELSE a.min,
   max |-> IF b.max # NoSchema /\ (a.max = NoSchema \/ b.max < a.max)
           THEN b.max ELSE a.max,
   enum |-> IF a.enum # {} /\ b.enum # {} THEN a.enum \cap b.enum
            ELSE a.enum \cup b.enum]

mergeSchema(a, b) ==
  [required |-> a.required \cup b.required,
   protocolRequired |-> a.protocolRequired \cup b.protocolRequired,
   constraints |->
     [f \in DOMAIN a.constraints \cup DOMAIN b.constraints |->
        CASE f \notin DOMAIN a.constraints -> b.constraints[f]
          [] f \notin DOMAIN b.constraints -> a.constraints[f]
          [] OTHER -> mergeConstraint(a.constraints[f], b.constraints[f])]]

EmptySchema == [required |-> {}, protocolRequired |-> {}, constraints |-> NoMap]

(* A peer with the capability and a schema for the resource. *)
Describes(peer) == peer.capable /\ peer.schema # NoSchema

(* The schemas of the peers that have one, merged in the order of the list *)
(* from nothing on, and whether there is one.                              *)
GetResourceMetaSchema(peers) ==
  LET merged[i \in 0 .. Len(peers)] ==
        IF i = 0 THEN EmptySchema
        ELSE IF Describes(peers[i]) THEN mergeSchema(merged[i - 1], peers[i].schema)
        ELSE merged[i - 1]
  IN [schema |-> merged[Len(peers)],
      found |-> \E i \in 1 .. Len(peers) : Describes(peers[i])]

validateConstraint(m, fields, field, c) ==
  IF field = "timeout_ms"
  THEN /\ c.min # NoSchema => m.header.timeout >= c.min
       /\ c.max # NoSchema => m.header.timeout <= c.max
  ELSE c.enum = {} \/ Get(fields, field) \in c.enum \cup {""}

hasMetaField(m, field) ==
  IF field = "timeout_ms" THEN m.header.timeout > 0 ELSE field \in m.header.fields

(* validateRequestMeta, for the message the handler has normalized. *)
validateRequestMeta(common, m) ==
  LET fields == ProtocolFields(m)
      schema == common.schema
  IN
  \/ ~common.found
  \/ /\ \A f \in schema.required : hasMetaField(m, f)
     /\ \A f \in schema.protocolRequired : Get(fields, f) # ""
     /\ \A f \in DOMAIN schema.constraints :
          validateConstraint(m, fields, f, schema.constraints[f])
=============================================================================
