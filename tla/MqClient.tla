------------------------------ MODULE MqClient ------------------------------
(***************************************************************************)
(* What happens to a topic on its way to the broker (mq/mqtt_client.go)    *)
(* and in the MQTT bridge (adapter/mqtt_bridge.go).                        *)
(***************************************************************************)
EXTENDS Topics

CONSTANTS
  Hash(_),    \* FNV-1a of a topic in hex, taken to be one-to-one
  Glue(_, _)  \* two strings put together to one

(* MqttClient: the topic and the QoS that go to the broker. *)

Wildcard(t) == \E i \in DOMAIN t : t[i] \in {"+", "#"}

IsTransfer(t) == \E i \in 2 .. Len(t) - 1 : t[i] = "transfer"

(* A bug: topics of every kind are aliased. *)
aliasTopicWide(enabled, t) ==
  IF enabled /\ ~Wildcard(t) /\ Len(t) > 1 /\ t[1] = "dd"
  THEN <<"dd", t[2], "ta", Hash(t)>> ELSE t

(* The alias of an exact transfer topic. *)
aliasTopic(enabled, t) ==
  IF enabled /\ ~Wildcard(t) /\ Len(t) > 1 /\ t[1] = "dd" /\ IsTransfer(t)
  THEN <<"dd", t[2], "ta", Hash(t)>> ELSE t

(* The substrings that give a topic QoS 0. *)
qosForTopic(t) ==
  LET inside(s) == \E i \in 1 .. Len(t) - Len(s) : SubSeq(t, i + 1, i + Len(s)) = s
  IN IF \/ \E i \in 2 .. Len(t) - 1 : t[i] = "event"
        \/ inside(<<"peer", "heartbeat">>)
        \/ inside(<<"peer", "resource", "report">>)
        \/ inside(<<"peer", "hub", "broadcast">>)
        \/ inside(<<"peer", "auth", "broadcast">>)
     THEN 0 ELSE 1

(* Publish on topic t, as a subscriber to f sees it. *)
Publish(enabled, t, f) ==
  LET wire == aliasTopic(enabled, t) IN
  [qos |-> qosForTopic(wire),
   delivered |-> BrokerMatches(aliasTopic(enabled, f), wire)]

-----------------------------------------------------------------------------
(* MqttBridge: a mapping is [source, target].  A string "a/b/" has the     *)
(* levels of "a/b" and an empty one.                                       *)

Dir(p) == SubSeq(p, 1, Len(p) - 1)

(* Whether stripWildcard leaves a prefix that ends in "/" (or is empty). *)
EndsWild(p) == Len(p) > 0 /\ p[Len(p)] \in {"+", "#"}

(* A bug: the target's prefix is put before the whole topic. *)
forwardNested(m, t) ==
  IF EndsWild(m.source) /\ Len(t) >= Len(m.source) THEN Dir(m.target) \o t
  ELSE IF t = m.source THEN Dir(m.target) \o t ELSE t

(* strings.Replace of the stripped source by the stripped target: the      *)
(* source is a prefix of the topic, or does not occur in it at all because *)
(* it still has a wildcard or is longer.  After a target without a         *)
(* wildcard the rest of the topic goes on in the same level.               *)
forward(m, t) ==
  LET n == Len(Dir(m.source))
      prefix == EndsWild(m.source) /\ Len(t) > n /\ SubSeq(t, 1, n) = Dir(m.source)
  IN CASE prefix /\ EndsWild(m.target) -> Dir(m.target) \o SubSeq(t, n + 1, Len(t))
       [] prefix /\ ~EndsWild(m.target) ->
            Dir(m.target) \o <<Glue(m.target[Len(m.target)], t[n + 1])>>
              \o SubSeq(t, n + 2, Len(t))
       [] t = m.source /\ EndsWild(m.target) -> Dir(m.target) \o <<"">>
       [] t = m.source /\ ~EndsWild(m.target) -> m.target
       [] OTHER -> t
=============================================================================
