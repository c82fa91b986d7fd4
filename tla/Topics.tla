------------------------------- MODULE Topics -------------------------------
(***************************************************************************)
(* Topic names of dd-core and what is decided by them.  A topic is the     *)
(* sequence of its levels; a level is a string, and "+", "#" and "*" are   *)
(* the levels some matcher gives a meaning to.                             *)
(***************************************************************************)
EXTENDS Integers, Sequences, FiniteSets

CONSTANT Tenant

(* TopicSet: the topics with a parameter, and the two subscriptions main   *)
(* makes for answers.                                                      *)
TransferRequest(r) == <<"dd", Tenant, "transfer", r, "request">>
TransferResponse(p) == <<"dd", Tenant, "transfer", p, "response">>
TransferResponseByRequest(id) == <<"dd", Tenant, "transfer", "response", id>>
TransferResponseStream == TransferResponse("+")
TransferResponseByRequestStream == TransferResponseByRequest("+")
EventPublish(r) == <<"dd", Tenant, "event", r, "publish">>
StreamOpen(r) == <<"dd", Tenant, "stream", r, "open">>
StreamClose(r) == <<"dd", Tenant, "stream", r, "close">>
PeerTopic(what) == <<"dd", Tenant, "peer", what>>
PeerResourceReport == <<"dd", Tenant, "peer", "resource", "report">>

(* What an MQTT broker takes for a match of topic filter p and topic t,    *)
(* for filters with "#" in no place but the last.                          *)
BrokerMatches(p, t) ==
  LET n == Len(p)
      fits(i) == p[i] \in {"+", t[i]}
  IN IF n > 0 /\ p[n] = "#"
     THEN Len(t) >= n - 1 /\ \A i \in 1 .. n - 1 : fits(i)
     ELSE Len(t) = n /\ \A i \in 1 .. n : fits(i)

-----------------------------------------------------------------------------
(* The two matchers of the program: loops over the levels of the pattern.  *)

(* The levels of p from the first one on match t, "wild" standing for any  *)
(* one level.                                                              *)
LevelsMatch(p, t, wild) ==
  LET from[i \in 1 .. Len(p) + 1] ==
        IF i > Len(p) THEN Len(p) = Len(t)
        ELSE \/ p[i] = "#"
             \/ i <= Len(t) /\ p[i] \in wild \cup {t[i]} /\ from[i + 1]
  IN from[1]

(* mock_client.go: "*" counts as a wildcard too. *)
MockMatches(p, t) == p = t \/ LevelsMatch(p, t, {"+", "*"})

(* topic_acl_service.go. *)
matchMQTTTopic(p, t) == LevelsMatch(p, t, {"+"})

-----------------------------------------------------------------------------
(* TopicAclService: rules are a sequence of [peer, action, pattern, allow]. *)

(* A bug: the first rule that matches decides. *)
AuthorizeFirst(rules, peer, action, topic) ==
  LET applies(i) == /\ rules[i].peer = peer /\ rules[i].action = action
                    /\ matchMQTTTopic(rules[i].pattern, topic)
      from[i \in 1 .. Len(rules) + 1] ==
        IF i > Len(rules) THEN FALSE
        ELSE IF applies(i) THEN rules[i].allow ELSE from[i + 1]
  IN from[1]

(* Authorize: the loop over the rules, with "allowed" so far. *)
Authorize(rules, peer, action, topic) ==
  LET applies(i) == /\ rules[i].peer = peer /\ rules[i].action = action
                    /\ matchMQTTTopic(rules[i].pattern, topic)
      upTo[i \in 0 .. Len(rules)] ==     \* "denied" is the early return
        IF i = 0 THEN "not allowed"
        ELSE IF upTo[i - 1] = "denied" \/ ~applies(i) THEN upTo[i - 1]
        ELSE IF rules[i].allow THEN "allowed" ELSE "denied"
  IN upTo[Len(rules)] = "allowed"
=============================================================================
