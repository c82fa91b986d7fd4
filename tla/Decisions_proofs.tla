-------------------------- MODULE Decisions_proofs --------------------------
(***************************************************************************)
(* What the decisions of dd-core promise for every input: each theorem     *)
(* finds the question that was asked (one lemma per question) and then is  *)
(* about the operator that answered it.                                    *)
(***************************************************************************)
EXTENDS Decisions, SequenceTheorems, WellFoundedInduction, TLAPS

-----------------------------------------------------------------------------
(* The question and the answer are what was given to Ask. *)
LEMMA Recorded ==
  ASSUME NEW kind, NEW in, NEW out, Ask(kind, in, out)
  PROVE  query'.kind = kind /\ query'.in = in /\ answer' = out
<1> QED
  BY DEF Ask

(* Every question has the kind of its action. *)
LEMMA Kinds ==
  /\ AskAcl => query'.kind = "acl"
  /\ AskPublish => query'.kind = "publish"
  /\ AskForward => query'.kind = "forward"
  /\ AskSchema => query'.kind = "schema"
  /\ AskPeers => query'.kind = "peers"
  /\ AskAuth => query'.kind = "auth"
  /\ AskCoapRequest => query'.kind = "coap"
  /\ AskCoapReply => query'.kind = "coap"
  /\ AskConfig => query'.kind = "config"
<1>1. AskAcl => query'.kind = "acl"
  BY Recorded, Zenon DEF AskAcl
<1>2. AskPublish => query'.kind = "publish"
  BY Recorded, Zenon DEF AskPublish
<1>3. AskForward => query'.kind = "forward"
  BY Recorded, Zenon DEF AskForward
<1>4. AskSchema => query'.kind = "schema"
  BY Recorded, Zenon DEF AskSchema
<1>5. AskPeers => query'.kind = "peers"
  BY Recorded, Zenon DEF AskPeers
<1>6. AskAuth => query'.kind = "auth"
  BY Recorded, Zenon DEF AskAuth
<1>7. AskCoapRequest => query'.kind = "coap"
  BY Recorded, Zenon DEF AskCoapRequest
<1>8. AskCoapReply => query'.kind = "coap"
  BY Recorded, Zenon DEF AskCoapReply
<1>9. AskConfig => query'.kind = "config"
  BY Recorded, Zenon DEF AskConfig
<1> QED
  BY <1>1, <1>2, <1>3, <1>4, <1>5, <1>6, <1>7, <1>8, <1>9

(* Which action asked, by the kind of the question. *)
LEMMA AskedBy ==
  ASSUME Next
  PROVE  /\ Asked("acl")' => AskAcl
         /\ Asked("publish")' => AskPublish
         /\ Asked("forward")' => AskForward
         /\ Asked("schema")' => AskSchema
         /\ Asked("peers")' => AskPeers
         /\ Asked("auth")' => AskAuth
         /\ Asked("coap")' => AskCoapRequest \/ AskCoapReply
         /\ Asked("config")' => AskConfig
<1> QED
  BY Kinds DEF Next, Asked

-----------------------------------------------------------------------------
(* Tokens. *)

LEMMA GrantDecided ==
  ASSUME NEW s \in SecretMaps, NEW q
  PROVE  LET a == handleVerifyReq(s, q) IN
         /\ a.granted => VerifyToken(s, a.token, q.peer, q.key)
         /\ \A p \in PlainId, k \in DOMAIN s :
              a.granted /\ q.peer \in PlainId /\ VerifyToken(s, a.token, p, k)
                => p = q.peer /\ s[k] = q.secret
         /\ ~a.granted => q.key \notin DOMAIN s \/ s[q.key] # q.secret
<1> DEFINE a == handleVerifyReq(s, q)
<1>1. /\ a.granted => /\ q.key \in DOMAIN s /\ s[q.key] = q.secret
                      /\ a.token = Text(q.peer, s[q.key])
      /\ ~a.granted => q.key \notin DOMAIN s \/ s[q.key] # q.secret
  BY DEF handleVerifyReq, generateAuthToken
<1> HIDE DEF a
<1>2. ASSUME NEW p \in PlainId, NEW k \in DOMAIN s, a.granted, q.peer \in PlainId,
             VerifyToken(s, a.token, p, k)
      PROVE  p = q.peer /\ s[k] = q.secret
  <2> DEFINE Secrets == UNION {{x[i] : i \in DOMAIN x} : x \in SecretMaps}
  <2>0. \A u, v \in PlainId, x, y \in Secrets : Text(u, x) = Text(v, y) => u = v /\ x = y
    BY TextAssumption, Zenon
  <2>1. \A i \in DOMAIN s : s[i] \in Secrets
    OBVIOUS
  <2>2. Text(q.peer, s[q.key]) = Text(p, s[k])
    BY <1>1, <1>2 DEF VerifyToken, generateAuthToken
  <2>3. q.peer = p /\ s[q.key] = s[k]
    <3> HIDE DEF Secrets
    <3>1. q.key \in DOMAIN s
      BY <1>1, <1>2
    <3> QED
      BY <3>1, <2>0, <2>1, <2>2, <1>2
  <2> QED
    BY <2>3, <1>1, <1>2
<1>3. a.granted => VerifyToken(s, a.token, q.peer, q.key)
  BY <1>1 DEF VerifyToken, generateAuthToken
<1> QED
  BY <1>1, <1>2, <1>3, Zenon DEF a

(* AuthPeerService: a token handleVerifyReq grants is taken by VerifyToken *)
(* for the peer it was given to and, of peers with no ":" in their ids,    *)
(* for no other; a request is refused only where its secret is wrong,      *)
(* whatever the secrets are.                                               *)
THEOREM GrantIsVerified == Spec => []GrantVerifies
<1>1. Init => GrantVerifies
  BY DEF Init, GrantVerifies, Asked
<1>2. GrantVerifies /\ [Next]_vars => GrantVerifies'
  <2> SUFFICES ASSUME GrantVerifies, [Next]_vars, Asked("auth")'
               PROVE  GrantVerifies'
    BY DEF GrantVerifies
  <2>1. CASE UNCHANGED vars
    BY <2>1 DEF vars, GrantVerifies, Asked
  <2>2. CASE Next
    <3>1. PICK s \in SecretMaps, q \in AuthRequest :
            Ask("auth", [secrets |-> s, request |-> q], handleVerifyReq(s, q))
      BY <2>2, AskedBy DEF AskAuth
    <3>2. /\ query'.in = [secrets |-> s, request |-> q]
          /\ answer' = handleVerifyReq(s, q)
      BY <3>1, Recorded
    <3>3. query'.in.secrets = s /\ query'.in.request = q
      BY <3>2
    <3>4. /\ answer'.granted => VerifyToken(s, answer'.token, q.peer, q.key)
          /\ \A p \in PlainId, k \in DOMAIN s :
               answer'.granted /\ q.peer \in PlainId /\ VerifyToken(s, answer'.token, p, k)
                 => p = q.peer /\ s[k] = q.secret
          /\ ~answer'.granted => q.key \notin DOMAIN s \/ s[q.key] # q.secret
      BY <3>2, GrantDecided, Zenon
    <3> QED
      BY <3>3, <3>4, Zenon DEF GrantVerifies
  <2> QED
    BY <2>1, <2>2
<1> QED
  BY <1>1, <1>2, PTL DEF Spec

-----------------------------------------------------------------------------
(* Topics: without a wildcard a filter matches one topic, itself. *)

LEMMA ExactMatch ==
  ASSUME NEW p \in Seq(STRING), NEW t \in Seq(STRING), ~Wildcard(p)
  PROVE  BrokerMatches(p, t) <=> t = p
<1>1. \A i \in 1 .. Len(p) : p[i] \notin {"+", "#"}
  BY DEF Wildcard
<1>2. BrokerMatches(p, t) <=> Len(t) = Len(p) /\ \A i \in 1 .. Len(p) : p[i] = t[i]
  BY <1>1 DEF BrokerMatches
<1>3. ASSUME Len(t) = Len(p), \A i \in 1 .. Len(p) : p[i] = t[i]
      PROVE  t = p
  BY <1>3, SeqEqual
<1> QED
  BY <1>2, <1>3

LEMMA DirProperties ==
  ASSUME NEW p \in Seq(STRING), Len(p) > 0
  PROVE  /\ Dir(p) \in Seq(STRING)
         /\ Len(Dir(p)) = Len(p) - 1
         /\ \A i \in 1 .. Len(p) - 1 : Dir(p)[i] = p[i]
<1>1. \A i \in 1 .. Len(p) - 1 : p[i] \in STRING
  OBVIOUS
<1>2. PICK n \in Nat : n = Len(p) - 1
  OBVIOUS
<1>3. /\ SubSeq(p, 1, n) \in Seq(STRING)
      /\ Len(SubSeq(p, 1, n)) = n
      /\ \A i \in 1 .. n : SubSeq(p, 1, n)[i] = p[i]
  BY <1>2
<1> QED
  BY <1>2, <1>3, Zenon DEF Dir

(* A prefix with levels after it, and what its last level is. *)
LEMMA Appended ==
  ASSUME NEW d \in Seq(STRING), NEW r \in Seq(STRING), Len(r) > 0
  PROVE  /\ d \o r \in Seq(STRING)
         /\ Len(d \o r) = Len(d) + Len(r)
         /\ \A i \in 1 .. Len(d) : (d \o r)[i] = d[i]
         /\ (d \o r)[Len(d) + Len(r)] = r[Len(r)]
<1> QED
  OBVIOUS

(* A prefix with one level more. *)
LEMMA OneMore ==
  ASSUME NEW S, NEW d \in Seq(S), NEW e
  PROVE  /\ Len(d \o <<e>>) = Len(d) + 1
         /\ \A i \in 1 .. Len(d) : (d \o <<e>>)[i] = d[i]
<1>1. PICK T : T = S \cup {e}
  OBVIOUS
<1>2. d \in Seq(T) /\ <<e>> \in Seq(T) /\ Len(<<e>>) = 1
  BY <1>1
<1> QED
  BY <1>2, ConcatProperties

LEMMA RestOfTopic ==
  ASSUME NEW t \in Seq(STRING), NEW n \in Nat, n < Len(t)
  PROVE  /\ SubSeq(t, n + 1, Len(t)) \in Seq(STRING)
         /\ Len(SubSeq(t, n + 1, Len(t))) = Len(t) - n
         /\ SubSeq(t, n + 1, Len(t))[Len(t) - n] = t[Len(t)]
<1> QED
  OBVIOUS

(* A filter that ends in a wildcard matches what continues its prefix: by  *)
(* one level if the wildcard is "+".                                       *)
LEMMA PrefixMatches ==
  ASSUME NEW p \in Seq(STRING), NEW a, Len(a) \in Nat, EndsWild(p),
         \A i \in 1 .. Len(p) - 1 : a[i] = p[i], Len(a) >= Len(p),
         p[Len(p)] = "+" => Len(a) = Len(p)
  PROVE  BrokerMatches(p, a)
<1> QED
  BY DEF BrokerMatches, EndsWild
-----------------------------------------------------------------------------
(* The MQTT bridge. *)

(* A wildcard end: its levels follow the prefix of the target. *)
LEMMA ForwardMoves ==
  ASSUME NEW m \in Mapping, NEW t \in Topic, BrokerMatches(m.source, t),
         EndsWild(m.source), ~Wildcard(Dir(m.source)), Len(t) >= Len(m.source),
         EndsWild(m.target), m.target[Len(m.target)] \in {"#", m.source[Len(m.source)]}
  PROVE  LET a == forward(m, t) IN
         /\ BrokerMatches(m.target, a)
         /\ Len(a) - Len(m.target) = Len(t) - Len(m.source)
         /\ a[Len(a)] = t[Len(t)]
<1>0. PICK src \in Seq(STRING), tgt \in Seq(STRING) : src = m.source /\ tgt = m.target
  BY MappingAssumption
<1>1. t \in Seq(STRING) /\ Len(src) \in Nat /\ Len(tgt) \in Nat /\ Len(t) \in Nat
  BY TopicAssumption DEF ExactTopic
<1> DEFINE n == Len(Dir(src))
           rest == SubSeq(t, n + 1, Len(t))
           a == Dir(tgt) \o rest
<1>2. /\ Len(src) > 0 /\ src[Len(src)] \in {"+", "#"}
      /\ Len(tgt) > 0 /\ tgt[Len(tgt)] \in {"#", src[Len(src)]}
  BY <1>0 DEF EndsWild
<1>3. /\ Dir(src) \in Seq(STRING) /\ n = Len(src) - 1
      /\ \A i \in 1 .. Len(src) - 1 : Dir(src)[i] = src[i]
  BY <1>1, <1>2, DirProperties
<1>4. /\ Dir(tgt) \in Seq(STRING) /\ Len(Dir(tgt)) = Len(tgt) - 1
      /\ \A i \in 1 .. Len(tgt) - 1 : Dir(tgt)[i] = tgt[i]
  BY <1>1, <1>2, DirProperties
<1>5. SubSeq(t, 1, n) = Dir(src)
  <2>1. \A i \in 1 .. n : src[i] = t[i]
    <3>0. DOMAIN Dir(src) = 1 .. n /\ ~Wildcard(Dir(src))
      BY <1>0, <1>3, LenProperties
    <3>1. \A i \in 1 .. n : src[i] \notin {"+", "#"}
      BY <3>0, <1>3, Zenon DEF Wildcard
    <3>2. \A i \in 1 .. n : src[i] \in {"+", t[i]}
      BY <1>0, <1>1, <1>2, <1>3 DEF BrokerMatches
    <3> QED
      BY <3>1, <3>2
  <2>2. /\ SubSeq(t, 1, n) \in Seq(STRING) /\ Len(SubSeq(t, 1, n)) = n
        /\ \A i \in 1 .. n : SubSeq(t, 1, n)[i] = t[i]
    BY <1>0, <1>1, <1>3
  <2>3. \A i \in 1 .. n : SubSeq(t, 1, n)[i] = Dir(src)[i]
    BY <2>1, <2>2, <1>3
  <2> QED
    BY <2>2, <2>3, <1>3, SeqEqual
<1>6. n \in Nat /\ n < Len(t)
  BY <1>0, <1>1, <1>2, <1>3
<1>7. forward(m, t) = a
  <2>1. EndsWild(m.source) /\ Len(t) > Len(Dir(m.source))
    BY <1>0, <1>6
  <2>2. SubSeq(t, 1, Len(Dir(m.source))) = Dir(m.source)
    BY <1>0, <1>5
  <2>3. t # m.source
    BY <1>0, <1>1, <1>2, TopicAssumption DEF ExactTopic, Wildcard
  <2>4. forward(m, t) = Dir(m.target) \o SubSeq(t, Len(Dir(m.source)) + 1, Len(t))
    BY <2>1, <2>2, <2>3, EndsWild(m.target), Zenon DEF forward
  <2> QED
    BY <1>0, <2>4
<1>8. rest \in Seq(STRING) /\ Len(rest) = Len(t) - n /\ rest[Len(t) - n] = t[Len(t)]
  BY <1>1, <1>6, RestOfTopic
<1> HIDE DEF rest
<1>9. /\ a \in Seq(STRING) /\ Len(a) = Len(Dir(tgt)) + Len(rest)
      /\ \A i \in 1 .. Len(Dir(tgt)) : a[i] = Dir(tgt)[i]
      /\ a[Len(Dir(tgt)) + Len(rest)] = rest[Len(rest)]
  <2>1. Len(rest) > 0
    BY <1>1, <1>6, <1>8
  <2> QED
    BY <2>1, <1>4, <1>8, Appended, Zenon
<1> HIDE DEF a, n
<1>10. Len(a) - Len(tgt) = Len(t) - Len(src)
  <2>1. Len(a) = (Len(tgt) - 1) + (Len(t) - (Len(src) - 1))
    BY <1>3, <1>4, <1>8, <1>9
  <2> QED
    BY <2>1, <1>1
<1>11. a[Len(a)] = t[Len(t)]
  BY <1>8, <1>9
<1>12. BrokerMatches(tgt, a)
  <2>1. \A i \in 1 .. Len(tgt) - 1 : a[i] = tgt[i]
    BY <1>4, <1>9
  <2>2. Len(a) >= Len(tgt)
    <3>1. Len(a) \in Nat
      BY <1>9
    <3> QED
      BY <3>1, <1>0, <1>1, <1>10
  <2>3. tgt[Len(tgt)] = "+" => Len(a) = Len(tgt)
    <3>1. src[Len(src)] = "+" => Len(t) = Len(src)
      BY <1>0, <1>2 DEF BrokerMatches
    <3>2. tgt[Len(tgt)] = "+" => src[Len(src)] = "+"
      BY <1>2
    <3>3. Len(a) \in Nat
      BY <1>9
    <3> QED
      BY <3>1, <3>2, <3>3, <1>1, <1>10
  <2>4. EndsWild(tgt)
    BY <1>2 DEF EndsWild
  <2>5. Len(a) \in Nat
    BY <1>9
  <2> QED
    BY <2>1, <2>2, <2>3, <2>4, <2>5, PrefixMatches
<1> QED
  BY <1>0, <1>7, <1>10, <1>11, <1>12, Zenon

(* No wildcards: the topic of the source becomes the one of the target. *)
LEMMA ForwardReplaces ==
  ASSUME NEW m \in Mapping, NEW t \in Topic, BrokerMatches(m.source, t),
         ~EndsWild(m.source), ~Wildcard(Dir(m.source)), ~Wildcard(m.target)
  PROVE  BrokerMatches(m.target, forward(m, t))
<1> DEFINE src == m.source
           tgt == m.target
<1>1. src \in Seq(STRING) /\ tgt \in Seq(STRING) /\ t \in Seq(STRING)
  BY MappingAssumption, TopicAssumption DEF ExactTopic
<1>2. ~Wildcard(src)
  <2>1. CASE Len(src) = 0
    BY <2>1, <1>1 DEF Wildcard
  <2>2. CASE Len(src) > 0
    <3>0. /\ Dir(src) \in Seq(STRING) /\ Len(Dir(src)) = Len(src) - 1
          /\ \A i \in 1 .. Len(src) - 1 : Dir(src)[i] = src[i]
      BY <2>2, <1>1, DirProperties
    <3>1. \A i \in 1 .. Len(src) - 1 : src[i] \notin {"+", "#"}
      BY <3>0 DEF Wildcard
    <3>2. src[Len(src)] \notin {"+", "#"}
      BY <2>2 DEF EndsWild
    <3> QED
      BY <3>1, <3>2, <1>1 DEF Wildcard
  <2> QED
    BY <2>1, <2>2, <1>1
<1>3. t = src
  BY <1>1, <1>2, ExactMatch
<1>4. ~EndsWild(tgt)
  BY <1>1 DEF EndsWild, Wildcard
<1>5. forward(m, t) = tgt
  BY <1>3, <1>4 DEF forward
<1>6. BrokerMatches(tgt, tgt)
  BY <1>1, ExactMatch
<1> QED
  BY <1>5, <1>6

(* MqttBridge: every topic the broker hands it goes to a topic of the      *)
(* target, with the levels the wildcard stood for, for all mappings in     *)
(* which source and target have no wildcard, or one at their ends that     *)
(* fits and stands for something.                                          *)
THEOREM ForwardIsPlaced == Spec => []ForwardLands
<1>1. Init => ForwardLands
  BY DEF Init, ForwardLands, Asked
<1>2. ForwardLands /\ [Next]_vars => ForwardLands'
  <2> SUFFICES ASSUME ForwardLands, [Next]_vars, Asked("forward")'
               PROVE  ForwardLands'
    BY DEF ForwardLands
  <2>1. CASE UNCHANGED vars
    BY <2>1 DEF vars, ForwardLands, Asked
  <2>2. CASE Next
    <3>1. PICK m \in Mapping, t \in Topic :
            /\ BrokerMatches(m.source, t)
            /\ Ask("forward", [mapping |-> m, topic |-> t], forward(m, t))
      BY <2>2, AskedBy DEF AskForward
    <3>2. query'.in = [mapping |-> m, topic |-> t] /\ answer' = forward(m, t)
      BY <3>1, Recorded
    <3>3. query'.in.mapping = m /\ query'.in.topic = t
      BY <3>2
    <3> DEFINE wild == EndsWild(m.source)
               ends == /\ EndsWild(m.target)
                       /\ m.target[Len(m.target)] \in {"#", m.source[Len(m.source)]}
               good == /\ ~Wildcard(Dir(m.source))
                       /\ wild => Len(t) >= Len(m.source) /\ ends
                       /\ ~wild => ~Wildcard(m.target)
    <3>4. ASSUME good, wild
          PROVE  /\ BrokerMatches(m.target, answer')
                 /\ Len(answer') - Len(m.target) = Len(t) - Len(m.source)
                 /\ answer'[Len(answer')] = t[Len(t)]
      BY <3>1, <3>2, <3>4, ForwardMoves, Zenon
    <3>5. ASSUME good, ~wild
          PROVE  BrokerMatches(m.target, answer')
      BY <3>1, <3>2, <3>5, ForwardReplaces
    <3> QED
      BY <3>3, <3>4, <3>5, Zenon DEF ForwardLands
  <2> QED
    BY <2>1, <2>2
<1> QED
  BY <1>1, <1>2, PTL DEF Spec
-----------------------------------------------------------------------------
(* Topics on their way to the broker. *)

(* Every filter and topic is exact or a wildcard filter. *)
LEMMA FilterKinds ==
  ASSUME NEW f \in Filter \cup Topic
  PROVE  (Wildcard(f) /\ WildFilter(f)) \/ (~Wildcard(f) /\ ExactTopic(f))
<1> QED
  BY TopicAssumption DEF ExactTopic, WildFilter

(* The alias of a topic, level by level. *)
LEMMA AliasLevels ==
  ASSUME NEW x, NEW h
  PROVE  LET w == <<"dd", x, "ta", h>> IN
         Len(w) = 4 /\ w[1] = "dd" /\ w[2] = x /\ w[3] = "ta" /\ w[4] = h
<1> QED
  OBVIOUS

(* Which topics are aliased: the exact transfer topics, when aliases are   *)
(* on.                                                                     *)
LEMMA AliasOf ==
  ASSUME NEW on \in BOOLEAN, NEW t \in Filter \cup Topic
  PROVE  /\ on /\ ~Wildcard(t) /\ IsTransfer(t)
              => aliasTopic(on, t) = <<"dd", t[2], "ta", Hash(t)>>
         /\ ~(on /\ ~Wildcard(t) /\ IsTransfer(t)) => aliasTopic(on, t) = t
<1>1. ASSUME ~Wildcard(t), IsTransfer(t)
      PROVE  Len(t) > 1 /\ t[1] = "dd"
  <2>1. t \in Seq(STRING) /\ t[1] = "dd"
    BY <1>1, FilterKinds DEF ExactTopic
  <2>2. Len(t) >= 3
    BY <2>1, <1>1 DEF IsTransfer
  <2> QED
    BY <2>1, <2>2
<1> QED
  BY <1>1, Zenon DEF aliasTopic

(* A filter of four levels that are not "#" matches level by level. *)
LEMMA FourLevels ==
  ASSUME NEW p, NEW t, Len(p) = 4, p[4] # "#"
  PROVE  BrokerMatches(p, t) <=>
           /\ Len(t) = 4
           /\ p[1] \in {"+", t[1]} /\ p[2] \in {"+", t[2]}
           /\ p[3] \in {"+", t[3]} /\ p[4] \in {"+", t[4]}
<1> QED
  BY DEF BrokerMatches

(* Without aliases on both sides: an exact subscriber of an aliased topic  *)
(* is aliased too, and no other topic looks like an alias.                 *)
LEMMA ExactDelivers ==
  ASSUME NEW t \in Topic, NEW f \in Filter \cup Topic, ~Wildcard(f)
  PROVE  BrokerMatches(aliasTopic(TRUE, f), aliasTopic(TRUE, t)) <=> BrokerMatches(f, t)
<1>1. ExactTopic(t) /\ ExactTopic(f) /\ t \in Filter \cup Topic /\ ~Wildcard(t)
  BY FilterKinds, TopicAssumption DEF ExactTopic
<1>2. t \in Seq(STRING) /\ f \in Seq(STRING)
  BY <1>1 DEF ExactTopic
<1>3. BrokerMatches(f, t) <=> t = f
  BY <1>2, ExactMatch
<1> DEFINE w(u) == <<"dd", u[2], "ta", Hash(u)>>
<1>4. \A u : /\ Len(w(u)) = 4 /\ w(u)[1] = "dd" /\ w(u)[2] = u[2]
             /\ w(u)[3] = "ta" /\ w(u)[4] = Hash(u)
  BY AliasLevels
<1>5. Hash(f) \notin {"+", "#"} /\ (Hash(f) = Hash(t) => f = t)
  BY HashAssumption
<1> HIDE DEF w
<1>6. CASE IsTransfer(t) /\ IsTransfer(f)
  <2>1. aliasTopic(TRUE, f) = w(f) /\ aliasTopic(TRUE, t) = w(t)
    BY <1>1, <1>6, AliasOf DEF w
  <2>2. f[2] # "+"
    <3>1. 2 \in 1 .. Len(f)
      BY <1>2, <1>6 DEF IsTransfer
    <3> QED
      BY <3>1, <1>2 DEF Wildcard
  <2>3. BrokerMatches(w(f), w(t)) <=> f[2] = t[2] /\ Hash(f) = Hash(t)
    BY <1>4, <1>5, <2>2, FourLevels
  <2> QED
    BY <2>1, <2>3, <1>3, <1>5
<1>7. CASE IsTransfer(t) /\ ~IsTransfer(f)
  <2>1. aliasTopic(TRUE, f) = f /\ aliasTopic(TRUE, t) = w(t)
    BY <1>1, <1>7, AliasOf DEF w
  <2>2. ASSUME BrokerMatches(f, w(t))
        PROVE  FALSE
    <3>1. \A i \in 1 .. Len(f) : f[i] \notin {"+", "#"}
      BY <1>2 DEF Wildcard
    <3>2. Len(f) = 4 /\ f[3] = w(t)[3]
      BY <2>2, <3>1, <1>2, <1>4 DEF BrokerMatches
    <3> QED
      BY <3>2, <1>1, <1>4 DEF ExactTopic
  <2>3. t # f
    BY <1>7
  <2> QED
    BY <2>1, <2>2, <2>3, <1>3
<1>8. CASE ~IsTransfer(t) /\ IsTransfer(f)
  <2>1. aliasTopic(TRUE, f) = w(f) /\ aliasTopic(TRUE, t) = t
    BY <1>1, <1>8, AliasOf DEF w
  <2>2. ASSUME BrokerMatches(w(f), t)
        PROVE  FALSE
    <3>1. Len(t) = 4 /\ w(f)[3] \in {"+", t[3]}
      BY <2>2, <1>4, <1>5, FourLevels
    <3>2. t[3] = "ta"
      BY <3>1, <1>4
    <3> QED
      BY <3>1, <3>2, <1>1 DEF ExactTopic
  <2>3. t # f
    BY <1>8
  <2> QED
    BY <2>1, <2>2, <2>3, <1>3
<1>9. CASE ~IsTransfer(t) /\ ~IsTransfer(f)
  <2>1. aliasTopic(TRUE, f) = f /\ aliasTopic(TRUE, t) = t
    BY <1>1, <1>9, AliasOf
  <2> QED
    BY <2>1
<1> QED
  BY <1>6, <1>7, <1>8, <1>9

(* A wildcard subscriber sees aliases only behind its "#". *)
LEMMA WildDelivers ==
  ASSUME NEW t \in Topic, NEW f \in Filter \cup Topic, Wildcard(f), IsTransfer(t)
  PROVE  BrokerMatches(aliasTopic(TRUE, f), aliasTopic(TRUE, t)) <=>
           BrokerMatches(f, t) /\ Len(f) <= 3 /\ f[Len(f)] = "#"
<1>1. ExactTopic(t) /\ WildFilter(f) /\ t \in Filter \cup Topic /\ ~Wildcard(t)
  BY FilterKinds, TopicAssumption DEF ExactTopic
<1>2. t \in Seq(STRING) /\ f \in Seq(STRING) /\ t[1] = "dd"
  BY <1>1 DEF ExactTopic, WildFilter
<1>3. Len(f) > 0 /\ Len(f) \in Nat /\ Len(t) \in Nat
  BY <1>2 DEF Wildcard
<1>4. Len(t) >= 3
  BY <1>2 DEF IsTransfer
<1>5. PICK w : w = <<"dd", t[2], "ta", Hash(t)>>
  OBVIOUS
<1>6. Len(w) = 4 /\ w[1] = "dd" /\ w[2] = t[2] /\ w[3] = "ta"
  BY <1>5, AliasLevels
<1>7. aliasTopic(TRUE, f) = f /\ aliasTopic(TRUE, t) = w
  BY <1>1, <1>5, AliasOf
<1>8. Len(f) >= 3 => f[3] \notin {"+", "ta"}
  BY <1>1 DEF WildFilter
<1>9. CASE f[Len(f)] = "#" /\ Len(f) <= 3
  <2>1. \A i \in 1 .. Len(f) - 1 : w[i] = t[i]
    BY <1>2, <1>3, <1>6, <1>9
  <2>2. BrokerMatches(f, w) <=> \A i \in 1 .. Len(f) - 1 : f[i] \in {"+", w[i]}
    BY <1>3, <1>6, <1>9 DEF BrokerMatches
  <2>3. BrokerMatches(f, t) <=> \A i \in 1 .. Len(f) - 1 : f[i] \in {"+", t[i]}
    BY <1>3, <1>4, <1>9 DEF BrokerMatches
  <2> QED
    BY <2>1, <2>2, <2>3, <1>7, <1>9
<1>10. CASE f[Len(f)] = "#" /\ Len(f) > 3
  <2>1. 3 \in 1 .. Len(f) - 1
    BY <1>3, <1>10
  <2>2. ~BrokerMatches(f, w)
    BY <2>1, <1>3, <1>6, <1>8, <1>10 DEF BrokerMatches
  <2>3. ~(Len(f) <= 3)
    BY <1>3, <1>10
  <2> QED
    BY <2>2, <2>3, <1>7
<1>11. CASE f[Len(f)] # "#"
  <2>1. ASSUME BrokerMatches(f, w)
        PROVE  FALSE
    <3>1. Len(f) = 4 /\ \A i \in 1 .. Len(f) : f[i] \in {"+", w[i]}
      BY <2>1, <1>3, <1>6, <1>11 DEF BrokerMatches
    <3>2. f[3] \in {"+", w[3]}
      BY <3>1
    <3> QED
      BY <3>1, <3>2, <1>6, <1>8
  <2> QED
    BY <2>1, <1>7, <1>11
<1>12. Len(f) <= 3 \/ Len(f) > 3
  BY <1>3
<1> QED
  BY <1>9, <1>10, <1>11, <1>12, Zenon

(* A sequence of two or three levels inside a topic, by its first two. *)
LEMMA InsideTwo ==
  ASSUME NEW S, NEW t \in Seq(S), NEW a, NEW b, NEW i \in 1 .. Len(t) - 2,
         SubSeq(t, i + 1, i + 2) = <<a, b>>
  PROVE  t[i + 1] = a /\ t[i + 2] = b
<1>1. SubSeq(t, i + 1, i + 2)[1] = t[i + 1] /\ SubSeq(t, i + 1, i + 2)[2] = t[i + 2]
  OBVIOUS
<1>2. <<a, b>>[1] = a /\ <<a, b>>[2] = b
  OBVIOUS
<1> QED
  BY <1>1, <1>2, Zenon

LEMMA InsideThree ==
  ASSUME NEW S, NEW t \in Seq(S), NEW a, NEW b, NEW c, NEW i \in 1 .. Len(t) - 3,
         SubSeq(t, i + 1, i + 3) = <<a, b, c>>
  PROVE  t[i + 1] = a /\ t[i + 2] = b
<1>1. SubSeq(t, i + 1, i + 3)[1] = t[i + 1] /\ SubSeq(t, i + 1, i + 3)[2] = t[i + 2]
  OBVIOUS
<1>2. <<a, b, c>>[1] = a /\ <<a, b, c>>[2] = b
  OBVIOUS
<1> QED
  BY <1>1, <1>2, Zenon

(* What gives a topic QoS 1: no event and no control topic of a peer       *)
(* inside.                                                                 *)
LEMMA QosOne ==
  ASSUME NEW S, NEW t \in Seq(S),
         \A i \in 2 .. Len(t) - 1 : t[i] # "event",
         \A i \in 2 .. Len(t) - 1 :
           t[i] = "peer" => t[i + 1] \notin {"heartbeat", "resource", "hub", "auth"}
  PROVE  qosForTopic(t) = 1
<1>1. ASSUME NEW i \in 1 .. Len(t) - 2
      PROVE  SubSeq(t, i + 1, i + 2) # <<"peer", "heartbeat">>
  <2> SUFFICES ASSUME SubSeq(t, i + 1, i + 2) = <<"peer", "heartbeat">>
               PROVE  FALSE
    OBVIOUS
  <2>1. t[i + 1] = "peer" /\ t[i + 2] = "heartbeat"
    BY InsideTwo
  <2>2. i + 1 \in 2 .. Len(t) - 1 /\ (i + 1) + 1 = i + 2
    OBVIOUS
  <2> QED
    BY <2>1, <2>2
<1>2. ASSUME NEW i \in 1 .. Len(t) - 3, NEW b \in {"resource", "hub", "auth"}, NEW c
      PROVE  SubSeq(t, i + 1, i + 3) # <<"peer", b, c>>
  <2> SUFFICES ASSUME SubSeq(t, i + 1, i + 3) = <<"peer", b, c>>
               PROVE  FALSE
    OBVIOUS
  <2>1. t[i + 1] = "peer" /\ t[i + 2] = b
    BY InsideThree
  <2>2. i + 1 \in 2 .. Len(t) - 1 /\ (i + 1) + 1 = i + 2
    OBVIOUS
  <2> QED
    BY <2>1, <2>2
<1>3. Len(<<"peer", "heartbeat">>) = 2 /\ \A b, c : Len(<<"peer", b, c>>) = 3
  OBVIOUS
<1>4. /\ ~\E i \in 2 .. Len(t) - 1 : t[i] = "event"
      /\ ~\E i \in 1 .. Len(t) - 2 : SubSeq(t, i + 1, i + 2) = <<"peer", "heartbeat">>
      /\ ~\E i \in 1 .. Len(t) - 3 : SubSeq(t, i + 1, i + 3) = <<"peer", "resource", "report">>
      /\ ~\E i \in 1 .. Len(t) - 3 : SubSeq(t, i + 1, i + 3) = <<"peer", "hub", "broadcast">>
      /\ ~\E i \in 1 .. Len(t) - 3 : SubSeq(t, i + 1, i + 3) = <<"peer", "auth", "broadcast">>
  BY <1>1, <1>2, Zenon
<1> QED
  BY <1>3, <1>4, Zenon DEF qosForTopic

(* A transfer has QoS 1 under its name and under its alias. *)
LEMMA TransferQos ==
  ASSUME NEW on \in BOOLEAN, NEW t \in Topic, TransferTopic(t),
         \/ \A i \in 2 .. Len(t) - 1 : t[i] # "event"
         \/ on /\ t[2] # "event"
  PROVE  qosForTopic(aliasTopic(on, t)) = 1
<1>1. t \in Seq(STRING) /\ ~Wildcard(t) /\ t \in Filter \cup Topic
  BY TopicAssumption DEF ExactTopic
<1>2. /\ Len(t) = 5 /\ t[3] = "transfer"
      /\ t[4] = "response" \/ t[5] \in {"request", "response"}
  BY DEF TransferTopic
<1>3. IsTransfer(t)
  <2>1. 3 \in 2 .. Len(t) - 1
    BY <1>2
  <2> QED
    BY <2>1, <1>2 DEF IsTransfer
<1>4. CASE ~on
  <2>1. \A i \in 2 .. Len(t) - 1 : t[i] # "event"
    BY <1>4
  <2>2. ASSUME NEW i \in 2 .. Len(t) - 1, t[i] = "peer"
        PROVE  t[i + 1] \notin {"heartbeat", "resource", "hub", "auth"}
    <3>1. i = 2 \/ i = 3 \/ i = 4
      BY <1>2
    <3> QED
      BY <3>1, <2>2, <1>2
  <2>3. aliasTopic(on, t) = t
    BY <1>1, <1>4, AliasOf
  <2> QED
    BY <2>1, <2>2, <2>3, <1>1, QosOne
<1>5. CASE on
  <2>1. PICK h : h = Hash(t)
    OBVIOUS
  <2>2. PICK w : w = <<"dd", t[2], "ta", h>>
    OBVIOUS
  <2>3. aliasTopic(on, t) = w
    BY <2>1, <2>2, <1>1, <1>3, <1>5, AliasOf
  <2>4. Len(w) = 4 /\ w[2] = t[2] /\ w[3] = "ta"
    BY <2>2, AliasLevels
  <2>5. PICK S : w \in Seq(S)
    <3>1. w \in Seq({"dd", t[2], "ta", h})
      BY <2>2
    <3> QED
      BY <3>1
  <2>6. t[2] # "event"
    BY <1>2, <1>5
  <2>7. \A i \in 2 .. Len(w) - 1 : i = 2 \/ i = 3
    BY <2>4
  <2>8. \A i \in 2 .. Len(w) - 1 : w[i] # "event"
    BY <2>4, <2>6, <2>7
  <2>9. \A i \in 2 .. Len(w) - 1 :
          w[i] = "peer" => w[i + 1] \notin {"heartbeat", "resource", "hub", "auth"}
    BY <2>4, <2>7
  <2> QED
    BY <2>3, <2>5, <2>8, <2>9, QosOne
<1> QED
  BY <1>4, <1>5

(* MqttClient: for all topics, filters and hashes that are one-to-one, the *)
(* aliases bring no subscriber a message of another topic and take none    *)
(* from an exact one, and transfers have QoS 1.                            *)
THEOREM PublishIsSeen == Spec => []PublishReaches
<1>1. Init => PublishReaches
  BY DEF Init, PublishReaches, Asked
<1>2. PublishReaches /\ [Next]_vars => PublishReaches'
  <2> SUFFICES ASSUME PublishReaches, [Next]_vars, Asked("publish")'
               PROVE  PublishReaches'
    BY DEF PublishReaches
  <2>1. CASE UNCHANGED vars
    BY <2>1 DEF vars, PublishReaches, Asked
  <2>2. CASE Next
    <3>1. PICK on \in BOOLEAN, t \in Topic, f \in Filter \cup Topic :
            Ask("publish", [alias |-> on, topic |-> t, filter |-> f], Publish(on, t, f))
      BY <2>2, AskedBy DEF AskPublish
    <3>2. /\ query'.in = [alias |-> on, topic |-> t, filter |-> f]
          /\ answer' = Publish(on, t, f)
      BY <3>1, Recorded
    <3>3. query'.in.alias = on /\ query'.in.topic = t /\ query'.in.filter = f
      BY <3>2
    <3>4. /\ answer'.qos = qosForTopic(aliasTopic(on, t))
          /\ answer'.delivered = BrokerMatches(aliasTopic(on, f), aliasTopic(on, t))
      BY <3>2 DEF Publish
    <3> DEFINE hidden == on /\ IsTransfer(t) /\ Wildcard(f)
               ofEvent == "event" \in {t[i] : i \in 2 .. Len(t) - 1}
    <3>5. ~hidden => (answer'.delivered = BrokerMatches(f, t))
      <4> SUFFICES ASSUME ~hidden
                   PROVE  BrokerMatches(aliasTopic(on, f), aliasTopic(on, t))
                            <=> BrokerMatches(f, t)
        BY <3>4 DEF BrokerMatches
      <4>1. CASE on = FALSE
        BY <4>1, AliasOf
      <4>2. CASE on = TRUE /\ ~Wildcard(f)
        BY <4>2, ExactDelivers
      <4>3. CASE on = TRUE /\ Wildcard(f)
        <5>1. aliasTopic(on, f) = f /\ aliasTopic(on, t) = t
          BY <4>3, AliasOf
        <5> QED
          BY <5>1
      <4> QED
        BY <4>1, <4>2, <4>3
    <3>6. hidden => (answer'.delivered => BrokerMatches(f, t))
      <4> SUFFICES ASSUME hidden, BrokerMatches(aliasTopic(on, f), aliasTopic(on, t))
                   PROVE  BrokerMatches(f, t)
        BY <3>4
      <4>1. on = TRUE
        OBVIOUS
      <4> QED
        BY <4>1, WildDelivers
    <3>7. TransferTopic(t) /\ (~ofEvent \/ (on /\ t[2] # "event")) => answer'.qos = 1
      <4>1. ~ofEvent => \A i \in 2 .. Len(t) - 1 : t[i] # "event"
        OBVIOUS
      <4> QED
        BY <4>1, <3>4, TransferQos
    <3> QED
      BY <3>3, <3>5, <3>6, <3>7, Zenon DEF PublishReaches
  <2> QED
    BY <2>1, <2>2
<1> QED
  BY <1>1, <1>2, PTL DEF Spec
-----------------------------------------------------------------------------
(* Loops: a recursive function over an interval has a value for every      *)
(* number of steps.  The induction is over sets of numbers.                *)

LEMMA LeastNatural ==
  ASSUME NEW T, T \subseteq Nat, T # {}
  PROVE  \E x \in T : \A y \in T : x <= y
<1> DEFINE R == OpToRel(<, Nat)
<1>1. IsWellFoundedOn(R, Nat)
  BY NatLessThanWellFounded, Zenon
<1>2. \A x, y \in Nat : x < y => <<x, y>> \in R
  BY DEF OpToRel
<1> HIDE DEF R
<1>3. PICK x \in T : \A y \in T : ~(<<y, x>> \in R)
  BY <1>1, WFMin
<1>4. ASSUME NEW y \in T
      PROVE  x <= y
  <2>1. x \in Nat /\ y \in Nat
    OBVIOUS
  <2>2. ~(y < x)
    BY <2>1, <1>2, <1>3
  <2> QED
    BY <2>1, <2>2
<1> QED
  BY <1>4

LEMMA IntervalInduction ==
  ASSUME NEW n \in Nat, NEW T, 0 \in T, \A k \in 0 .. n - 1 : k \in T => k + 1 \in T
  PROVE  \A k \in 0 .. n : k \in T
<1> DEFINE Bad == {k \in 0 .. n : k \notin T}
<1> SUFFICES ASSUME Bad # {}
             PROVE  FALSE
  OBVIOUS
<1>1. Bad \subseteq Nat
  OBVIOUS
<1>2. PICK x \in Bad : \A y \in Bad : x <= y
  <2> HIDE DEF Bad
  <2> QED
    BY <1>1, LeastNatural
<1>3. x \in 1 .. n /\ x \notin T
  BY <1>2
<1>4. x - 1 \in 0 .. n - 1 /\ x - 1 \in 0 .. n /\ ~(x <= x - 1)
  BY <1>3
<1>5. x - 1 \in T
  BY <1>2, <1>4
<1>6. (x - 1) + 1 = x
  BY <1>3
<1> QED
  BY <1>3, <1>4, <1>5, <1>6

(* The values a loop starting with a takes in n steps, the i-th being F[i]. *)
Steps(n, S) == [1 .. n -> [S -> S]]
Runs(n, S, a, F) ==
  \E u \in [0 .. n -> S] : u[0] = a /\ \A i \in 1 .. n : u[i] = F[i][u[i - 1]]

LEMMA LoopHasValues ==
  ASSUME NEW n \in Nat, NEW S, NEW a \in S, NEW F \in Steps(n, S)
  PROVE  Runs(n, S, a, F)
<1> USE DEF Steps
<1> DEFINE Run(k, u) == u[0] = a /\ \A i \in 1 .. k : u[i] = F[i][u[i - 1]]
           T == {k \in 0 .. n : \E u \in [0 .. k -> S] : Run(k, u)}
<1>1. 0 \in T
  <2>1. [i \in 0 .. 0 |-> a] \in [0 .. 0 -> S] /\ Run(0, [i \in 0 .. 0 |-> a])
    OBVIOUS
  <2>2. \E u \in [0 .. 0 -> S] : Run(0, u)
    BY <2>1, Zenon
  <2>3. 0 \in 0 .. n
    OBVIOUS
  <2> HIDE DEF Run
  <2> QED
    BY <2>2, <2>3
<1>2. ASSUME NEW k \in 0 .. n - 1, k \in T
      PROVE  k + 1 \in T
  <2>1. PICK u \in [0 .. k -> S] : Run(k, u)
    BY <1>2
  <2> DEFINE v == [i \in 0 .. k + 1 |-> IF i <= k THEN u[i] ELSE F[k + 1][u[k]]]
  <2>2. k + 1 \in 1 .. n /\ k \in 0 .. k
    OBVIOUS
  <2>3. F[k + 1][u[k]] \in S
    BY <2>2
  <2>4. v \in [0 .. k + 1 -> S]
    BY <2>3
  <2>5. v[0] = a
    BY <2>1
  <2>6. ASSUME NEW i \in 1 .. k + 1
        PROVE  v[i] = F[i][v[i - 1]]
    <3>1. CASE i = k + 1
      <4>1. v[k + 1] = F[k + 1][u[k]] /\ v[(k + 1) - 1] = u[k]
        OBVIOUS
      <4> QED
        BY <3>1, <4>1
    <3>2. CASE i \in 1 .. k
      <4>1. v[i] = u[i] /\ v[i - 1] = u[i - 1]
        BY <3>2
      <4>2. u[i] = F[i][u[i - 1]]
        BY <3>2, <2>1
      <4> QED
        BY <4>1, <4>2
    <3> QED
      BY <3>1, <3>2
  <2>7. k + 1 \in 0 .. n
    OBVIOUS
  <2> HIDE DEF v
  <2> QED
    BY <2>4, <2>5, <2>6, <2>7
<1>3. n \in T
  <2>1. \A k \in 0 .. n - 1 : k \in T => k + 1 \in T
    BY <1>2
  <2>2. n \in 0 .. n
    OBVIOUS
  <2> HIDE DEF T
  <2>3. \A k \in 0 .. n : k \in T
    BY <1>1, <2>1, IntervalInduction
  <2> QED
    BY <2>2, <2>3
<1> QED
  BY <1>3 DEF Runs
-----------------------------------------------------------------------------
(* The configuration: the loop over the digits of a number. *)

Reader(s, f) ==
  f = [i \in 0 .. Len(s) |-> IF i = 0 THEN 0 ELSE Wrapped(f[i - 1] * 10 + s[i])]

Counter(s, f) ==
  f = [i \in 0 .. Len(s) |-> IF i = 0 THEN 0 ELSE f[i - 1] * 10 + s[i]]

LEMMA WrappedIsInt ==
  ASSUME NEW n \in Int
  PROVE  Wrapped(n) \in Int
<1>1. MaxInt64 \in Nat
  BY LayersAssumption, Zenon
<1>2. \A m \in Nat : (n + m + 1) % (2 * (m + 1)) \in Int
  OBVIOUS
<1> QED
  BY <1>1, <1>2 DEF Wrapped

LEMMA ReaderRuns ==
  ASSUME NEW s \in Seq(Nat)
  PROVE  \E f : Reader(s, f) /\ f[0] = 0
<1> DEFINE n == Len(s)
           F == [i \in 1 .. n |-> [x \in Int |-> Wrapped(x * 10 + s[i])]]
<1>1. n \in Nat
  OBVIOUS
<1>2. ASSUME NEW i \in 1 .. n, NEW x \in Int
      PROVE  Wrapped(x * 10 + s[i]) \in Int
  <2>1. x * 10 + s[i] \in Int
    OBVIOUS
  <2> QED
    BY <2>1, WrappedIsInt, Zenon
<1>3. PICK u \in [0 .. n -> Int] : u[0] = 0 /\ \A i \in 1 .. n : u[i] = F[i][u[i - 1]]
  <2>1. F \in Steps(n, Int)
    BY <1>2 DEF Steps
  <2> HIDE DEF F, n
  <2>2. 0 \in Int
    OBVIOUS
  <2>3. Runs(n, Int, 0, F)
    BY <2>1, <2>2, <1>1, LoopHasValues, Zenon
  <2> QED
    BY <2>3, Zenon DEF Runs
<1>4. ASSUME NEW i \in 0 .. n
      PROVE  u[i] = IF i = 0 THEN 0 ELSE Wrapped(u[i - 1] * 10 + s[i])
  <2>1. CASE i = 0
    BY <2>1, <1>3
  <2>2. CASE i \in 1 .. n
    <3>1. u[i - 1] \in Int
      BY <2>2
    <3> QED
      BY <3>1, <2>2, <1>3
  <2> QED
    BY <2>1, <2>2
<1>5. u = [i \in 0 .. n |-> u[i]]
  OBVIOUS
<1>6. u = [i \in 0 .. n |-> IF i = 0 THEN 0 ELSE Wrapped(u[i - 1] * 10 + s[i])]
  BY <1>4, <1>5, Zenon
<1>7. Reader(s, u)
  BY <1>6, Zenon DEF Reader
<1> QED
  BY <1>3, <1>7

LEMMA CounterRuns ==
  ASSUME NEW s \in Seq(Nat)
  PROVE  \E f \in [0 .. Len(s) -> Nat] : Counter(s, f)
<1> DEFINE n == Len(s)
           F == [i \in 1 .. n |-> [x \in Nat |-> x * 10 + s[i]]]
<1>1. n \in Nat
  OBVIOUS
<1>3. PICK u \in [0 .. n -> Nat] : u[0] = 0 /\ \A i \in 1 .. n : u[i] = F[i][u[i - 1]]
  <2>1. F \in Steps(n, Nat)
    BY DEF Steps
  <2> HIDE DEF F, n
  <2>2. 0 \in Nat
    OBVIOUS
  <2>3. Runs(n, Nat, 0, F)
    BY <2>1, <2>2, <1>1, LoopHasValues, Zenon
  <2> QED
    BY <2>3, Zenon DEF Runs
<1>4. ASSUME NEW i \in 0 .. n
      PROVE  u[i] = IF i = 0 THEN 0 ELSE u[i - 1] * 10 + s[i]
  <2>1. CASE i = 0
    BY <2>1, <1>3
  <2>2. CASE i \in 1 .. n
    <3>1. u[i - 1] \in Nat
      BY <2>2
    <3> QED
      BY <3>1, <2>2, <1>3
  <2> QED
    BY <2>1, <2>2
<1>5. u = [i \in 0 .. n |-> u[i]]
  OBVIOUS
<1>6. u = [i \in 0 .. n |-> IF i = 0 THEN 0 ELSE u[i - 1] * 10 + s[i]]
  BY <1>4, <1>5, Zenon
<1>7. Counter(s, u)
  BY <1>6, Zenon DEF Counter
<1> QED
  BY <1>7

(* parseInt64 and Number are such loops. *)
LEMMA ReaderFound ==
  ASSUME NEW s \in Seq(Nat)
  PROVE  \E f : /\ Reader(s, f)
                /\ parseInt64(s) = IF \E i \in DOMAIN s : s[i] > 9 THEN 0 ELSE f[Len(s)]
<1> DEFINE g == CHOOSE f : Reader(s, f)
<1>1. Reader(s, g)
  BY ReaderRuns, Zenon
<1>2. parseInt64(s) = IF \E i \in DOMAIN s : s[i] > 9 THEN 0 ELSE g[Len(s)]
  BY Zenon DEF parseInt64, Reader
<1> QED
  BY <1>1, <1>2, Zenon

LEMMA CounterFound ==
  ASSUME NEW s \in Seq(Nat)
  PROVE  \E f \in [0 .. Len(s) -> Nat] : Counter(s, f) /\ Number(s) = f[Len(s)]
<1> DEFINE g == CHOOSE f : Counter(s, f)
<1>1. PICK u \in [0 .. Len(s) -> Nat] : Counter(s, u)
  BY CounterRuns
<1>2. Counter(s, g)
  BY <1>1, Zenon
<1>3. Number(s) = g[Len(s)]
  BY Zenon DEF Number, Counter
<1> DEFINE T == {k \in 0 .. Len(s) : g[k] = u[k]}
<1>4. \A k \in 0 .. Len(s) :
        /\ g[k] = IF k = 0 THEN 0 ELSE g[k - 1] * 10 + s[k]
        /\ u[k] = IF k = 0 THEN 0 ELSE u[k - 1] * 10 + s[k]
  BY <1>1, <1>2, Zenon DEF Counter
<1>5. Len(s) \in Nat
  OBVIOUS
<1> HIDE DEF g
<1>6. 0 \in T
  BY <1>4, <1>5
<1>7. \A k \in 0 .. Len(s) - 1 : k \in T => k + 1 \in T
  <2> SUFFICES ASSUME NEW k \in 0 .. Len(s) - 1, g[k] = u[k]
               PROVE  k + 1 \in T
    OBVIOUS
  <2>1. k + 1 \in 0 .. Len(s) /\ k + 1 # 0 /\ (k + 1) - 1 = k
    BY <1>5
  <2>2. g[k + 1] = g[k] * 10 + s[k + 1] /\ u[k + 1] = u[k] * 10 + s[k + 1]
    BY <2>1, <1>4
  <2>3. g[k + 1] = u[k + 1]
    BY <2>2, Zenon
  <2> QED
    BY <2>1, <2>3, Zenon
<1>8. \A k \in 0 .. Len(s) : k \in T
  <2> HIDE DEF T
  <2> QED
    BY <1>5, <1>6, <1>7, IntervalInduction
<1>9. g[Len(s)] = u[Len(s)]
  BY <1>5, <1>8
<1> QED
  BY <1>1, <1>3, <1>9

(* A number that fits is read as what it is. *)
LEMMA NumberRead ==
  ASSUME NEW s \in Seq(Nat), IsNumber(s), Number(s) <= MaxInt64
  PROVE  parseInt64(s) = Number(s)
<1> DEFINE n == Len(s)
<1>1. n \in Nat /\ DOMAIN s = 1 .. n /\ \A i \in 1 .. n : s[i] \in 0 .. 9
  BY DEF IsNumber
<1>2. MaxInt64 \in Nat
  BY LayersAssumption, Zenon
<1>3. PICK f : Reader(s, f) /\ parseInt64(s) = IF \E i \in DOMAIN s : s[i] > 9 THEN 0 ELSE f[n]
  BY ReaderFound, Zenon
<1>4. PICK g \in [0 .. n -> Nat] : Counter(s, g) /\ Number(s) = g[n]
  BY CounterFound, Zenon
<1>5. parseInt64(s) = f[n]
  <2>1. ASSUME NEW i \in DOMAIN s
        PROVE  ~(s[i] > 9)
    <3>1. s[i] \in 0 .. 9
      BY <1>1
    <3>2. \A x \in 0 .. 9 : ~(x > 9)
      OBVIOUS
    <3> QED
      BY <3>1, <3>2, Zenon
  <2> QED
    BY <2>1, <1>3, Zenon
<1>6. \A k \in 0 .. n :
        /\ f[k] = IF k = 0 THEN 0 ELSE Wrapped(f[k - 1] * 10 + s[k])
        /\ g[k] = IF k = 0 THEN 0 ELSE g[k - 1] * 10 + s[k]
  BY <1>3, <1>4, Zenon DEF Reader, Counter
<1> HIDE DEF n
<1> DEFINE B == {k \in 0 .. n : g[n - k] <= MaxInt64}
           T == {k \in 0 .. n : f[k] = g[k]}
<1>7. \A k \in 0 .. n : g[k] <= MaxInt64
  <2>1. 0 \in B
    BY <1>1, <1>4
  <2>2. \A k \in 0 .. n - 1 : k \in B => k + 1 \in B
    <3> SUFFICES ASSUME NEW k \in 0 .. n - 1, g[n - k] <= MaxInt64
                 PROVE  k + 1 \in B
      OBVIOUS
    <3>1. n - k \in 1 .. n /\ n - k # 0 /\ (n - k) - 1 = n - (k + 1)
          /\ n - (k + 1) \in 0 .. n /\ k + 1 \in 0 .. n
      BY <1>1
    <3>2. g[n - k] = g[n - (k + 1)] * 10 + s[n - k]
      BY <3>1, <1>6
    <3>3. g[n - (k + 1)] \in Nat /\ s[n - k] \in Nat
      BY <3>1, <1>1
    <3> QED
      BY <3>1, <3>2, <3>3, <1>2
  <2>3. \A k \in 0 .. n : k \in B
    <3> HIDE DEF B
    <3> QED
      BY <1>1, <2>1, <2>2, IntervalInduction
  <2> SUFFICES ASSUME NEW k \in 0 .. n
               PROVE  g[k] <= MaxInt64
    OBVIOUS
  <2>4. n - k \in 0 .. n /\ n - (n - k) = k
    BY <1>1
  <2> QED
    BY <2>3, <2>4
<1>8. 0 \in T
  BY <1>1, <1>6
<1>9. \A k \in 0 .. n - 1 : k \in T => k + 1 \in T
  <2> SUFFICES ASSUME NEW k \in 0 .. n - 1, f[k] = g[k]
               PROVE  k + 1 \in T
    OBVIOUS
  <2>1. k + 1 \in 0 .. n /\ k + 1 # 0 /\ (k + 1) - 1 = k
    BY <1>1
  <2>2. f[k + 1] = Wrapped(f[k] * 10 + s[k + 1]) /\ g[k + 1] = g[k] * 10 + s[k + 1]
    BY <2>1, <1>6
  <2>3. f[k + 1] = Wrapped(g[k + 1])
    BY <2>2
  <2>4. g[k + 1] \in 0 .. MaxInt64
    BY <2>1, <1>2, <1>7
  <2>5. Wrapped(g[k + 1]) = g[k + 1]
    BY <2>4, <1>2 DEF Wrapped
  <2> QED
    BY <2>1, <2>3, <2>5
<1>10. \A k \in 0 .. n : k \in T
  <2> HIDE DEF T
  <2> QED
    BY <1>1, <1>8, <1>9, IntervalInduction
<1>11. f[n] = g[n]
  BY <1>1, <1>10
<1> QED
  BY <1>4, <1>5, <1>11

(* A text that is no number is read as 0. *)
LEMMA NoNumberRead ==
  ASSUME NEW s \in Seq(Nat), ~IsNumber(s)
  PROVE  parseInt64(s) = 0
<1>1. PICK f : Reader(s, f) /\ parseInt64(s) = IF \E i \in DOMAIN s : s[i] > 9 THEN 0 ELSE f[Len(s)]
  BY ReaderFound, Zenon
<1>2. CASE \E i \in DOMAIN s : s[i] > 9
  BY <1>1, <1>2
<1>3. CASE ~\E i \in DOMAIN s : s[i] > 9
  <2>0. \A i \in DOMAIN s : s[i] \in Nat
    OBVIOUS
  <2>1. \A i \in DOMAIN s : s[i] \in 0 .. 9
    <3>1. \A x \in Nat : ~(x > 9) => x \in 0 .. 9
      OBVIOUS
    <3> QED
      BY <3>1, <2>0, <1>3, Zenon
  <2>2. s = <<>>
    BY <2>1 DEF IsNumber
  <2>3. Len(s) = 0
    BY <2>2
  <2>4. f[0] = 0
    <3>1. 0 \in 0 .. Len(s)
      BY <2>3
    <3> QED
      BY <3>1, <1>1, Zenon DEF Reader
  <2> QED
    BY <2>3, <2>4, <1>1, <1>3
<1> QED
  BY <1>2, <1>3

(* LoadWithArgs asks the sources from the weakest to the strongest. *)
LEMMA LayersMerged ==
  ASSUME NEW f \in Fields, NEW l, l.json # Broken
  PROVE  LET a == LoadWithArgs(f, l)
             cli == f \in CliFields /\ l.cli # Absent /\ Counts(f, l.cli)
             json == f \notin AuthStrings /\ l.json # Absent /\ Counts(f, l.json)
             env == f \in EnvFields /\ l.env # Absent /\ Counts(f, FromEnv(f, l.env))
             file == l.file \notin {Absent, Broken}
         IN /\ cli => a = l.cli
            /\ ~cli /\ json => a = l.json
            /\ ~cli /\ ~json /\ env => a = FromEnv(f, l.env)
            /\ ~cli /\ ~json /\ ~env /\ file => a = l.file
            /\ ~cli /\ ~json /\ ~env /\ ~file => a = defaultConfig(f)
<1> QED
  BY DEF LoadWithArgs, LoadPath, applyEnvOverrides, mergeInto, applyCliOverrides

(* The numbers that must be positive are, once main or a service has them. *)
LEMMA PositiveNumbers ==
  ASSUME NEW f \in {"broadcast.interval_sec", "broadcast.ttl_sec",
                    "discovery.max_page_size"},
         NEW l \in Layers(f), l.json # Broken
  PROVE  Effective(f, LoadWithArgs(f, l)) > 0
<1>1. f \in Ints /\ f \in Fields
  BY DEF Ints, Fields
<1>2. f \notin EnvFields /\ f \notin CliFields
  BY DEF EnvFields, CliFields, Strings
<1>3. defaultConfig(f) \in Int
  BY DEF defaultConfig
<1>4. l.file \in Int \cup {Absent, Broken} /\ l.json \in Int \cup {Absent, Broken}
  BY <1>1, LayersAssumption, Zenon
<1>5. LoadWithArgs(f, l) \in Int
  BY <1>1, <1>2, <1>3, <1>4, LayersMerged
<1> QED
  BY <1>5 DEF Effective

(* The environment has a value exactly if it counts or cannot be set. *)
LEMMA FromEnvSays ==
  ASSUME NEW f \in Fields, NEW l \in Layers(f), f \in EnvFields, l.env # Absent
  PROVE  /\ ~Mentions(f, l, 3) => ~Counts(f, FromEnv(f, l.env))
         /\ Mentions(f, l, 3) /\ CanSet(f, l, 3)
              => FromEnv(f, l.env) = ValueIn(f, l, 3) /\ Counts(f, FromEnv(f, l.env))
<1>1. CASE f \in Ints
  <2>1. l.env \in Seq(Nat)
    BY <1>1, LayersAssumption, Zenon
  <2>2. FromEnv(f, l.env) = parseInt64(l.env)
    <3>1. f \notin Bools
      BY <1>1 DEF Ints, Bools
    <3> QED
      BY <3>1, <1>1, Zenon DEF FromEnv
  <2>3. Mentions(f, l, 3) <=> IsNumber(l.env)
    BY <1>1 DEF Mentions
  <2>4. ValueIn(f, l, 3) = Number(l.env)
    BY <1>1 DEF ValueIn
  <2>5. CanSet(f, l, 3) => Number(l.env) <= MaxInt64 /\ Counts(f, ValueIn(f, l, 3))
    BY <1>1 DEF CanSet
  <2>6. ~IsNumber(l.env) => ~Counts(f, FromEnv(f, l.env))
    BY <2>1, <2>2, <1>1, NoNumberRead DEF Counts
  <2>7. IsNumber(l.env) /\ CanSet(f, l, 3) => FromEnv(f, l.env) = Number(l.env)
    BY <2>1, <2>2, <2>5, NumberRead, Zenon
  <2> QED
    BY <2>3, <2>4, <2>5, <2>6, <2>7, Zenon
<1>2. CASE f \notin Ints
  <2>1. Mentions(f, l, 3)
    BY <1>2 DEF Mentions
  <2>2. ValueIn(f, l, 3) = FromEnv(f, l.env)
    BY <1>2 DEF ValueIn
  <2>3. CanSet(f, l, 3) => Counts(f, ValueIn(f, l, 3))
    BY DEF CanSet
  <2> QED
    BY <2>1, <2>2, <2>3, Zenon
<1> QED
  BY <1>1, <1>2

(* The conclusion of StrongestSource for one field and its layers. *)
LEMMA StrongestWins ==
  ASSUME NEW f \in Fields, NEW l \in Layers(f), l.json # Broken
  PROVE  /\ \A i \in 1 .. 4 :
              Strongest(f, l, i) /\ CanSet(f, l, i) => LoadWithArgs(f, l) = ValueIn(f, l, i)
         /\ (\A i \in 1 .. 4 : ~Mentions(f, l, i)) => LoadWithArgs(f, l) = defaultConfig(f)
<1> DEFINE a == LoadWithArgs(f, l)
           g1 == f \in CliFields /\ l.cli # Absent /\ Counts(f, l.cli)
           g2 == f \notin AuthStrings /\ l.json # Absent /\ Counts(f, l.json)
           g3 == f \in EnvFields /\ l.env # Absent /\ Counts(f, FromEnv(f, l.env))
           g4 == l.file \notin {Absent, Broken}
<1>1. /\ g1 => a = l.cli
      /\ ~g1 /\ g2 => a = l.json
      /\ ~g1 /\ ~g2 /\ g3 => a = FromEnv(f, l.env)
      /\ ~g1 /\ ~g2 /\ ~g3 /\ g4 => a = l.file
      /\ ~g1 /\ ~g2 /\ ~g3 /\ ~g4 => a = defaultConfig(f)
  BY LayersMerged, Zenon
<1> HIDE DEF a
<1>2. /\ Mentions(f, l, 1) <=> f \in CliFields /\ l.cli # Absent
      /\ Mentions(f, l, 2) <=> l.json # Absent
      /\ Mentions(f, l, 3) => f \in EnvFields /\ l.env # Absent
      /\ Mentions(f, l, 4) <=> g4
  BY DEF Mentions
<1>3. ValueIn(f, l, 1) = l.cli /\ ValueIn(f, l, 2) = l.json /\ ValueIn(f, l, 4) = l.file
  BY DEF ValueIn
<1>4. /\ CanSet(f, l, 1) => Counts(f, ValueIn(f, l, 1))
      /\ CanSet(f, l, 2) => f \notin AuthStrings /\ Counts(f, ValueIn(f, l, 2))
  BY DEF CanSet
<1>5. /\ ~Mentions(f, l, 1) => ~g1
      /\ ~Mentions(f, l, 2) => ~g2
      /\ ~Mentions(f, l, 3) => ~g3
  BY <1>2, FromEnvSays, Zenon
<1>6. /\ Mentions(f, l, 1) /\ CanSet(f, l, 1) => g1
      /\ Mentions(f, l, 2) /\ CanSet(f, l, 2) => g2
      /\ Mentions(f, l, 3) /\ CanSet(f, l, 3) => g3 /\ ValueIn(f, l, 3) = FromEnv(f, l.env)
  BY <1>2, <1>3, <1>4, FromEnvSays, Zenon
<1> HIDE DEF g1, g2, g3, g4
<1>7. ASSUME NEW i \in 1 .. 4, Strongest(f, l, i), CanSet(f, l, i)
      PROVE  a = ValueIn(f, l, i)
  <2>1. Mentions(f, l, i) /\ \A j \in 1 .. i - 1 : ~Mentions(f, l, j)
    BY <1>7 DEF Strongest
  <2>2. CASE i = 1
    BY <2>1, <2>2, <1>1, <1>3, <1>6, <1>7
  <2>3. CASE i = 2
    <3>1. ~Mentions(f, l, 1)
      BY <2>1, <2>3
    <3> QED
      BY <3>1, <2>1, <2>3, <1>1, <1>3, <1>5, <1>6, <1>7
  <2>4. CASE i = 3
    <3>1. ~Mentions(f, l, 1) /\ ~Mentions(f, l, 2)
      BY <2>1, <2>4
    <3> QED
      BY <3>1, <2>1, <2>4, <1>1, <1>5, <1>6, <1>7
  <2>5. CASE i = 4
    <3>1. ~Mentions(f, l, 1) /\ ~Mentions(f, l, 2) /\ ~Mentions(f, l, 3)
      BY <2>1, <2>5
    <3> QED
      BY <3>1, <2>1, <2>5, <1>1, <1>2, <1>3, <1>5
  <2> QED
    BY <2>2, <2>3, <2>4, <2>5
<1>8. ASSUME \A i \in 1 .. 4 : ~Mentions(f, l, i)
      PROVE  a = defaultConfig(f)
  <2>1. /\ ~Mentions(f, l, 1) /\ ~Mentions(f, l, 2)
        /\ ~Mentions(f, l, 3) /\ ~Mentions(f, l, 4)
    BY <1>8
  <2> QED
    BY <2>1, <1>1, <1>2, <1>5
<1> QED
  BY <1>7, <1>8 DEF a

(* LoadWithArgs: flags, inline JSON, environment, file and default, in     *)
(* this order, for every field and whatever the sources say of it, where   *)
(* the strongest has a value it can set; a ticker and a page never get a   *)
(* number that is not positive.                                            *)
THEOREM StrongestIsTaken == Spec => []StrongestSource
<1>1. Init => StrongestSource
  BY DEF Init, StrongestSource, Asked
<1>2. StrongestSource /\ [Next]_vars => StrongestSource'
  <2> SUFFICES ASSUME StrongestSource, [Next]_vars, Asked("config")'
               PROVE  StrongestSource'
    BY DEF StrongestSource
  <2>1. CASE UNCHANGED vars
    BY <2>1 DEF vars, StrongestSource, Asked
  <2>2. CASE Next
    <3>1. PICK f \in Fields : \E in \in Layers(f) :
            Ask("config", [field |-> f, layers |-> in], LoadWithArgs(f, in))
      BY <2>2, AskedBy DEF AskConfig
    <3>2. PICK l \in Layers(f) :
            Ask("config", [field |-> f, layers |-> l], LoadWithArgs(f, l))
      BY <3>1
    <3>3. /\ query'.in = [field |-> f, layers |-> l]
          /\ answer' = LoadWithArgs(f, l)
      BY <3>2, Recorded
    <3>4. query'.in.field = f /\ query'.in.layers = l
      BY <3>3
    <3>5. CASE l.json = Broken
      <4>1. answer' = Broken
        BY <3>3, <3>5 DEF LoadWithArgs
      <4> QED
        BY <4>1, <3>4, <3>5 DEF StrongestSource
    <3>6. CASE l.json # Broken
      <4>1. f \in {"broadcast.interval_sec", "broadcast.ttl_sec",
                   "discovery.max_page_size"} => Effective(f, answer') > 0
        BY <3>3, <3>6, PositiveNumbers
      <4>2. /\ \A i \in 1 .. 4 :
                 Strongest(f, l, i) /\ CanSet(f, l, i) => answer' = ValueIn(f, l, i)
            /\ (\A i \in 1 .. 4 : ~Mentions(f, l, i)) => answer' = defaultConfig(f)
        BY <3>3, <3>6, StrongestWins, Zenon
      <4> QED
        BY <4>1, <4>2, <3>4, <3>6, Zenon DEF StrongestSource
    <3> QED
      BY <3>5, <3>6
  <2> QED
    BY <2>1, <2>2
<1> QED
  BY <1>1, <1>2, PTL DEF Spec
-----------------------------------------------------------------------------
(* Access: the loop over the levels of a pattern. *)

(* One level of the matcher, given the verdict on the levels after it. *)
LevelFits(p, t, i) == i <= Len(t) /\ p[i] \in {"+"} \cup {t[i]}
Level(p, t, i, rest) == p[i] = "#" \/ (LevelFits(p, t, i) /\ rest)

Matcher(p, t, f) ==
  f = [i \in 1 .. Len(p) + 1 |->
         IF i > Len(p) THEN Len(p) = Len(t)
         ELSE \/ p[i] = "#"
              \/ i <= Len(t) /\ p[i] \in {"+"} \cup {t[i]} /\ f[i + 1]]

LEMMA MatcherRuns ==
  ASSUME NEW p \in Seq(STRING), NEW t \in Seq(STRING)
  PROVE  \E f : Matcher(p, t, f)
<1> DEFINE n == Len(p)
           F == [j \in 1 .. n |-> [x \in BOOLEAN |-> Level(p, t, n + 1 - j, x)]]
<1>1. n \in Nat /\ (n = Len(t)) \in BOOLEAN
  OBVIOUS
<1>2. F \in [1 .. n -> [BOOLEAN -> BOOLEAN]]
  BY DEF Level
<1>3. PICK u \in [0 .. n -> BOOLEAN] :
        u[0] = (n = Len(t)) /\ \A j \in 1 .. n : u[j] = F[j][u[j - 1]]
  <2>1. F \in Steps(n, BOOLEAN)
    BY <1>2, Zenon DEF Steps
  <2> HIDE DEF F, n
  <2>2. Runs(n, BOOLEAN, n = Len(t), F)
    BY <2>1, <1>1, LoopHasValues, Zenon
  <2> QED
    BY <2>2, Zenon DEF Runs
<1>4. ASSUME NEW i \in 1 .. n
      PROVE  u[n + 1 - i] = Level(p, t, i, u[n - i])
  <2>1. n + 1 - i \in 1 .. n /\ (n + 1 - i) - 1 = n - i /\ n + 1 - (n + 1 - i) = i
    BY <1>1
  <2>2. u[n - i] \in BOOLEAN
    BY <1>1
  <2>3. u[n + 1 - i] = F[n + 1 - i][u[n - i]]
    BY <2>1, <1>3
  <2>4. F[n + 1 - i][u[n - i]] = Level(p, t, n + 1 - (n + 1 - i), u[n - i])
    BY <2>1, <2>2
  <2> QED
    BY <2>1, <2>3, <2>4
<1> DEFINE f == [i \in 1 .. n + 1 |-> u[n + 1 - i]]
<1>5. ASSUME NEW i \in 1 .. n + 1
      PROVE  f[i] = (IF i > Len(p) THEN Len(p) = Len(t)
                     ELSE \/ p[i] = "#"
                          \/ i <= Len(t) /\ p[i] \in {"+"} \cup {t[i]} /\ f[i + 1])
  <2>1. CASE i = n + 1
    <3>1. f[i] = u[0] /\ i > n
      BY <2>1, <1>1
    <3> QED
      BY <3>1, <1>3
  <2>2. CASE i \in 1 .. n
    <3>1. f[i] = u[n + 1 - i] /\ f[i + 1] = u[n - i] /\ ~(i > n)
      BY <2>2, <1>1
    <3>2. f[i] = Level(p, t, i, f[i + 1])
      BY <2>2, <3>1, <1>4
    <3> QED
      BY <3>1, <3>2 DEF Level, LevelFits
  <2>3. i = n + 1 \/ i \in 1 .. n
    BY <1>1
  <2> QED
    BY <2>1, <2>2, <2>3, Zenon
<1>6. Matcher(p, t, f)
  BY <1>5, Zenon DEF Matcher
<1> QED
  BY <1>6

(* matchMQTTTopic is such a loop. *)
LEMMA MatcherFound ==
  ASSUME NEW p \in Seq(STRING), NEW t \in Seq(STRING)
  PROVE  \E f : Matcher(p, t, f) /\ matchMQTTTopic(p, t) = f[1]
<1> DEFINE g == CHOOSE f : Matcher(p, t, f)
<1>1. Matcher(p, t, g)
  BY MatcherRuns, Zenon
<1>2. matchMQTTTopic(p, t) = g[1]
  BY Zenon DEF matchMQTTTopic, LevelsMatch, Matcher
<1> QED
  BY <1>1, <1>2, Zenon
(* What the loop says of the levels from the i-th on. *)
LEMMA MatcherSays ==
  ASSUME NEW p \in Seq(STRING), NEW t \in Seq(STRING), NEW f, Matcher(p, t, f),
         \A j \in 1 .. Len(p) - 1 : p[j] # "#"
  PROVE  \A k \in 0 .. Len(p) :
           f[Len(p) + 1 - k] <=>
             IF k > 0 /\ p[Len(p)] = "#"
             THEN \A j \in Len(p) + 1 - k .. Len(p) - 1 : LevelFits(p, t, j)
             ELSE Len(p) = Len(t) /\ \A j \in Len(p) + 1 - k .. Len(p) : LevelFits(p, t, j)
<1> DEFINE n == Len(p)
           Says(k) == f[n + 1 - k] <=>
             IF k > 0 /\ p[n] = "#"
             THEN \A j \in n + 1 - k .. n - 1 : LevelFits(p, t, j)
             ELSE n = Len(t) /\ \A j \in n + 1 - k .. n : LevelFits(p, t, j)
           T == {k \in 0 .. n : Says(k)}
<1>1. n \in Nat
  OBVIOUS
<1>2. \A i \in 1 .. n + 1 :
        f[i] = IF i > n THEN n = Len(t) ELSE Level(p, t, i, f[i + 1])
  BY Zenon DEF Matcher, Level, LevelFits
<1>3. 0 \in T
  <2>1. f[n + 1] = (n = Len(t))
    BY <1>1, <1>2
  <2>2. \A j \in n + 1 - 0 .. n : FALSE
    BY <1>1
  <2>3. n + 1 - 0 = n + 1 /\ ~(0 > 0) /\ 0 \in 0 .. n
    BY <1>1
  <2> QED
    BY <2>1, <2>2, <2>3
<1>4. ASSUME NEW k \in 0 .. n - 1, k \in T
      PROVE  k + 1 \in T
  <2> DEFINE i == n - k
  <2>1. i \in 1 .. n /\ i \in 1 .. n + 1 /\ ~(i > n) /\ i + 1 = n + 1 - k
        /\ n + 1 - (k + 1) = i /\ k + 1 > 0 /\ k + 1 \in 0 .. n
    BY <1>1
  <2>2. f[i] <=> Level(p, t, i, f[i + 1])
    BY <2>1, <1>2
  <2>3. Says(k)
    BY <1>4
  <2> HIDE DEF i
  <2>4. CASE i = n /\ p[n] = "#"
    <3>1. f[i]
      BY <2>2, <2>4 DEF Level
    <3>2. \A j \in i .. n - 1 : FALSE
      BY <2>4, <1>1
    <3>3. Says(k + 1)
      BY <3>1, <3>2, <2>1, <2>4
    <3> QED
      BY <3>3, <2>1
  <2>5. CASE i # n /\ p[n] = "#"
    <3>1. k > 0 /\ p[i] # "#"
      BY <2>1, <2>5, <1>1
    <3>2. f[i + 1] <=> \A j \in i + 1 .. n - 1 : LevelFits(p, t, j)
      BY <2>1, <2>3, <2>5, <3>1
    <3>3. f[i] <=> LevelFits(p, t, i) /\ \A j \in i + 1 .. n - 1 : LevelFits(p, t, j)
      BY <2>2, <3>1, <3>2 DEF Level
    <3>4. i .. n - 1 = {i} \cup (i + 1 .. n - 1)
      BY <2>1, <2>5, <1>1
    <3>5. Says(k + 1)
      BY <3>3, <3>4, <2>1, <2>5
    <3> QED
      BY <3>5, <2>1
  <2>6. CASE p[n] # "#"
    <3>1. p[i] # "#"
      BY <2>1, <2>6, <1>1
    <3>2. f[i + 1] <=> n = Len(t) /\ \A j \in i + 1 .. n : LevelFits(p, t, j)
      BY <2>1, <2>3, <2>6
    <3>3. f[i] <=> LevelFits(p, t, i) /\ n = Len(t) /\ \A j \in i + 1 .. n : LevelFits(p, t, j)
      BY <2>2, <3>1, <3>2 DEF Level
    <3>4. i .. n = {i} \cup (i + 1 .. n)
      BY <2>1, <1>1
    <3>5. Says(k + 1)
      BY <3>3, <3>4, <2>1, <2>6
    <3> QED
      BY <3>5, <2>1
  <2> QED
    BY <2>4, <2>5, <2>6
<1>5. \A k \in 0 .. n : k \in T
  <2>1. \A k \in 0 .. n - 1 : k \in T => k + 1 \in T
    BY <1>4
  <2> HIDE DEF T
  <2> QED
    BY <1>1, <1>3, <2>1, IntervalInduction
<1> QED
  BY <1>5

(* The access rules read patterns as the broker does. *)
LEMMA MatcherIsBroker ==
  ASSUME NEW p \in Seq(STRING), NEW t \in Seq(STRING),
         \A j \in 1 .. Len(p) - 1 : p[j] # "#"
  PROVE  matchMQTTTopic(p, t) <=> BrokerMatches(p, t)
<1> DEFINE n == Len(p)
<1>1. n \in Nat /\ Len(t) \in Nat
  OBVIOUS
<1>2. PICK f : Matcher(p, t, f) /\ matchMQTTTopic(p, t) = f[1]
  BY MatcherFound
<1>3. f[n + 1 - n] <=>
        IF n > 0 /\ p[n] = "#"
        THEN \A j \in n + 1 - n .. n - 1 : LevelFits(p, t, j)
        ELSE n = Len(t) /\ \A j \in n + 1 - n .. n : LevelFits(p, t, j)
  BY <1>1, <1>2, MatcherSays
<1>4. n + 1 - n = 1
  BY <1>1
<1>5. f[1] <=> BrokerMatches(p, t)
  <2>1. CASE n > 0 /\ p[n] = "#"
    <3>1. f[1] <=> \A j \in 1 .. n - 1 : LevelFits(p, t, j)
      BY <2>1, <1>3, <1>4
    <3>2. (\A j \in 1 .. n - 1 : LevelFits(p, t, j)) <=>
            Len(t) >= n - 1 /\ \A j \in 1 .. n - 1 : p[j] \in {"+", t[j]}
      <4>1. ASSUME \A j \in 1 .. n - 1 : LevelFits(p, t, j)
            PROVE  Len(t) >= n - 1
        <5>1. CASE n = 1
          BY <5>1, <1>1
        <5>2. CASE n > 1
          <6>1. n - 1 \in 1 .. n - 1
            BY <5>2, <1>1
          <6> QED
            BY <6>1, <4>1, <1>1 DEF LevelFits
        <5> QED
          BY <5>1, <5>2, <2>1, <1>1
      <4> QED
        BY <4>1, <1>1 DEF LevelFits
    <3> QED
      BY <3>1, <3>2, <2>1 DEF BrokerMatches
  <2>2. CASE ~(n > 0 /\ p[n] = "#")
    <3>1. f[1] <=> n = Len(t) /\ \A j \in 1 .. n : LevelFits(p, t, j)
      BY <2>2, <1>3, <1>4
    <3>2. n = Len(t) =>
            ((\A j \in 1 .. n : LevelFits(p, t, j)) <=> \A j \in 1 .. n : p[j] \in {"+", t[j]})
      BY <1>1 DEF LevelFits
    <3> QED
      BY <3>1, <3>2, <2>2 DEF BrokerMatches
  <2> QED
    BY <2>1, <2>2
<1> QED
  BY <1>2, <1>5
-----------------------------------------------------------------------------
(* Access: the loop over the rules. *)

(* Rule r is about this peer, action and topic. *)
Applies(r, peer, action, topic) ==
  /\ r.peer = peer /\ r.action = action
  /\ matchMQTTTopic(r.pattern, topic)

Verdicts == {"not allowed", "allowed", "denied"}

(* The verdict after rule r, with x before it. *)
AfterRule(r, peer, action, topic, x) ==
  IF x = "denied" \/ ~Applies(r, peer, action, topic) THEN x
  ELSE IF r.allow THEN "allowed" ELSE "denied"

Judge(rules, peer, action, topic, f) ==
  f = [i \in 0 .. Len(rules) |->
         IF i = 0 THEN "not allowed"
         ELSE IF f[i - 1] = "denied" \/ ~(/\ rules[i].peer = peer /\ rules[i].action = action
                                          /\ matchMQTTTopic(rules[i].pattern, topic))
              THEN f[i - 1]
              ELSE IF rules[i].allow THEN "allowed" ELSE "denied"]

LEMMA JudgeRuns ==
  ASSUME NEW R, NEW rules \in Seq(R), NEW peer, NEW action, NEW topic
  PROVE  \E f : Judge(rules, peer, action, topic, f)
<1> DEFINE n == Len(rules)
           After(i, x) == AfterRule(rules[i], peer, action, topic, x)
           F == [i \in 1 .. n |-> [x \in Verdicts |-> After(i, x)]]
<1>0. "not allowed" \in Verdicts
  BY DEF Verdicts
<1>1. n \in Nat
  OBVIOUS
<1>2. \A i \in 1 .. n : \A x \in Verdicts : After(i, x) \in Verdicts
  BY DEF Verdicts, AfterRule
<1> HIDE DEF After
<1>3. PICK u \in [0 .. n -> Verdicts] :
        u[0] = "not allowed" /\ \A i \in 1 .. n : u[i] = F[i][u[i - 1]]
  <2>1. F \in Steps(n, Verdicts)
    BY <1>2 DEF Steps
  <2> HIDE DEF F, n
  <2>2. Runs(n, Verdicts, "not allowed", F)
    BY <2>1, <1>0, <1>1, LoopHasValues, Zenon
  <2> QED
    BY <2>2, Zenon DEF Runs
<1>4. ASSUME NEW i \in 1 .. n
      PROVE  u[i] = After(i, u[i - 1])
  <2>1. i - 1 \in 0 .. n
    BY <1>1
  <2> QED
    BY <2>1, <1>3
<1>5. ASSUME NEW i \in 0 .. n
      PROVE  u[i] = IF i = 0 THEN "not allowed" ELSE After(i, u[i - 1])
  <2>1. i = 0 \/ i \in 1 .. n
    BY <1>1
  <2> QED
    BY <2>1, <1>3, <1>4
<1>6. u = [i \in 0 .. n |-> u[i]]
  OBVIOUS
<1>7. u = [i \in 0 .. n |-> IF i = 0 THEN "not allowed" ELSE After(i, u[i - 1])]
  BY <1>5, <1>6, Zenon
<1>8. Judge(rules, peer, action, topic, u)
  BY <1>7, Zenon DEF Judge, After, AfterRule, Applies
<1> QED
  BY <1>8

(* Authorize is such a loop. *)
LEMMA JudgeFound ==
  ASSUME NEW R, NEW rules \in Seq(R), NEW peer, NEW action, NEW topic
  PROVE  \E f : /\ Judge(rules, peer, action, topic, f)
                /\ Authorize(rules, peer, action, topic) = (f[Len(rules)] = "allowed")
<1> DEFINE g == CHOOSE f : Judge(rules, peer, action, topic, f)
<1>1. Judge(rules, peer, action, topic, g)
  BY JudgeRuns, Zenon
<1>2. Authorize(rules, peer, action, topic) = (g[Len(rules)] = "allowed")
  BY Zenon DEF Authorize, Judge
<1> QED
  BY <1>1, <1>2, Zenon

(* What the loop says after k rules. *)
LEMMA JudgeSays ==
  ASSUME NEW R, NEW rules \in Seq(R), NEW peer, NEW action, NEW topic,
         \A i \in 1 .. Len(rules) : rules[i].allow \in BOOLEAN,
         NEW f, Judge(rules, peer, action, topic, f)
  PROVE  f[Len(rules)] = "allowed" <=>
           /\ \E i \in 1 .. Len(rules) : Applies(rules[i], peer, action, topic)
           /\ \A i \in 1 .. Len(rules) :
                Applies(rules[i], peer, action, topic) => rules[i].allow
<1> DEFINE n == Len(rules)
           A(i) == Applies(rules[i], peer, action, topic)
           L(i) == rules[i].allow
           Some(k) == \E i \in 1 .. k : A(i)
           All(k) == \A i \in 1 .. k : A(i) => L(i)
           Says(k) == /\ f[k] = "denied" <=> ~All(k)
                      /\ f[k] = "allowed" <=> (Some(k) /\ All(k))
           T == {k \in 0 .. n : Says(k)}
<1>1. n \in Nat
  OBVIOUS
<1>2. \A i \in 0 .. n :
        f[i] = IF i = 0 THEN "not allowed"
               ELSE IF f[i - 1] = "denied" \/ ~A(i) THEN f[i - 1]
               ELSE IF L(i) THEN "allowed" ELSE "denied"
  BY Zenon DEF Judge, Applies
<1> HIDE DEF A, L
<1>3. 0 \in T
  <2>1. 0 \in 0 .. n
    BY <1>1
  <2>2. f[0] = "not allowed"
    BY <2>1, <1>2, Zenon
  <2>3. All(0) /\ ~Some(0)
    OBVIOUS
  <2> HIDE DEF All, Some
  <2>4. Says(0)
    BY <2>2, <2>3
  <2> HIDE DEF Says
  <2> QED
    BY <2>1, <2>4
<1>4. ASSUME NEW k \in 0 .. n - 1, k \in T
      PROVE  k + 1 \in T
  <2>1. k + 1 \in 0 .. n /\ k + 1 # 0 /\ (k + 1) - 1 = k /\ k + 1 \in 1 .. n
    BY <1>1
  <2>2. f[k + 1] = IF f[k] = "denied" \/ ~A(k + 1) THEN f[k]
                   ELSE IF L(k + 1) THEN "allowed" ELSE "denied"
    BY <2>1, <1>2
  <2>3. Says(k)
    BY <1>4
  <2>4. 1 .. k + 1 = (1 .. k) \cup {k + 1}
    BY <1>1
  <2>5. All(k + 1) <=> (All(k) /\ (A(k + 1) => L(k + 1)))
    BY <2>4
  <2>6. Some(k + 1) <=> (Some(k) \/ A(k + 1))
    BY <2>4
  <2> HIDE DEF All, Some
  <2>7. Says(k + 1)
    BY <2>2, <2>3, <2>5, <2>6
  <2> QED
    BY <2>1, <2>7
<1>5. n \in T
  <2>1. \A k \in 0 .. n - 1 : k \in T => k + 1 \in T
    BY <1>4
  <2>2. n \in 0 .. n
    BY <1>1
  <2> HIDE DEF T
  <2>3. \A k \in 0 .. n : k \in T
    BY <1>1, <1>3, <2>1, IntervalInduction
  <2> QED
    BY <2>2, <2>3
<1>6. Says(n)
  BY <1>5
<1> QED
  BY <1>6 DEF A, L

(* What Authorize decides: some rule applies, and all that do allow. *)
LEMMA AuthorizeDecides ==
  ASSUME NEW rules \in RuleSets, NEW peer, NEW action, NEW topic \in Topic
  PROVE  LET applying == {r \in {rules[i] : i \in DOMAIN rules} :
                            /\ r.peer = peer /\ r.action = action
                            /\ BrokerMatches(r.pattern, topic)}
         IN Authorize(rules, peer, action, topic)
              = (applying # {} /\ \A r \in applying : r.allow)
<1> DEFINE applying == {r \in {rules[i] : i \in DOMAIN rules} :
                          /\ r.peer = peer /\ r.action = action
                          /\ BrokerMatches(r.pattern, topic)}
           n == Len(rules)
           A(i) == Applies(rules[i], peer, action, topic)
<1>1. /\ rules \in Seq({rules[i] : i \in DOMAIN rules})
      /\ \A i \in DOMAIN rules :
           /\ rules[i].allow \in BOOLEAN /\ rules[i].pattern \in Seq(STRING)
           /\ \A j \in 1 .. Len(rules[i].pattern) - 1 : rules[i].pattern[j] # "#"
  BY RulesAssumption
<1>2. PICK R : rules \in Seq(R)
  BY <1>1
<1>3. DOMAIN rules = 1 .. n
  BY <1>2
<1>4. topic \in Seq(STRING)
  BY TopicAssumption DEF ExactTopic
<1>5. PICK f : /\ Judge(rules, peer, action, topic, f)
               /\ Authorize(rules, peer, action, topic) = (f[n] = "allowed")
  BY <1>2, JudgeFound
<1>6. f[n] = "allowed" <=>
        (\E i \in 1 .. n : A(i)) /\ \A i \in 1 .. n : A(i) => rules[i].allow
  <2>1. \A i \in 1 .. Len(rules) : rules[i].allow \in BOOLEAN
    BY <1>1, <1>3, Zenon
  <2>2. Judge(rules, peer, action, topic, f)
    BY <1>5
  <2> QED
    BY <2>1, <2>2, <1>2, JudgeSays, Zenon
<1>7. ASSUME NEW i \in 1 .. n
      PROVE  A(i) <=> rules[i] \in applying
  <2>1. matchMQTTTopic(rules[i].pattern, topic) <=> BrokerMatches(rules[i].pattern, topic)
    BY <1>1, <1>3, <1>4, MatcherIsBroker
  <2> QED
    BY <2>1, <1>3 DEF Applies
<1>8. \A r \in applying : \E i \in 1 .. n : r = rules[i]
  BY <1>3
<1> HIDE DEF applying, A
<1>9. (\E i \in 1 .. n : A(i)) <=> applying # {}
  BY <1>7, <1>8
<1>10. (\A i \in 1 .. n : A(i) => rules[i].allow) <=> \A r \in applying : r.allow
  BY <1>7, <1>8
<1> QED
  BY <1>5, <1>6, <1>9, <1>10, Zenon DEF applying

(* TopicAclService: where no rule is for the peer "*", Authorize allows    *)
(* what some rule allows and no rule denies, for every sequence of rules,  *)
(* in whatever order and however long, with patterns read as the broker    *)
(* reads them.                                                             *)
THEOREM DenialOverrides == Spec => []DenyOverrides
<1>1. Init => DenyOverrides
  BY DEF Init, DenyOverrides, Asked
<1>2. DenyOverrides /\ [Next]_vars => DenyOverrides'
  <2> SUFFICES ASSUME DenyOverrides, [Next]_vars, Asked("acl")'
               PROVE  DenyOverrides'
    BY DEF DenyOverrides
  <2>1. CASE UNCHANGED vars
    BY <2>1 DEF vars, DenyOverrides, Asked
  <2>2. CASE Next
    <3>1. PICK r \in RuleSets, p \in Caller, a \in {"pub", "sub"}, t \in Topic :
            Ask("acl", [rules |-> r, peer |-> p, action |-> a, topic |-> t],
                Authorize(r, p, a, t))
      BY <2>2, AskedBy DEF AskAcl
    <3>2. /\ query'.in = [rules |-> r, peer |-> p, action |-> a, topic |-> t]
          /\ answer' = Authorize(r, p, a, t)
      BY <3>1, Recorded
    <3>3. /\ query'.in.rules = r /\ query'.in.peer = p
          /\ query'.in.action = a /\ query'.in.topic = t
      BY <3>2
    <3> DEFINE applying == {x \in {r[i] : i \in DOMAIN r} :
                              /\ x.peer = p /\ x.action = a
                              /\ BrokerMatches(x.pattern, t)}
    <3>4. Authorize(r, p, a, t) = (applying # {} /\ \A x \in applying : x.allow)
      BY AuthorizeDecides
    <3>5. applying = {x \in {query'.in.rules[i] : i \in DOMAIN query'.in.rules} :
                        /\ x.peer = query'.in.peer /\ x.action = query'.in.action
                        /\ BrokerMatches(x.pattern, query'.in.topic)}
      BY <3>3
    <3> HIDE DEF applying
    <3>6. answer' = (applying # {} /\ \A x \in applying : x.allow)
      BY <3>2, <3>4, Zenon
    <3> QED
      BY <3>5, <3>6, Zenon DEF DenyOverrides, RulesFor
  <2> QED
    BY <2>1, <2>2
<1> QED
  BY <1>1, <1>2, PTL DEF Spec
=============================================================================
