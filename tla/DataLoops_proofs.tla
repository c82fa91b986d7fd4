-------------------------- MODULE DataLoops_proofs --------------------------
(***************************************************************************)
(* The decisions of dd-core that a loop over data makes: the filters and   *)
(* the pages of a peer list, the options and the payload of a CoAP packet, *)
(* and the schema that the providers of a resource have in common.  Every  *)
(* loop is a recursive function: a lemma shows that the function exists, a *)
(* second one what it says after each step, by induction over sets of      *)
(* numbers.                                                                *)
(***************************************************************************)
EXTENDS Decisions_proofs, FiniteSetTheorems

-----------------------------------------------------------------------------
(* Filters. *)

KeptLoop(s, S, f) ==
  f = [i \in 0 .. Len(s) |->
         IF i = 0 THEN <<>>
         ELSE IF s[i] \in S THEN Append(f[i - 1], s[i]) ELSE f[i - 1]]

(* The list after peer e, with x before it. *)
AfterPeer(e, S, x) == IF e \in S THEN Append(x, e) ELSE x

LEMMA KeptRuns ==
  ASSUME NEW R, NEW s \in Seq(R), NEW S
  PROVE  \E f : KeptLoop(s, S, f)
<1> DEFINE n == Len(s)
           After(i, x) == AfterPeer(s[i], S, x)
           F == [i \in 1 .. n |-> [x \in Seq(R) |-> After(i, x)]]
<1>0. <<>> \in Seq(R)
  OBVIOUS
<1>1. n \in Nat
  OBVIOUS
<1>2. \A i \in 1 .. n : \A x \in Seq(R) : After(i, x) \in Seq(R)
  BY DEF AfterPeer
<1> HIDE DEF After
<1>3. PICK u \in [0 .. n -> Seq(R)] :
        u[0] = <<>> /\ \A i \in 1 .. n : u[i] = F[i][u[i - 1]]
  <2>1. F \in Steps(n, Seq(R))
    BY <1>2, Zenon DEF Steps
  <2> HIDE DEF F, n
  <2>2. Runs(n, Seq(R), <<>>, F)
    BY <2>1, <1>0, <1>1, LoopHasValues, Zenon
  <2> QED
    BY <2>2, Zenon DEF Runs
<1>4. ASSUME NEW i \in 1 .. n
      PROVE  u[i] = After(i, u[i - 1])
  <2>1. i - 1 \in 0 .. n
    BY <1>1
  <2>2. u[i - 1] \in Seq(R)
    BY <2>1, Zenon
  <2> QED
    BY <2>2, <1>3, Zenon
<1>5. ASSUME NEW i \in 0 .. n
      PROVE  u[i] = IF i = 0 THEN <<>> ELSE After(i, u[i - 1])
  <2>1. i = 0 \/ i \in 1 .. n
    BY <1>1
  <2> QED
    BY <2>1, <1>3, <1>4, Zenon
<1>6. u = [i \in 0 .. n |-> u[i]]
  OBVIOUS
<1>7. u = [i \in 0 .. n |-> IF i = 0 THEN <<>> ELSE After(i, u[i - 1])]
  BY <1>5, <1>6, Zenon
<1>8. KeptLoop(s, S, u)
  BY <1>7, Zenon DEF KeptLoop, After, AfterPeer
<1> QED
  BY <1>8

LEMMA KeptFound ==
  ASSUME NEW R, NEW s \in Seq(R), NEW S
  PROVE  \E f : KeptLoop(s, S, f) /\ Kept(s, S) = f[Len(s)]
<1> DEFINE g == CHOOSE f : KeptLoop(s, S, f)
<1>1. KeptLoop(s, S, g)
  BY KeptRuns, Zenon
<1>2. Kept(s, S) = g[Len(s)]
  BY Zenon DEF Kept, KeptLoop
<1> QED
  BY <1>1, <1>2, Zenon

LEMMA KeptSteps ==
  ASSUME NEW R, NEW s \in Seq(R), NEW S, NEW f, KeptLoop(s, S, f)
  PROVE  /\ f[0] = <<>>
         /\ \A k \in 0 .. Len(s) - 1 :
              f[k + 1] = IF s[k + 1] \in S THEN Append(f[k], s[k + 1]) ELSE f[k]
<1>1. Len(s) \in Nat
  OBVIOUS
<1>2. \A i \in 0 .. Len(s) :
        f[i] = IF i = 0 THEN <<>>
               ELSE IF s[i] \in S THEN Append(f[i - 1], s[i]) ELSE f[i - 1]
  BY Zenon DEF KeptLoop
<1>3. f[0] = <<>>
  <2>1. 0 \in 0 .. Len(s)
    BY <1>1
  <2> QED
    BY <2>1, <1>2, Zenon
<1>4. ASSUME NEW k \in 0 .. Len(s) - 1
      PROVE  f[k + 1] = IF s[k + 1] \in S THEN Append(f[k], s[k + 1]) ELSE f[k]
  <2>1. k + 1 \in 0 .. Len(s) /\ k + 1 # 0 /\ (k + 1) - 1 = k
    BY <1>1
  <2>2. f[k + 1] = IF k + 1 = 0 THEN <<>>
                   ELSE IF s[k + 1] \in S
                        THEN Append(f[(k + 1) - 1], s[k + 1]) ELSE f[(k + 1) - 1]
    BY <2>1, <1>2, Zenon
  <2> QED
    BY <2>1, <2>2, Zenon
<1> QED
  BY <1>3, <1>4

(* What is kept is no longer than the list. *)
LEMMA KeptTyped ==
  ASSUME NEW R, NEW s \in Seq(R), NEW S, NEW f, KeptLoop(s, S, f)
  PROVE  \A k \in 0 .. Len(s) : f[k] \in Seq(R) /\ Len(f[k]) <= k
<1> DEFINE n == Len(s)
           T == {k \in 0 .. n : f[k] \in Seq(R) /\ Len(f[k]) <= k}
<1>1. n \in Nat
  OBVIOUS
<1>2. /\ f[0] = <<>>
      /\ \A k \in 0 .. n - 1 :
           f[k + 1] = IF s[k + 1] \in S THEN Append(f[k], s[k + 1]) ELSE f[k]
  BY KeptSteps
<1>3. 0 \in T
  <2>1. <<>> \in Seq(R) /\ Len(<<>>) = 0
    OBVIOUS
  <2>2. f[0] \in Seq(R) /\ Len(f[0]) = 0
    BY <2>1, <1>2, Zenon
  <2>3. 0 \in 0 .. n
    BY <1>1
  <2> QED
    BY <2>2, <2>3
<1>4. ASSUME NEW k \in 0 .. n - 1, k \in T
      PROVE  k + 1 \in T
  <2>1. k \in Nat /\ k + 1 \in 0 .. n /\ s[k + 1] \in R
    BY <1>1
  <2>2. PICK x \in Seq(R) : x = f[k] /\ Len(x) <= k
    BY <1>4
  <2>3. PICK e \in R : e = s[k + 1]
    BY <2>1
  <2>4. f[k + 1] = x \/ f[k + 1] = Append(x, e)
    BY <1>2, <2>2, <2>3, Zenon
  <2>5. Append(x, e) \in Seq(R) /\ Len(Append(x, e)) = Len(x) + 1 /\ Len(x) \in Nat
    OBVIOUS
  <2>6. f[k + 1] \in Seq(R) /\ Len(f[k + 1]) <= k + 1
    <3>1. CASE f[k + 1] = x
      <4>1. Len(x) <= k + 1
        BY <2>1, <2>2, <2>5
      <4> QED
        BY <3>1, <4>1, Zenon
    <3>2. CASE f[k + 1] = Append(x, e)
      <4>1. Len(Append(x, e)) <= k + 1
        BY <2>1, <2>2, <2>5
      <4> QED
        BY <3>2, <2>5, <4>1, Zenon
    <3> QED
      BY <3>1, <3>2, <2>4
  <2> QED
    BY <2>1, <2>6
<1>5. \A k \in 0 .. n : k \in T
  <2>1. \A k \in 0 .. n - 1 : k \in T => k + 1 \in T
    BY <1>4
  <2> HIDE DEF T
  <2> QED
    BY <1>1, <1>3, <2>1, IntervalInduction
<1> QED
  BY <1>5

LEMMA KeptIsList ==
  ASSUME NEW R, NEW s \in Seq(R), NEW S
  PROVE  Kept(s, S) \in Seq(R) /\ Len(Kept(s, S)) <= Len(s)
<1>1. PICK f : KeptLoop(s, S, f) /\ Kept(s, S) = f[Len(s)]
  BY KeptFound
<1>2. Len(s) \in 0 .. Len(s)
  OBVIOUS
<1> QED
  BY <1>1, <1>2, KeptTyped

(* A filter keeps the peers that are in S, each as often as it is there. *)
LEMMA AppendMembers ==
  ASSUME NEW R, NEW x \in Seq(R), NEW e \in R
  PROVE  PeersOf(Append(x, e)) = PeersOf(x) \cup {e}
<1>1. /\ Len(x) \in Nat /\ DOMAIN x = 1 .. Len(x)
      /\ DOMAIN Append(x, e) = 1 .. Len(x) + 1
      /\ Append(x, e)[Len(x) + 1] = e
      /\ \A i \in 1 .. Len(x) : Append(x, e)[i] = x[i]
  OBVIOUS
<1>2. 1 .. Len(x) + 1 = (1 .. Len(x)) \cup {Len(x) + 1}
  BY <1>1
<1> QED
  BY <1>1, <1>2, Zenon DEF PeersOf

Counted(s, S, x, k) ==
  LET I == {i \in 1 .. k : s[i] \in S}
  IN  /\ IsFiniteSet(I) /\ Len(x) = Cardinality(I)
      /\ PeersOf(x) = {s[i] : i \in I}

LEMMA KeptCounts ==
  ASSUME NEW R, NEW s \in Seq(R), NEW S, NEW f, KeptLoop(s, S, f)
  PROVE  \A k \in 0 .. Len(s) : Counted(s, S, f[k], k)
<1> DEFINE n == Len(s)
           I(k) == {i \in 1 .. k : s[i] \in S}
           Q(k) == /\ IsFiniteSet(I(k)) /\ Len(f[k]) = Cardinality(I(k))
                   /\ PeersOf(f[k]) = {s[i] : i \in I(k)}
           T == {k \in 0 .. n : Q(k)}
<1>1. n \in Nat
  OBVIOUS
<1>2. /\ f[0] = <<>>
      /\ \A k \in 0 .. n - 1 :
           f[k + 1] = IF s[k + 1] \in S THEN Append(f[k], s[k + 1]) ELSE f[k]
  BY KeptSteps
<1>3. 0 \in T
  <2>1. 0 \in 0 .. n /\ I(0) = {}
    BY <1>1
  <2>2. Len(<<>>) = 0 /\ PeersOf(<<>>) = {}
    BY DEF PeersOf
  <2>3. IsFiniteSet({}) /\ Cardinality({}) = 0
    BY FS_EmptySet
  <2>4. {s[i] : i \in {}} = {}
    OBVIOUS
  <2> HIDE DEF I
  <2>5. Q(0)
    BY <2>1, <2>2, <2>3, <2>4, <1>2, Zenon
  <2> QED
    BY <2>1, <2>5, Zenon
<1>4. ASSUME NEW k \in 0 .. n - 1, k \in T
      PROVE  k + 1 \in T
  <2>1. k \in Nat /\ k + 1 \in 0 .. n /\ k + 1 \in 1 .. n /\ k \in 0 .. n
    BY <1>1
  <2>2. Q(k)
    BY <1>4, Zenon
  <2>3. PICK x \in Seq(R) : x = f[k]
    BY <2>1, KeptTyped, Zenon
  <2>4. PICK e \in R : e = s[k + 1]
    BY <2>1, ElementOfSeq
  <2>5. CASE e \in S
    <3>1. f[k + 1] = Append(x, e)
      BY <2>3, <2>4, <2>5, <1>2, Zenon
    <3>2. I(k + 1) = I(k) \cup {k + 1} /\ k + 1 \notin I(k)
      BY <2>1, <2>4, <2>5
    <3> HIDE DEF I
    <3>3. IsFiniteSet(I(k + 1)) /\ Cardinality(I(k + 1)) = Cardinality(I(k)) + 1
      BY <2>2, <3>2, FS_AddElement
    <3>4. Len(Append(x, e)) = Len(x) + 1
      OBVIOUS
    <3>5. Len(f[k + 1]) = Cardinality(I(k + 1))
      BY <2>2, <2>3, <3>1, <3>3, <3>4, Zenon
    <3>6. PeersOf(f[k + 1]) = PeersOf(x) \cup {e}
      <4>1. PeersOf(Append(x, e)) = PeersOf(x) \cup {e}
        BY AppendMembers
      <4> QED
        BY <3>1, <4>1, Zenon
    <3>7. {s[i] : i \in I(k + 1)} = {s[i] : i \in I(k)} \cup {e}
      BY <2>4, <3>2, Zenon
    <3>8. Q(k + 1)
      BY <2>2, <2>3, <3>3, <3>5, <3>6, <3>7, Zenon
    <3> QED
      BY <2>1, <3>8, Zenon
  <2>6. CASE e \notin S
    <3>1. f[k + 1] = f[k]
      BY <2>4, <2>6, <1>2, Zenon
    <3>2. I(k + 1) = I(k)
      BY <2>1, <2>4, <2>6
    <3> HIDE DEF I
    <3>3. Q(k + 1)
      BY <2>2, <3>1, <3>2, Zenon
    <3> QED
      BY <2>1, <3>3, Zenon
  <2> QED
    BY <2>5, <2>6, Zenon
<1>5. \A k \in 0 .. n : k \in T
  <2>1. \A k \in 0 .. n - 1 : k \in T => k + 1 \in T
    BY <1>4, Zenon
  <2> HIDE DEF T
  <2> QED
    BY <1>1, <1>3, <2>1, IntervalInduction
<1> QED
  BY <1>5, Zenon DEF Counted

LEMMA KeptMembers ==
  ASSUME NEW R, NEW s \in Seq(R), NEW S
  PROVE  /\ Len(Kept(s, S)) = Cardinality({i \in DOMAIN s : s[i] \in S})
         /\ S \subseteq PeersOf(s) => PeersOf(Kept(s, S)) = S
<1>1. PICK f : KeptLoop(s, S, f) /\ Kept(s, S) = f[Len(s)]
  BY KeptFound
<1>2. Len(s) \in 0 .. Len(s) /\ DOMAIN s = 1 .. Len(s)
  BY LenProperties
<1>3. /\ Len(f[Len(s)]) = Cardinality({i \in 1 .. Len(s) : s[i] \in S})
      /\ PeersOf(f[Len(s)]) = {s[i] : i \in {j \in 1 .. Len(s) : s[j] \in S}}
  <2>1. \A k \in 0 .. Len(s) : Counted(s, S, f[k], k)
    BY <1>1, KeptCounts
  <2> QED
    BY <1>2, <2>1, Zenon DEF Counted
<1>4. S \subseteq PeersOf(s) => {s[i] : i \in {j \in DOMAIN s : s[j] \in S}} = S
  BY DEF PeersOf
<1> QED
  BY <1>1, <1>2, <1>3, <1>4, Zenon

(* Two loops that keep the same of the same peers agree. *)
LEMMA KeptAlike ==
  ASSUME NEW R, NEW s \in Seq(R), NEW t \in Seq(R), NEW A, NEW B,
         NEW f, KeptLoop(s, A, f), NEW g, KeptLoop(t, B, g),
         NEW n \in 0 .. Len(s), n <= Len(t),
         \A i \in 1 .. n : s[i] = t[i] /\ (s[i] \in A <=> s[i] \in B)
  PROVE  f[n] = g[n]
<1> DEFINE T == {k \in 0 .. n : f[k] = g[k]}
<1>1. n \in Nat /\ Len(s) \in Nat /\ Len(t) \in Nat
  OBVIOUS
<1>2. /\ f[0] = <<>>
      /\ \A k \in 0 .. Len(s) - 1 :
           f[k + 1] = IF s[k + 1] \in A THEN Append(f[k], s[k + 1]) ELSE f[k]
  BY KeptSteps
<1>3. /\ g[0] = <<>>
      /\ \A k \in 0 .. Len(t) - 1 :
           g[k + 1] = IF t[k + 1] \in B THEN Append(g[k], t[k + 1]) ELSE g[k]
  BY KeptSteps
<1>4. 0 \in T
  BY <1>1, <1>2, <1>3
<1>5. ASSUME NEW k \in 0 .. n - 1, k \in T
      PROVE  k + 1 \in T
  <2>1. /\ k + 1 \in 1 .. n /\ k + 1 \in 0 .. n
        /\ k \in 0 .. Len(s) - 1 /\ k \in 0 .. Len(t) - 1
    BY <1>1
  <2>2. s[k + 1] = t[k + 1] /\ (s[k + 1] \in A <=> s[k + 1] \in B) /\ f[k] = g[k]
    BY <2>1, <1>5
  <2>3. f[k + 1] = IF s[k + 1] \in A THEN Append(f[k], s[k + 1]) ELSE f[k]
    BY <2>1, <1>2, Zenon
  <2>4. g[k + 1] = IF t[k + 1] \in B THEN Append(g[k], t[k + 1]) ELSE g[k]
    BY <2>1, <1>3, Zenon
  <2>5. f[k + 1] = g[k + 1]
    BY <2>2, <2>3, <2>4, Zenon
  <2> QED
    BY <2>1, <2>5
<1>6. \A k \in 0 .. n : k \in T
  <2>1. \A k \in 0 .. n - 1 : k \in T => k + 1 \in T
    BY <1>5
  <2> HIDE DEF T
  <2> QED
    BY <1>1, <1>4, <2>1, IntervalInduction
<1>7. n \in 0 .. n
  BY <1>1
<1> QED
  BY <1>6, <1>7

LEMMA KeptSame ==
  ASSUME NEW R, NEW s \in Seq(R), NEW A, NEW B,
         \A i \in 1 .. Len(s) : s[i] \in A <=> s[i] \in B
  PROVE  Kept(s, A) = Kept(s, B)
<1>1. PICK f : KeptLoop(s, A, f) /\ Kept(s, A) = f[Len(s)]
  BY KeptFound
<1>2. PICK g : KeptLoop(s, B, g) /\ Kept(s, B) = g[Len(s)]
  BY KeptFound
<1>3. Len(s) \in 0 .. Len(s) /\ Len(s) <= Len(s)
  OBVIOUS
<1>4. f[Len(s)] = g[Len(s)]
  BY <1>1, <1>2, <1>3, KeptAlike
<1> QED
  BY <1>1, <1>2, <1>4

LEMMA KeptNone ==
  ASSUME NEW S
  PROVE  Kept(<<>>, S) = <<>>
<1>1. <<>> \in Seq({}) /\ Len(<<>>) = 0
  OBVIOUS
<1>2. PICK f : KeptLoop(<<>>, S, f) /\ Kept(<<>>, S) = f[Len(<<>>)]
  BY <1>1, KeptFound
<1>3. f[0] = <<>>
  BY <1>1, <1>2, KeptSteps
<1> QED
  BY <1>1, <1>2, <1>3

LEMMA KeptAppend ==
  ASSUME NEW R, NEW s \in Seq(R), NEW e \in R, NEW S
  PROVE  Kept(Append(s, e), S) = IF e \in S THEN Append(Kept(s, S), e) ELSE Kept(s, S)
<1>0. Append(s, e) \in Seq(R)
  OBVIOUS
<1>1. PICK t \in Seq(R) : t = Append(s, e)
  BY <1>0, Zenon
<1>2. /\ Len(s) \in Nat /\ Len(t) = Len(s) + 1 /\ t[Len(s) + 1] = e
      /\ \A i \in 1 .. Len(s) : s[i] = t[i]
  BY <1>1
<1>3. PICK f : KeptLoop(s, S, f) /\ Kept(s, S) = f[Len(s)]
  BY KeptFound
<1>4. PICK g : KeptLoop(t, S, g) /\ Kept(t, S) = g[Len(t)]
  BY KeptFound
<1>5. Len(s) \in 0 .. Len(s) /\ Len(s) <= Len(t) /\ Len(s) \in 0 .. Len(t) - 1
  BY <1>2
<1>6. f[Len(s)] = g[Len(s)]
  BY <1>2, <1>3, <1>4, <1>5, KeptAlike
<1>7. g[Len(s) + 1] = IF t[Len(s) + 1] \in S
                      THEN Append(g[Len(s)], t[Len(s) + 1]) ELSE g[Len(s)]
  <2>1. \A k \in 0 .. Len(t) - 1 :
          g[k + 1] = IF t[k + 1] \in S THEN Append(g[k], t[k + 1]) ELSE g[k]
    BY <1>4, KeptSteps
  <2> QED
    BY <2>1, <1>5, Zenon
<1>8. Kept(t, S) = IF e \in S THEN Append(Kept(s, S), e) ELSE Kept(s, S)
  BY <1>2, <1>3, <1>4, <1>6, <1>7, Zenon
<1> QED
  BY <1>1, <1>8, Zenon

(* One filter after the other keeps what both keep. *)
LEMMA KeptTwice ==
  ASSUME NEW R, NEW s \in Seq(R), NEW A, NEW B
  PROVE  Kept(Kept(s, A), B) = Kept(s, A \cap B)
<1>1. PICK f : KeptLoop(s, A, f) /\ Kept(s, A) = f[Len(s)]
  BY KeptFound
<1>2. PICK g : KeptLoop(s, A \cap B, g) /\ Kept(s, A \cap B) = g[Len(s)]
  BY KeptFound
<1> DEFINE n == Len(s)
           T == {k \in 0 .. n : Kept(f[k], B) = g[k]}
<1>3. n \in Nat
  OBVIOUS
<1>4. /\ f[0] = <<>>
      /\ \A k \in 0 .. n - 1 :
           f[k + 1] = IF s[k + 1] \in A THEN Append(f[k], s[k + 1]) ELSE f[k]
  BY <1>1, KeptSteps
<1>5. /\ g[0] = <<>>
      /\ \A k \in 0 .. n - 1 :
           g[k + 1] = IF s[k + 1] \in A \cap B THEN Append(g[k], s[k + 1]) ELSE g[k]
  BY <1>2, KeptSteps
<1>6. 0 \in T
  <2>1. Kept(f[0], B) = g[0]
    BY <1>4, <1>5, KeptNone, Zenon
  <2> QED
    BY <1>3, <2>1
<1>7. ASSUME NEW k \in 0 .. n - 1, k \in T
      PROVE  k + 1 \in T
  <2>1. k + 1 \in 0 .. n /\ k \in 0 .. n
    BY <1>3
  <2>2. PICK e \in R : e = s[k + 1]
    BY <1>3
  <2>3. PICK x \in Seq(R) : x = f[k]
    BY <2>1, <1>1, KeptTyped
  <2>4. f[k + 1] = IF e \in A THEN Append(x, e) ELSE x
    BY <1>4, <2>2, <2>3, Zenon
  <2>5. g[k + 1] = IF e \in A \cap B THEN Append(g[k], e) ELSE g[k]
    BY <1>5, <2>2, Zenon
  <2>6. Kept(x, B) = g[k]
    BY <1>7, <2>3
  <2>7. Kept(Append(x, e), B) = IF e \in B THEN Append(Kept(x, B), e) ELSE Kept(x, B)
    BY KeptAppend
  <2>8. Kept(f[k + 1], B) = g[k + 1]
    BY <2>4, <2>5, <2>6, <2>7, Zenon
  <2> QED
    BY <2>1, <2>8
<1>8. \A k \in 0 .. n : k \in T
  <2>1. \A k \in 0 .. n - 1 : k \in T => k + 1 \in T
    BY <1>7
  <2> HIDE DEF T
  <2> QED
    BY <1>3, <1>6, <2>1, IntervalInduction
<1>9. n \in 0 .. n
  BY <1>3
<1>10. Kept(f[n], B) = g[n]
  BY <1>8, <1>9
<1> QED
  BY <1>1, <1>2, <1>10

(* The list of a query's peers, before it is cut into pages. *)
Wanted(in) == Kept(in.peers, WantedPeers(in))

(* The three filters of handleQuery keep what Wanted keeps. *)
LEMMA FiltersAreOne ==
  ASSUME NEW R, NEW peers \in Seq(R), NEW rules, NEW q
  PROVE  filterByStatus(filterByRole(filterByAcl(rules, q.caller, peers), q.role), q.status)
           = Wanted([rules |-> rules, peers |-> peers, request |-> q])
<1> DEFINE A == {p \in R : Shown(rules, q.caller, p)}
           B == {p \in R : q.role \in {"", p.role}}
           C == {p \in R : q.status \in {"", p.status}}
           a == filterByAcl(rules, q.caller, peers)
           b == filterByRole(a, q.role)
           c == filterByStatus(b, q.status)
           W == {p \in PeersOf(peers) :
                   /\ Shown(rules, q.caller, p)
                   /\ q.role \in {"", p.role} /\ q.status \in {"", p.status}}
<1>0. ASSUME NEW s \in Seq(R)
      PROVE  \A i \in 1 .. Len(s) : s[i] \in PeersOf(s) /\ s[i] \in R
  BY DEF PeersOf
<1>1. a = Kept(peers, A)
  <2>1. \A i \in 1 .. Len(peers) :
          peers[i] \in {p \in PeersOf(peers) : Shown(rules, q.caller, p)} <=> peers[i] \in A
    BY <1>0
  <2> QED
    BY <2>1, KeptSame, Zenon DEF filterByAcl
<1>2. a \in Seq(R)
  BY <1>1, KeptIsList, Zenon
<1> HIDE DEF a, A
<1>3. b = Kept(a, B)
  <2>1. \A i \in 1 .. Len(a) :
          a[i] \in {p \in PeersOf(a) : q.role \in {"", p.role}} <=> a[i] \in B
    BY <1>0, <1>2, Zenon
  <2> QED
    BY <2>1, <1>2, KeptSame, Zenon DEF filterByRole
<1>4. b \in Seq(R)
  BY <1>2, <1>3, KeptIsList, Zenon
<1> HIDE DEF b, B
<1>5. c = Kept(b, C)
  <2>1. \A i \in 1 .. Len(b) :
          b[i] \in {p \in PeersOf(b) : q.status \in {"", p.status}} <=> b[i] \in C
    BY <1>0, <1>4, Zenon
  <2> QED
    BY <2>1, <1>4, KeptSame, Zenon DEF filterByStatus
<1> HIDE DEF c, C
<1>6. Kept(Kept(peers, A), B) = Kept(peers, A \cap B)
  BY KeptTwice
<1>7. c = Kept(peers, (A \cap B) \cap C)
  <2>1. Kept(Kept(peers, A \cap B), C) = Kept(peers, (A \cap B) \cap C)
    BY KeptTwice
  <2> QED
    BY <2>1, <1>1, <1>3, <1>5, <1>6
<1>8. Kept(peers, (A \cap B) \cap C) = Kept(peers, W)
  <2>1. \A i \in 1 .. Len(peers) : peers[i] \in (A \cap B) \cap C <=> peers[i] \in W
    BY <1>0, Zenon DEF A, B, C
  <2> HIDE DEF W
  <2> QED
    BY <2>1, KeptSame, Zenon
<1>9. Kept(peers, W) = Wanted([rules |-> rules, peers |-> peers, request |-> q])
  <2> DEFINE in == [rules |-> rules, peers |-> peers, request |-> q]
  <2>1. in.rules = rules /\ in.peers = peers /\ in.request = q
    OBVIOUS
  <2> HIDE DEF in
  <2>2. \A p : Shown(rules, q.caller, p) <=>
               (\/ in.request.caller = ""
                \/ \E x \in {"pub", "sub"} :
                     Authorize(in.rules, in.request.caller, x, TransferRequest(p.id)))
    BY <2>1, Zenon DEF Shown
  <2>3. W = {p \in PeersOf(in.peers) :
               /\ \/ in.request.caller = ""
                  \/ \E x \in {"pub", "sub"} :
                       Authorize(in.rules, in.request.caller, x, TransferRequest(p.id))
               /\ in.request.role \in {"", p.role} /\ in.request.status \in {"", p.status}}
    BY <2>1, <2>2, Zenon
  <2> HIDE DEF W
  <2>4. Kept(in.peers, W) = Wanted(in)
    BY <2>3, Zenon DEF Wanted, WantedPeers
  <2> QED
    BY <2>1, <2>4, Zenon DEF in
<1> QED
  BY <1>7, <1>8, <1>9, Zenon DEF a, b, c
-----------------------------------------------------------------------------
(* Pages. *)

LEMMA PageSizes ==
  ASSUME NEW q \in ListRequest
  PROVE  PageSize(q) \in 1 .. MaxInt
<1>1. q.size \in Int
  BY ListAssumption
<1> QED
  BY <1>1, ListAssumption DEF PageSize

(* The rest of the list from o on. *)
Rest(list, size, o) ==
  IF o > MaxInt - size THEN <<>> ELSE SubSeq(list, o + 1, Len(list))

(* A page fails where its end is no int, and there is more after it if it  *)
(* ends before the list does.                                              *)
LEMMA PageParts ==
  ASSUME NEW list, Len(list) \in Nat, 2 * Len(list) <= MaxInt,
         NEW offset \in 0 .. MaxInt, NEW size \in 1 .. MaxInt
  PROVE  /\ Page(list, offset, size).panics \in BOOLEAN
         /\ Page(list, offset, size).panics <=> offset > MaxInt - size
         /\ Page(list, offset, size).hasMore /\ ~Page(list, offset, size).panics
              <=> offset + size < Len(list)
         /\ offset + size < Len(list) =>
              Page(list, offset, size).peers = SubSeq(list, offset + 1, offset + size)
         /\ offset + size >= Len(list) =>
              Page(list, offset, size).peers = Rest(list, size, offset)
<1> DEFINE end == Plus(offset, size)
           failed == [peers |-> <<>>, hasMore |-> TRUE, panics |-> TRUE]
           inner == [peers |-> SubSeq(list, offset + 1, end),
                     hasMore |-> TRUE, panics |-> FALSE]
           last == [peers |-> SubSeq(list, offset + 1, Len(list)),
                    hasMore |-> FALSE, panics |-> FALSE]
<1>1. MaxInt \in Nat
  BY ListAssumption
<1>2. Page(list, offset, size)
        = CASE end < 0 -> failed
            [] end \in 0 .. Len(list) - 1 -> inner
            [] OTHER -> last
  BY Zenon DEF Page
<1>3. CASE offset > MaxInt - size
  <2>1. end < 0
    BY <1>1, <1>3 DEF Plus
  <2>2. ~(end \in 0 .. Len(list) - 1)
    BY <1>1, <1>3 DEF Plus
  <2>3. Page(list, offset, size) = failed
    BY <1>2, <2>1, <2>2, Zenon
  <2>4. ~(offset + size < Len(list))
    BY <1>1, <1>3
  <2>5. failed.peers = <<>> /\ failed.hasMore = TRUE /\ failed.panics = TRUE
    OBVIOUS
  <2>6. Rest(list, size, offset) = <<>>
    BY <1>3, Zenon DEF Rest
  <2> HIDE DEF failed
  <2> QED
    BY <1>3, <2>3, <2>4, <2>5, <2>6, Zenon
<1>4. CASE ~(offset > MaxInt - size) /\ offset + size < Len(list)
  <2>1. end = offset + size
    BY <1>1, <1>4 DEF Plus
  <2>2. end \in 0 .. Len(list) - 1 /\ ~(end < 0)
    BY <2>1, <1>4
  <2>3. Page(list, offset, size) = inner
    BY <1>2, <2>2, Zenon
  <2>4. /\ inner.peers = SubSeq(list, offset + 1, end)
        /\ inner.hasMore = TRUE /\ inner.panics = FALSE
    OBVIOUS
  <2>5. ~(offset + size >= Len(list))
    BY <1>4
  <2> HIDE DEF inner, end
  <2>6. Page(list, offset, size).peers = SubSeq(list, offset + 1, offset + size)
    BY <2>1, <2>3, <2>4, Zenon
  <2>7. Page(list, offset, size).hasMore = TRUE /\ Page(list, offset, size).panics = FALSE
    BY <2>3, <2>4, Zenon
  <2> QED
    BY <1>4, <2>5, <2>6, <2>7, Zenon
<1>5. CASE ~(offset > MaxInt - size) /\ ~(offset + size < Len(list))
  <2>1. end = offset + size
    BY <1>1, <1>5 DEF Plus
  <2>2. ~(end \in 0 .. Len(list) - 1) /\ ~(end < 0)
    BY <2>1, <1>5
  <2>3. Page(list, offset, size) = last
    BY <1>2, <2>2, Zenon
  <2>4. /\ last.peers = SubSeq(list, offset + 1, Len(list))
        /\ last.hasMore = FALSE /\ last.panics = FALSE
    OBVIOUS
  <2>5. Rest(list, size, offset) = SubSeq(list, offset + 1, Len(list))
    BY <1>5, Zenon DEF Rest
  <2> HIDE DEF last, end
  <2> QED
    BY <1>5, <2>3, <2>4, <2>5, Zenon
<1> QED
  BY <1>3, <1>4, <1>5

(* What handleQuery answers, by the list Wanted has. *)
LEMMA QueryAnswers ==
  ASSUME NEW R, NEW peers \in Seq(R), NEW rules, NEW q, NEW list, NEW offset,
         list = Wanted([rules |-> rules, peers |-> peers, request |-> q]),
         offset = IF q.offset < 0 THEN 0 ELSE q.offset
  PROVE  /\ handleQuery(rules, peers, q).total = Len(list)
         /\ handleQuery(rules, peers, q).offset = offset
         /\ handleQuery(rules, peers, q).peers = Page(list, offset, PageSize(q)).peers
         /\ handleQuery(rules, peers, q).hasMore = Page(list, offset, PageSize(q)).hasMore
         /\ handleQuery(rules, peers, q).panics = Page(list, offset, PageSize(q)).panics
<1>1. filterByStatus(filterByRole(filterByAcl(rules, q.caller, peers), q.role), q.status)
        = list
  <2>1. filterByStatus(filterByRole(filterByAcl(rules, q.caller, peers), q.role), q.status)
          = Wanted([rules |-> rules, peers |-> peers, request |-> q])
    BY FiltersAreOne
  <2> QED
    BY <2>1, Zenon
<1> DEFINE page == Page(list, offset, PageSize(q))
<1>2. handleQuery(rules, peers, q)
        = [peers |-> page.peers, hasMore |-> page.hasMore, panics |-> page.panics,
           total |-> Len(list), offset |-> offset]
  BY <1>1, Zenon DEF handleQuery
<1> HIDE DEF page
<1>3. /\ handleQuery(rules, peers, q).total = Len(list)
      /\ handleQuery(rules, peers, q).offset = offset
      /\ handleQuery(rules, peers, q).peers = page.peers
      /\ handleQuery(rules, peers, q).hasMore = page.hasMore
      /\ handleQuery(rules, peers, q).panics = page.panics
  BY <1>2
<1> QED
  BY <1>3, Zenon DEF page

(* The peers of a list have ids of their own. *)
NoTwice(s) == \A i, j \in DOMAIN s : s[i].id = s[j].id => i = j

(* A filter shows no peer twice. *)
LEMMA KeptDistinct ==
  ASSUME NEW R, NEW s \in Seq(R), NoTwice(s), NEW S
  PROVE  NoTwice(Kept(s, S))
<1>1. PICK f : KeptLoop(s, S, f) /\ Kept(s, S) = f[Len(s)]
  BY KeptFound
<1> DEFINE n == Len(s)
           T == {k \in 0 .. n : NoTwice(f[k])}
<1>2. n \in Nat /\ DOMAIN s = 1 .. n
  OBVIOUS
<1>3. /\ f[0] = <<>>
      /\ \A k \in 0 .. n - 1 :
           f[k + 1] = IF s[k + 1] \in S THEN Append(f[k], s[k + 1]) ELSE f[k]
  BY <1>1, KeptSteps
<1>4. 0 \in T
  <2>1. 0 \in 0 .. n
    BY <1>2
  <2>2. NoTwice(<<>>)
    BY DEF NoTwice
  <2> QED
    BY <2>1, <2>2, <1>3, Zenon
<1>5. ASSUME NEW k \in 0 .. n - 1, k \in T
      PROVE  k + 1 \in T
  <2>1. k \in Nat /\ k + 1 \in 0 .. n /\ k + 1 \in 1 .. n /\ k \in 0 .. n
    BY <1>2
  <2>2. PICK x \in Seq(R) : x = f[k] /\ NoTwice(x)
    BY <2>1, <1>1, <1>5, KeptTyped, Zenon
  <2>3. PICK e \in R : e = s[k + 1]
    BY <2>1, ElementOfSeq
  <2>4. f[k + 1] = x \/ f[k + 1] = Append(x, e)
    BY <2>2, <2>3, <1>3, Zenon
  <2>5. ASSUME NEW i \in DOMAIN x
        PROVE  x[i].id # e.id
    <3>1. PeersOf(x) = {s[m] : m \in {j \in 1 .. k : s[j] \in S}}
      <4>1. Counted(s, S, f[k], k)
        BY <2>1, <1>1, KeptCounts, Zenon
      <4> QED
        BY <4>1, <2>2, Zenon DEF Counted
    <3>2. PICK m \in 1 .. k : x[i] = s[m]
      BY <3>1, Zenon DEF PeersOf
    <3>3. m \in 1 .. n /\ m # k + 1
      BY <2>1, <1>2
    <3> QED
      BY <3>2, <3>3, <2>1, <2>3, <1>2, Zenon DEF NoTwice
  <2>6. NoTwice(Append(x, e))
    <3>1. /\ DOMAIN Append(x, e) = (DOMAIN x) \cup {Len(x) + 1}
          /\ Append(x, e)[Len(x) + 1] = e
          /\ \A i \in DOMAIN x : Append(x, e)[i] = x[i]
      <4>1. /\ Len(x) \in Nat /\ DOMAIN x = 1 .. Len(x)
            /\ DOMAIN Append(x, e) = 1 .. Len(x) + 1
            /\ Append(x, e)[Len(x) + 1] = e
            /\ \A i \in 1 .. Len(x) : Append(x, e)[i] = x[i]
        OBVIOUS
      <4>2. 1 .. Len(x) + 1 = (1 .. Len(x)) \cup {Len(x) + 1}
        BY <4>1
      <4> QED
        BY <4>1, <4>2, Zenon
    <3> DEFINE y == Append(x, e)
    <3> HIDE DEF y
    <3>2. ASSUME NEW i \in DOMAIN y, NEW j \in DOMAIN y, y[i].id = y[j].id
          PROVE  i = j
      <4>1. /\ i \in DOMAIN x \/ i = Len(x) + 1
            /\ j \in DOMAIN x \/ j = Len(x) + 1
        BY <3>1, Zenon DEF y
      <4>2. y[Len(x) + 1] = e /\ \A m \in DOMAIN x : y[m] = x[m]
        BY <3>1, Zenon DEF y
      <4>3. CASE i \in DOMAIN x /\ j \in DOMAIN x
        BY <4>2, <4>3, <3>2, <2>2, Zenon DEF NoTwice
      <4>4. CASE i \in DOMAIN x /\ j = Len(x) + 1
        BY <4>2, <4>4, <3>2, <2>5, Zenon
      <4>5. CASE i = Len(x) + 1 /\ j \in DOMAIN x
        BY <4>2, <4>5, <3>2, <2>5, Zenon
      <4>6. CASE i = Len(x) + 1 /\ j = Len(x) + 1
        BY <4>6, Zenon
      <4> QED
        BY <4>1, <4>3, <4>4, <4>5, <4>6, Zenon
    <3> QED
      BY <3>2, Zenon DEF NoTwice, y
  <2>7. NoTwice(f[k + 1])
    BY <2>2, <2>4, <2>6, Zenon
  <2> QED
    BY <2>1, <2>7, Zenon
<1>6. \A k \in 0 .. n : k \in T
  <2>1. \A k \in 0 .. n - 1 : k \in T => k + 1 \in T
    BY <1>5, Zenon
  <2> HIDE DEF T
  <2> QED
    BY <1>2, <1>4, <2>1, IntervalInduction
<1>7. n \in 0 .. n
  BY <1>2
<1> QED
  BY <1>1, <1>6, <1>7, Zenon

(* A page from offset on, whose end e is the list's at the most: its       *)
(* length, and what it takes from the list.                                *)
LEMMA PageCut ==
  ASSUME NEW R, NEW list \in Seq(R), NoTwice(list),
         NEW offset \in Nat, NEW e \in 0 .. Len(list),
         NEW page, page = SubSeq(list, offset + 1, e)
  PROVE  /\ Len(page) = IF offset < e THEN e - offset ELSE 0
         /\ PeersOf(page) \subseteq PeersOf(list)
         /\ NoTwice(page)
<1>1. Len(list) \in Nat /\ e \in Nat /\ DOMAIN list = 1 .. Len(list)
  OBVIOUS
<1>2. CASE offset < e
  <2>1. \A i \in offset + 1 .. e : i \in 1 .. Len(list)
    BY <1>1
  <2>2. \A i \in offset + 1 .. e : list[i] \in R
    BY <2>1, ElementOfSeq
  <2>3. /\ page \in Seq(R)
        /\ Len(page) = IF offset + 1 <= e THEN e - (offset + 1) + 1 ELSE 0
        /\ \A i \in 1 .. e - (offset + 1) + 1 : page[i] = list[(offset + 1) + i - 1]
    BY <2>2, <1>1, SubSeqProperties
  <2>4. Len(page) = e - offset
    BY <2>3, <1>1, <1>2
  <2>5. DOMAIN page = 1 .. e - offset
    BY <2>3, <2>4, LenProperties
  <2>6. \A i \in 1 .. e - offset : offset + i \in 1 .. Len(list)
    BY <1>1, <1>2
  <2>7. \A i \in 1 .. e - offset : page[i] = list[offset + i]
    <3> SUFFICES ASSUME NEW i \in 1 .. e - offset
                 PROVE  page[i] = list[offset + i]
      OBVIOUS
    <3>1. i \in 1 .. e - (offset + 1) + 1 /\ (offset + 1) + i - 1 = offset + i
      BY <1>1
    <3> QED
      BY <3>1, <2>3, Zenon
  <2>8. PeersOf(page) \subseteq PeersOf(list)
    BY <2>5, <2>6, <2>7, <1>1, Zenon DEF PeersOf
  <2>9. \A i, j \in 1 .. e - offset : offset + i = offset + j => i = j
    BY <1>1
  <2>10. NoTwice(page)
    <3>1. ASSUME NEW i \in 1 .. e - offset, NEW j \in 1 .. e - offset,
                 page[i].id = page[j].id
          PROVE  i = j
      <4>1. list[offset + i].id = list[offset + j].id
        BY <3>1, <2>7, Zenon
      <4>2. offset + i = offset + j
        BY <4>1, <2>6, <1>1, Zenon DEF NoTwice
      <4> QED
        BY <4>2, <2>9, Zenon
    <3> QED
      BY <3>1, <2>5, Zenon DEF NoTwice
  <2> QED
    BY <1>2, <2>4, <2>8, <2>10
<1>3. CASE ~(offset < e)
  <2>1. page = <<>>
    BY <1>1, <1>3, SubSeqEmpty
  <2>2. Len(<<>>) = 0 /\ PeersOf(<<>>) = {} /\ NoTwice(<<>>)
    BY DEF PeersOf, NoTwice
  <2>3. Len(page) = 0 /\ PeersOf(page) = {} /\ NoTwice(page)
    BY <2>1, <2>2, Zenon
  <2> QED
    BY <1>3, <2>3, Zenon
<1> QED
  BY <1>2, <1>3

(* What PageFits says of a page that does not fail. *)
Fits(list, offset, size, page, hasMore) ==
  /\ PeersOf(page) \subseteq PeersOf(list)
  /\ NoTwice(page)
  /\ Len(page) <= size /\ (Len(page) > 0 => offset + Len(page) <= Len(list))
  /\ Len(page) = size \/ offset + Len(page) >= Len(list)
  /\ hasMore <=> offset + Len(page) < Len(list)

LEMMA PageShape ==
  ASSUME NEW R, NEW list \in Seq(R), NoTwice(list), 2 * Len(list) <= MaxInt,
         NEW offset \in 0 .. MaxInt, NEW size \in 1 .. MaxInt,
         ~Page(list, offset, size).panics
  PROVE  Fits(list, offset, size, Page(list, offset, size).peers,
              Page(list, offset, size).hasMore)
<1> DEFINE n == Len(list)
           page == Page(list, offset, size)
<1>1. n \in Nat /\ MaxInt \in Nat
  BY ListAssumption
<1>2. /\ page.panics <=> offset > MaxInt - size
      /\ page.hasMore /\ ~page.panics <=> offset + size < n
      /\ offset + size < n => page.peers = SubSeq(list, offset + 1, offset + size)
      /\ offset + size >= n => page.peers = Rest(list, size, offset)
  BY <1>1, PageParts
<1>3. page.hasMore <=> offset + size < n
  BY <1>2, Zenon
<1> DEFINE e == IF offset + size < n THEN offset + size ELSE n
<1>4. e \in 0 .. n
  BY <1>1
<1>5. page.peers = SubSeq(list, offset + 1, e)
  <2>1. CASE offset + size < n
    BY <2>1, <1>2, Zenon
  <2>2. CASE ~(offset + size < n)
    <3>1. offset + size >= n
      BY <2>2, <1>1
    <3>2. page.peers = Rest(list, size, offset)
      BY <3>1, <1>2, Zenon
    <3>3. ~(offset > MaxInt - size)
      BY <1>2, Zenon
    <3> QED
      BY <2>2, <3>2, <3>3, Zenon DEF Rest
  <2> QED
    BY <2>1, <2>2
<1>6. offset \in Nat
  BY <1>1
<1> HIDE DEF page
<1>7. PICK p : p = page.peers
  OBVIOUS
<1>8. /\ Len(p) = IF offset < e THEN e - offset ELSE 0
      /\ PeersOf(p) \subseteq PeersOf(list)
      /\ NoTwice(p)
  <2> HIDE DEF e
  <2>1. p = SubSeq(list, offset + 1, e)
    BY <1>5, <1>7, Zenon
  <2> QED
    BY <2>1, <1>4, <1>6, PageCut, Zenon
<1>9. ASSUME NEW l, l = IF offset < e THEN e - offset ELSE 0
      PROVE  /\ l <= size /\ (l > 0 => offset + l <= n)
             /\ l = size \/ offset + l >= n
             /\ offset + size < n <=> offset + l < n
  BY <1>1, <1>6, <1>9
<1>10. /\ Len(p) <= size /\ (Len(p) > 0 => offset + Len(p) <= n)
       /\ Len(p) = size \/ offset + Len(p) >= n
       /\ offset + size < n <=> offset + Len(p) < n
  <2> HIDE DEF e
  <2> QED
    BY <1>8, <1>9, Zenon
<1>11. Fits(list, offset, size, p, page.hasMore)
  BY <1>3, <1>8, <1>10, Zenon DEF Fits
<1> QED
  BY <1>7, <1>11, Zenon DEF page

(* PeerListService: the total counts the peers the caller may see with the *)
(* role and the status asked for; a page holds such peers only and none    *)
(* twice, is as long as its size and the list allow, and hasMore tells     *)
(* whether the list goes on after it; and the only query that fails is the *)
(* one whose offset and page size together are no int any more - for every *)
(* order the registry gives its peers in, page size and set of rules.      *)
THEOREM PagesFit == Spec => []PageFits
<1>1. Init => PageFits
  BY DEF Init, PageFits, Asked
<1>2. PageFits /\ [Next]_vars => PageFits'
  <2> SUFFICES ASSUME PageFits, [Next]_vars, Asked("peers")'
               PROVE  PageFits'
    BY DEF PageFits
  <2>1. CASE UNCHANGED vars
    BY <2>1 DEF vars, PageFits, Asked
  <2>2. CASE Next
    <3>1. PICK r \in ListRules, p \in PeerOrder, q \in ListRequest :
            Ask("peers", [rules |-> r, peers |-> p, request |-> q], handleQuery(r, p, q))
      BY <2>2, AskedBy DEF AskPeers
    <3> DEFINE in == [rules |-> r, peers |-> p, request |-> q]
               list == Wanted(in)
               size == PageSize(q)
    <3>2. query'.in = in /\ answer' = handleQuery(r, p, q)
      BY <3>1, Recorded
    <3>3. in.request = q /\ in.peers = p
      OBVIOUS
    <3>4. p \in Seq(PeersOf(p)) /\ 2 * Len(p) <= MaxInt /\ NoTwice(p)
      BY ListAssumption, Zenon DEF NoTwice
    <3>5. PICK R : p \in Seq(R)
      BY <3>4, Zenon
    <3>6. 2 * Len(p) <= MaxInt /\ NoTwice(p)
      BY <3>4, Zenon
    <3>7. PICK offset : offset = IF q.offset < 0 THEN 0 ELSE q.offset
      OBVIOUS
    <3>8. /\ handleQuery(r, p, q).total = Len(list)
          /\ handleQuery(r, p, q).offset = offset
          /\ handleQuery(r, p, q).peers = Page(list, offset, size).peers
          /\ handleQuery(r, p, q).hasMore = Page(list, offset, size).hasMore
          /\ handleQuery(r, p, q).panics = Page(list, offset, size).panics
      BY <3>5, <3>7, QueryAnswers
    <3>9. WantedPeers(in) \subseteq PeersOf(p) /\ list = Kept(p, WantedPeers(in))
      BY <3>3, Zenon DEF WantedPeers, Wanted
    <3> HIDE DEF in, list, size
    <3>10. /\ Len(list) = Cardinality({i \in DOMAIN p : p[i] \in WantedPeers(in)})
           /\ PeersOf(list) = WantedPeers(in)
      BY <3>5, <3>9, KeptMembers, Zenon
    <3>11. list \in Seq(R) /\ Len(list) <= Len(p) /\ NoTwice(list)
      BY <3>5, <3>6, <3>9, KeptIsList, KeptDistinct, Zenon
    <3>12. Len(list) \in Nat /\ 2 * Len(list) <= MaxInt /\ MaxInt \in Nat
      BY <3>5, <3>6, <3>11, ListAssumption
    <3>13. q.offset \in Int /\ q.offset <= MaxInt /\ size \in 1 .. MaxInt
      BY PageSizes, ListAssumption DEF size
    <3>14. offset \in 0 .. MaxInt
      BY <3>7, <3>12, <3>13
    <3>15. Page(list, offset, size).panics <=> offset > MaxInt - size
      BY <3>12, <3>13, <3>14, PageParts
    <3>16. offset > MaxInt - size <=> q.offset > MaxInt - size
      BY <3>7, <3>12, <3>13
    <3>17. ~Page(list, offset, size).panics =>
             Fits(list, offset, size, Page(list, offset, size).peers,
                  Page(list, offset, size).hasMore)
      BY <3>11, <3>12, <3>13, <3>14, PageShape, Zenon
    <3>18. answer'.panics <=> q.offset > MaxInt - size
      BY <3>2, <3>8, <3>15, <3>16, Zenon
    <3>19. ~answer'.panics => Fits(list, offset, size, answer'.peers, answer'.hasMore)
      BY <3>2, <3>8, <3>17, Zenon
    <3>20. answer'.total = Len(list) /\ answer'.offset = offset
      BY <3>2, <3>8, Zenon
    <3>21. query'.in.peers = p /\ query'.in.request = q /\ PageSize(q) = size
      BY <3>2, <3>3, Zenon DEF size
    <3>22. query'.in = in
      BY <3>2, Zenon
    <3>23. PICK total : total = Len(list)
      OBVIOUS
    <3>24. /\ answer'.total = total /\ answer'.offset = offset
           /\ Cardinality({i \in DOMAIN p : p[i] \in WantedPeers(in)}) = total
      BY <3>10, <3>20, <3>23, Zenon
    <3>25. ~answer'.panics =>
             /\ PeersOf(answer'.peers) \subseteq WantedPeers(in)
             /\ \A i, j \in DOMAIN answer'.peers :
                  answer'.peers[i].id = answer'.peers[j].id => i = j
             /\ Len(answer'.peers) <= size
             /\ (Len(answer'.peers) > 0 => answer'.offset + Len(answer'.peers) <= total)
             /\ Len(answer'.peers) = size \/ answer'.offset + Len(answer'.peers) >= total
             /\ answer'.hasMore <=> answer'.offset + Len(answer'.peers) < total
      BY <3>10, <3>19, <3>20, <3>23, Zenon DEF Fits, NoTwice
    <3>26. in.peers = p /\ in.request = q
      BY <3>21, <3>22, Zenon
    <3> QED
      BY <3>18, <3>21, <3>22, <3>24, <3>25, <3>26, Zenon DEF PageFits
  <2> QED
    BY <2>1, <2>2
<1> QED
  BY <1>1, <1>2, PTL DEF Spec
-----------------------------------------------------------------------------
(* Packets: one option. *)

LEMMA LargestTyped == LargestExtended \in Nat
<1> QED
  BY DEF LargestExtended

LEMMA LargestIs ==
  ASSUME NEW v \in Int, v <= LargestExtended
  PROVE  v <= 65804
<1> QED
  BY DEF LargestExtended

(* The nibble of a number and the bytes that extend it, by the size of the *)
(* number.                                                                 *)
LEMMA NibbleParts ==
  ASSUME NEW v \in 0 .. LargestExtended
  PROVE  LET n == encodeCoapOptionNibble(v) IN
         \/ v < 13 /\ n = <<v>>
         \/ v >= 13 /\ v < 269 /\ n = <<13, v - 13>>
         \/ \E hi, lo \in Byte : v >= 269 /\ v = hi * 256 + lo + 269 /\ n = <<14, hi, lo>>
<1>1. v \in Int /\ v >= 0 /\ v <= 65804
  <2>1. v \in Int /\ v >= 0 /\ v <= LargestExtended
    BY LargestTyped
  <2> QED
    BY <2>1, LargestIs
<1>2. CASE v < 13
  <2>1. ~(v >= 13 /\ v < 269)
    BY <1>1, <1>2
  <2>2. encodeCoapOptionNibble(v) = <<v>>
    BY <1>2, <2>1, Zenon DEF encodeCoapOptionNibble
  <2> QED
    BY <1>2, <2>2, Zenon
<1>3. CASE v >= 13 /\ v < 269
  <2>1. ~(v < 13)
    BY <1>1, <1>3
  <2>2. encodeCoapOptionNibble(v) = <<13, v - 13>>
    BY <1>3, <2>1, Zenon DEF encodeCoapOptionNibble
  <2> QED
    BY <1>3, <2>2, Zenon
<1>4. CASE v >= 269
  <2> DEFINE hi == ((v - 269) \div 256) % 256
             lo == (v - 269) % 256
  <2>1. ~(v < 13) /\ ~(v >= 13 /\ v < 269)
    BY <1>1, <1>4
  <2>2. encodeCoapOptionNibble(v) = <<14, hi, lo>>
    BY <2>1, Zenon DEF encodeCoapOptionNibble
  <2>0. v - 269 \in Nat /\ v - 269 <= 65535
    BY <1>1, <1>4
  <2>3. PICK w \in Nat : w = v - 269 /\ w <= 65535
    BY <2>0
  <2>4. /\ w \div 256 \in 0 .. 255 /\ w % 256 \in 0 .. 255
        /\ w = (w \div 256) * 256 + (w % 256)
    BY <2>3
  <2>5. (w \div 256) % 256 = w \div 256
    BY <2>4
  <2>6. hi = w \div 256 /\ lo = w % 256
    BY <2>3, <2>5
  <2> HIDE DEF hi, lo
  <2>7. hi \in Byte /\ lo \in Byte /\ v = hi * 256 + lo + 269
    BY <2>3, <2>4, <2>6, <1>1 DEF Byte
  <2>8. \E x, y \in Byte : /\ v >= 269 /\ v = x * 256 + y + 269
                           /\ encodeCoapOptionNibble(v) = <<14, x, y>>
    BY <1>4, <2>2, <2>7, Zenon
  <2> QED
    BY <2>8, Zenon
<1> QED
  BY <1>1, <1>2, <1>3, <1>4

(* What the head and the tail of a nibble are. *)
LEMMA NibbleTyped ==
  ASSUME NEW v \in 0 .. LargestExtended
  PROVE  /\ Head(encodeCoapOptionNibble(v)) \in 0 .. 14
         /\ Tail(encodeCoapOptionNibble(v)) \in Seq(Byte)
<1> DEFINE n == encodeCoapOptionNibble(v)
<1>1. v \in Int /\ v >= 0
  BY LargestTyped
<1>2. \/ v < 13 /\ n = <<v>>
      \/ v >= 13 /\ v < 269 /\ n = <<13, v - 13>>
      \/ \E hi, lo \in Byte : v >= 269 /\ v = hi * 256 + lo + 269 /\ n = <<14, hi, lo>>
  BY NibbleParts
<1> HIDE DEF n
<1>3. CASE v < 13 /\ n = <<v>>
  <2>1. Head(n) = v /\ Tail(n) = <<>>
    BY <1>3
  <2> QED
    BY <2>1, <1>1, <1>3 DEF n
<1>4. CASE v >= 13 /\ v < 269 /\ n = <<13, v - 13>>
  <2>1. PICK x \in Byte : x = v - 13
    BY <1>1, <1>4 DEF Byte
  <2>2. n = <<13, x>>
    BY <1>4, <2>1
  <2>3. Head(n) = 13 /\ Tail(n) = <<x>>
    BY <2>2
  <2>4. <<x>> \in Seq(Byte)
    OBVIOUS
  <2>5. 13 \in 0 .. 14
    OBVIOUS
  <2> QED
    BY <2>3, <2>4, <2>5, Zenon DEF n
<1>5. ASSUME NEW hi \in Byte, NEW lo \in Byte, n = <<14, hi, lo>>
      PROVE  Head(n) \in 0 .. 14 /\ Tail(n) \in Seq(Byte)
  <2>1. Head(n) = 14 /\ Tail(n) = <<hi, lo>>
    BY <1>5
  <2>2. <<hi, lo>> \in Seq(Byte)
    OBVIOUS
  <2>3. 14 \in 0 .. 14
    OBVIOUS
  <2> QED
    BY <2>1, <2>2, <2>3, Zenon
<1> QED
  BY <1>2, <1>3, <1>4, <1>5 DEF n

(* The bytes of x are those of data from p on. *)
Holds(data, p, x) ==
  /\ p + Len(x) - 1 <= Len(data)
  /\ \A i \in 1 .. Len(x) : data[p + i - 1] = x[i]

(* The parser reads an extension as the number it was made of. *)
LEMMA ExtensionRead ==
  ASSUME NEW data \in Seq(Byte), NEW v \in 0 .. LargestExtended, NEW p \in Nat, p > 0,
         Holds(data, p, Tail(encodeCoapOptionNibble(v)))
  PROVE  LET n == encodeCoapOptionNibble(v) IN
         /\ Extended(data, Head(n), p).value = v
         /\ Extended(data, Head(n), p).next = p + Len(Tail(n))
<1> DEFINE n == encodeCoapOptionNibble(v)
<1>1. v \in Int /\ v >= 0 /\ Len(data) \in Nat
  <2>1. Len(data) \in Nat
    OBVIOUS
  <2>2. v \in Int /\ v >= 0
    BY LargestTyped
  <2> QED
    BY <2>1, <2>2
<1>2. \/ v < 13 /\ n = <<v>>
      \/ v >= 13 /\ v < 269 /\ n = <<13, v - 13>>
      \/ \E hi, lo \in Byte : v >= 269 /\ v = hi * 256 + lo + 269 /\ n = <<14, hi, lo>>
  BY NibbleParts
<1>3. Holds(data, p, Tail(n))
  OBVIOUS
<1> HIDE DEF n
<1>4. CASE v < 13 /\ n = <<v>>
  <2>1. Head(n) = v /\ Tail(n) = <<>>
    BY <1>4
  <2>2. v # 13 /\ v # 14
    BY <1>1, <1>4
  <2>3. Extended(data, v, p) = [value |-> v, next |-> p]
    BY <2>2, Zenon DEF Extended
  <2>4. p + Len(<<>>) = p
    OBVIOUS
  <2>5. Extended(data, v, p).value = v /\ Extended(data, v, p).next = p
    BY <2>3
  <2> QED
    BY <2>1, <2>4, <2>5, Zenon DEF n
<1>5. CASE v >= 13 /\ v < 269 /\ n = <<13, v - 13>>
  <2>1. Head(n) = 13 /\ Tail(n) = <<v - 13>> /\ Len(<<v - 13>>) = 1
    BY <1>5
  <2>2. p <= Len(data) /\ data[p] = v - 13
    <3>1. Holds(data, p, <<v - 13>>)
      BY <2>1, <1>3
    <3>2. p + 1 - 1 <= Len(data) /\ 1 \in 1 .. Len(<<v - 13>>) /\ p + 1 - 1 = p
      BY <2>1, <3>1 DEF Holds
    <3>3. data[p + 1 - 1] = <<v - 13>>[1]
      BY <3>1, <3>2 DEF Holds
    <3> QED
      BY <3>2, <3>3
  <2>3. 13 # 14
    OBVIOUS
  <2>4. Extended(data, 13, p) = [value |-> data[p] + 13, next |-> p + 1]
    BY <2>2, <2>3, Zenon DEF Extended
  <2>5. data[p] + 13 = v
    BY <2>2, <1>1
  <2>6. Extended(data, 13, p).value = v /\ Extended(data, 13, p).next = p + 1
    BY <2>4, <2>5
  <2> QED
    BY <2>1, <2>6, Zenon DEF n
<1>6. ASSUME NEW hi \in Byte, NEW lo \in Byte,
             v = hi * 256 + lo + 269, n = <<14, hi, lo>>
      PROVE  /\ Extended(data, Head(n), p).value = v
             /\ Extended(data, Head(n), p).next = p + Len(Tail(n))
  <2>1. Head(n) = 14 /\ Tail(n) = <<hi, lo>> /\ Len(<<hi, lo>>) = 2
    BY <1>6
  <2>2. p + 1 <= Len(data) /\ data[p] = hi /\ data[p + 1] = lo
    <3>1. Holds(data, p, <<hi, lo>>)
      BY <2>1, <1>3
    <3>2. /\ p + 2 - 1 <= Len(data) /\ 1 \in 1 .. Len(<<hi, lo>>)
          /\ 2 \in 1 .. Len(<<hi, lo>>) /\ p + 1 - 1 = p /\ p + 2 - 1 = p + 1
      BY <2>1, <3>1 DEF Holds
    <3>3. data[p + 1 - 1] = <<hi, lo>>[1] /\ data[p + 2 - 1] = <<hi, lo>>[2]
      BY <3>1, <3>2 DEF Holds
    <3> QED
      BY <3>2, <3>3
  <2>3. 14 # 13
    OBVIOUS
  <2>4. Extended(data, 14, p)
          = [value |-> data[p] * 256 + data[p + 1] + 269, next |-> p + 2]
    BY <2>2, <2>3, Zenon DEF Extended
  <2>5. data[p] * 256 + data[p + 1] + 269 = v
    BY <2>2, <1>6
  <2>6. Extended(data, 14, p).value = v /\ Extended(data, 14, p).next = p + 2
    BY <2>4, <2>5
  <2> QED
    BY <2>1, <2>6, Zenon
<1> DEFINE Done == /\ Extended(data, Head(n), p).value = v
                   /\ Extended(data, Head(n), p).next = p + Len(Tail(n))
<1>7. (\E hi, lo \in Byte : v >= 269 /\ v = hi * 256 + lo + 269 /\ n = <<14, hi, lo>>) => Done
  BY <1>6
<1>8. (v < 13 /\ n = <<v>> => Done) /\ (v >= 13 /\ v < 269 /\ n = <<13, v - 13>> => Done)
  BY <1>4, <1>5 DEF n
<1> HIDE DEF Done
<1>9. Done
  BY <1>2, <1>7, <1>8
<1> QED
  BY <1>9, Zenon DEF Done, n

(* The position after the option at p, as the parser computes it. *)
AfterOption(data, p) ==
  LET delta == Extended(data, data[p] \div 16, p + 1)
      length == Extended(data, data[p] % 16, delta.next)
  IN length.next + length.value

(* c is a followed by b. *)
Joins(S, a, b, c) ==
  /\ c \in Seq(S)
  /\ Len(a) \in Nat /\ Len(b) \in Nat /\ Len(c) = Len(a) + Len(b)
  /\ \A i \in 1 .. Len(a) : c[i] = a[i]
  /\ \A i \in 1 .. Len(b) : c[Len(a) + i] = b[i]

LEMMA Joined ==
  ASSUME NEW S, NEW a \in Seq(S), NEW b \in Seq(S)
  PROVE  Joins(S, a, b, a \o b)
<1>1. Len(a) \in Nat /\ Len(b) \in Nat
  OBVIOUS
<1>2. /\ a \o b \in Seq(S) /\ Len(a \o b) = Len(a) + Len(b)
      /\ \A i \in 1 .. Len(a) + Len(b) :
           (a \o b)[i] = IF i <= Len(a) THEN a[i] ELSE b[i - Len(a)]
  BY ConcatProperties
<1>3. ASSUME NEW i \in 1 .. Len(a)
      PROVE  (a \o b)[i] = a[i]
  BY <1>1, <1>2
<1>4. ASSUME NEW i \in 1 .. Len(b)
      PROVE  (a \o b)[Len(a) + i] = b[i]
  <2>1. Len(a) + i \in 1 .. Len(a) + Len(b) /\ ~(Len(a) + i <= Len(a))
    BY <1>1
  <2>2. (Len(a) + i) - Len(a) = i
    BY <1>1
  <2> QED
    BY <1>2, <2>1, <2>2, Zenon
<1> QED
  BY <1>1, <1>2, <1>3, <1>4, Zenon DEF Joins

(* Two nibbles in a byte. *)
LEMMA NibblesByte ==
  ASSUME NEW x \in 0 .. 14, NEW y \in 0 .. 14
  PROVE  /\ x * 16 + y \in Byte /\ x * 16 + y # 255
         /\ (x * 16 + y) \div 16 = x /\ (x * 16 + y) % 16 = y
<1> QED
  BY DEF Byte

(* An option is its nibbles, their extensions and its value, in this order. *)
LaidOut(delta, val) ==
  LET d == encodeCoapOptionNibble(delta)
      l == encodeCoapOptionNibble(Len(val))
      e == encodeCoapOption(delta, val)
  IN /\ e \in Seq(Byte) /\ e[1] # 255
     /\ e[1] \div 16 = Head(d) /\ e[1] % 16 = Head(l)
     /\ Len(Tail(d)) \in Nat /\ Len(Tail(l)) \in Nat
     /\ Len(e) = 1 + Len(Tail(d)) + Len(Tail(l)) + Len(val)
     /\ \A i \in 1 .. Len(Tail(d)) : e[1 + i] = Tail(d)[i]
     /\ \A i \in 1 .. Len(Tail(l)) : e[1 + Len(Tail(d)) + i] = Tail(l)[i]

LEMMA OptionParts ==
  ASSUME NEW delta \in 0 .. LargestExtended, NEW val \in Seq(Byte),
         Len(val) <= LargestExtended
  PROVE  LaidOut(delta, val)
<1> DEFINE d == encodeCoapOptionNibble(delta)
           l == encodeCoapOptionNibble(Len(val))
           e == encodeCoapOption(delta, val)
<1>0. Len(val) \in Nat
  OBVIOUS
<1>1. Len(val) \in 0 .. LargestExtended
  BY <1>0, LargestTyped
<1>2. Head(d) \in 0 .. 14 /\ Tail(d) \in Seq(Byte)
  BY NibbleTyped, Zenon
<1>3. Head(l) \in 0 .. 14 /\ Tail(l) \in Seq(Byte)
  BY <1>1, NibbleTyped, Zenon
<1>4. e = ((<<Head(d) * 16 + Head(l)>> \o Tail(d)) \o Tail(l)) \o val
  BY Zenon DEF encodeCoapOption
<1> HIDE DEF d, l, e
<1>5. PICK hd \in 0 .. 14, hl \in 0 .. 14 : hd = Head(d) /\ hl = Head(l)
  BY <1>2, <1>3, Zenon
<1>6. PICK td \in Seq(Byte), tl \in Seq(Byte) : td = Tail(d) /\ tl = Tail(l)
  BY <1>2, <1>3, Zenon
<1>7. PICK b : b = hd * 16 + hl
  OBVIOUS
<1>8. b \in Byte /\ b # 255 /\ b \div 16 = hd /\ b % 16 = hl
  <2>1. /\ hd * 16 + hl \in Byte /\ hd * 16 + hl # 255
        /\ (hd * 16 + hl) \div 16 = hd /\ (hd * 16 + hl) % 16 = hl
    BY NibblesByte, Zenon
  <2> QED
    BY <2>1, <1>7, Zenon
<1>9. <<b>> \in Seq(Byte) /\ Len(<<b>>) = 1 /\ <<b>>[1] = b
  BY <1>8
<1>10. PICK x : x = <<b>>
  OBVIOUS
<1>11. x \in Seq(Byte) /\ Len(x) = 1 /\ x[1] = b
  BY <1>9, <1>10, Zenon
<1>12. PICK y : y = x \o td
  OBVIOUS
<1>13. PICK z : z = y \o tl
  OBVIOUS
<1>14. e = z \o val
  BY <1>4, <1>5, <1>6, <1>7, <1>10, <1>12, <1>13, Zenon
<1>15. /\ y \in Seq(Byte) /\ Len(td) \in Nat /\ Len(y) = 1 + Len(td)
       /\ y[1] = b /\ \A i \in 1 .. Len(td) : y[1 + i] = td[i]
  <2>1. /\ y \in Seq(Byte) /\ Len(td) \in Nat /\ Len(y) = Len(x) + Len(td)
        /\ \A i \in 1 .. Len(x) : y[i] = x[i]
        /\ \A i \in 1 .. Len(td) : y[Len(x) + i] = td[i]
    <3>1. Joins(Byte, x, td, x \o td)
      BY <1>11, Joined, Zenon
    <3>2. Joins(Byte, x, td, y)
      BY <3>1, <1>12, Zenon
    <3> QED
      BY <3>2, Zenon DEF Joins
  <2> QED
    BY <2>1, <1>11
<1>16. /\ z \in Seq(Byte) /\ Len(tl) \in Nat /\ Len(z) = 1 + Len(td) + Len(tl)
       /\ z[1] = b /\ \A i \in 1 .. Len(td) : z[1 + i] = td[i]
       /\ \A i \in 1 .. Len(tl) : z[1 + Len(td) + i] = tl[i]
  <2>1. /\ z \in Seq(Byte) /\ Len(tl) \in Nat /\ Len(z) = Len(y) + Len(tl)
        /\ \A i \in 1 .. Len(y) : z[i] = y[i]
        /\ \A i \in 1 .. Len(tl) : z[Len(y) + i] = tl[i]
    <3>1. Joins(Byte, y, tl, y \o tl)
      BY <1>15, Joined, Zenon
    <3>2. Joins(Byte, y, tl, z)
      BY <3>1, <1>13, Zenon
    <3> QED
      BY <3>2, Zenon DEF Joins
  <2>2. 1 \in 1 .. Len(y) /\ \A i \in 1 .. Len(td) : 1 + i \in 1 .. Len(y)
    BY <1>15
  <2>3. z[1] = b /\ \A i \in 1 .. Len(td) : z[1 + i] = td[i]
    BY <2>1, <2>2, <1>15, Zenon
  <2>4. Len(z) = 1 + Len(td) + Len(tl) /\ Len(y) = 1 + Len(td)
    BY <2>1, <1>15
  <2> QED
    BY <2>1, <2>3, <2>4, Zenon
<1>17. /\ e \in Seq(Byte) /\ Len(e) = 1 + Len(td) + Len(tl) + Len(val)
       /\ e[1] = b /\ \A i \in 1 .. Len(td) : e[1 + i] = td[i]
       /\ \A i \in 1 .. Len(tl) : e[1 + Len(td) + i] = tl[i]
  <2>1. /\ e \in Seq(Byte) /\ Len(e) = Len(z) + Len(val)
        /\ \A i \in 1 .. Len(z) : e[i] = z[i]
    <3>1. Joins(Byte, z, val, z \o val)
      BY <1>16, Joined, Zenon
    <3>2. Joins(Byte, z, val, e)
      BY <3>1, <1>14, Zenon
    <3> QED
      BY <3>2, Zenon DEF Joins
  <2>2. /\ 1 \in 1 .. Len(z) /\ \A i \in 1 .. Len(td) : 1 + i \in 1 .. Len(z)
        /\ \A i \in 1 .. Len(tl) : 1 + Len(td) + i \in 1 .. Len(z)
    BY <1>15, <1>16
  <2>3. /\ e[1] = b /\ \A i \in 1 .. Len(td) : e[1 + i] = td[i]
        /\ \A i \in 1 .. Len(tl) : e[1 + Len(td) + i] = tl[i]
    BY <2>1, <2>2, <1>16, Zenon
  <2> QED
    BY <2>1, <2>3, <1>16, Zenon
<1>18. e[1] # 255
  BY <1>8, <1>17, Zenon
<1>19. e[1] \div 16 = Head(d) /\ e[1] % 16 = Head(l)
  BY <1>5, <1>8, <1>17, Zenon
<1>20. /\ Len(Tail(d)) \in Nat /\ Len(Tail(l)) \in Nat
       /\ Len(e) = 1 + Len(Tail(d)) + Len(Tail(l)) + Len(val)
  BY <1>6, <1>15, <1>16, <1>17, Zenon
<1>21. /\ \A i \in 1 .. Len(Tail(d)) : e[1 + i] = Tail(d)[i]
       /\ \A i \in 1 .. Len(Tail(l)) : e[1 + Len(Tail(d)) + i] = Tail(l)[i]
  BY <1>6, <1>17, Zenon
<1> QED
  BY <1>17, <1>18, <1>19, <1>20, <1>21, Zenon DEF d, l, e, LaidOut

(* An option, and not the marker, is next at p. *)
OptionAt(data, p) == p <= Len(data) /\ data[p] # 255

(* The parser goes from an option to what follows it, and takes no option  *)
(* for the marker.                                                         *)
LEMMA OptionSkipped ==
  ASSUME NEW data \in Seq(Byte), NEW p \in Nat, p > 0,
         NEW delta \in 0 .. LargestExtended, NEW val \in Seq(Byte),
         Len(val) <= LargestExtended, Holds(data, p, encodeCoapOption(delta, val))
  PROVE  /\ OptionAt(data, p)
         /\ AfterOption(data, p) = p + Len(encodeCoapOption(delta, val))
         /\ p + Len(encodeCoapOption(delta, val)) <= Len(data) + 1
<1> DEFINE d == encodeCoapOptionNibble(delta)
           l == encodeCoapOptionNibble(Len(val))
           e == encodeCoapOption(delta, val)
<1>1. /\ e \in Seq(Byte) /\ e[1] # 255
      /\ e[1] \div 16 = Head(d) /\ e[1] % 16 = Head(l)
      /\ Len(Tail(d)) \in Nat /\ Len(Tail(l)) \in Nat
      /\ Len(e) = 1 + Len(Tail(d)) + Len(Tail(l)) + Len(val)
      /\ \A i \in 1 .. Len(Tail(d)) : e[1 + i] = Tail(d)[i]
      /\ \A i \in 1 .. Len(Tail(l)) : e[1 + Len(Tail(d)) + i] = Tail(l)[i]
  <2>1. LaidOut(delta, val)
    BY OptionParts
  <2> QED
    BY <2>1, Zenon DEF LaidOut
<1>2. Len(val) \in 0 .. LargestExtended /\ Len(data) \in Nat /\ Len(val) \in Nat
  <2>1. Len(data) \in Nat /\ Len(val) \in Nat
    OBVIOUS
  <2> QED
    BY <2>1, LargestTyped
<1>3. /\ p + Len(e) - 1 <= Len(data)
      /\ \A i \in 1 .. Len(e) : data[p + i - 1] = e[i]
  BY DEF Holds
<1> HIDE DEF d, l, e
<1>4. PICK n \in Nat, m \in Nat : n = Len(Tail(d)) /\ m = Len(Tail(l))
  BY <1>1
<1>5. Len(e) = 1 + n + m + Len(val)
  BY <1>1, <1>4
<1>6. p <= Len(data) /\ data[p] = e[1] /\ p + Len(e) <= Len(data) + 1
  <2>1. 1 \in 1 .. Len(e) /\ p + 1 - 1 = p
    BY <1>2, <1>5
  <2>2. data[p + 1 - 1] = e[1]
    BY <2>1, <1>3
  <2> QED
    BY <2>1, <2>2, <1>2, <1>3, <1>5
<1>7. Holds(data, p + 1, Tail(d))
  <2>1. p + 1 + n - 1 <= Len(data)
    BY <1>2, <1>3, <1>5
  <2>2. ASSUME NEW i \in 1 .. n
        PROVE  data[p + 1 + i - 1] = Tail(d)[i]
    <3>1. 1 + i \in 1 .. Len(e) /\ p + (1 + i) - 1 = p + 1 + i - 1
      BY <1>2, <1>5
    <3>2. data[p + (1 + i) - 1] = e[1 + i]
      BY <3>1, <1>3
    <3>3. e[1 + i] = Tail(d)[i]
      BY <1>1, <1>4
    <3> QED
      BY <3>1, <3>2, <3>3
  <2> QED
    BY <2>1, <2>2, <1>4, Zenon DEF Holds
<1>8. Holds(data, p + 1 + n, Tail(l))
  <2>1. p + 1 + n + m - 1 <= Len(data)
    BY <1>2, <1>3, <1>5
  <2>2. ASSUME NEW i \in 1 .. m
        PROVE  data[p + 1 + n + i - 1] = Tail(l)[i]
    <3>1. 1 + n + i \in 1 .. Len(e) /\ p + (1 + n + i) - 1 = p + 1 + n + i - 1
      BY <1>2, <1>5
    <3>2. data[p + (1 + n + i) - 1] = e[1 + n + i]
      BY <3>1, <1>3
    <3>3. e[1 + n + i] = Tail(l)[i]
      BY <1>1, <1>4
    <3> QED
      BY <3>1, <3>2, <3>3
  <2> QED
    BY <2>1, <2>2, <1>4, Zenon DEF Holds
<1>9. Extended(data, Head(d), p + 1).next = p + 1 + n
  <2>1. p + 1 \in Nat /\ p + 1 > 0
    OBVIOUS
  <2>2. Extended(data, Head(d), p + 1).next = p + 1 + Len(Tail(d))
    BY <2>1, <1>7, ExtensionRead, Zenon DEF d
  <2> QED
    BY <2>2, <1>4, Zenon
<1>10. /\ Extended(data, Head(l), p + 1 + n).value = Len(val)
       /\ Extended(data, Head(l), p + 1 + n).next = p + 1 + n + m
  <2>1. p + 1 + n \in Nat /\ p + 1 + n > 0
    OBVIOUS
  <2>2. /\ Extended(data, Head(l), p + 1 + n).value = Len(val)
        /\ Extended(data, Head(l), p + 1 + n).next = p + 1 + n + Len(Tail(l))
    BY <2>1, <1>2, <1>8, ExtensionRead, Zenon DEF l
  <2> QED
    BY <2>2, <1>4, Zenon
<1>11. data[p] \div 16 = Head(d) /\ data[p] % 16 = Head(l)
  BY <1>1, <1>6
<1>12. AfterOption(data, p) = (p + 1 + n + m) + Len(val)
  BY <1>9, <1>10, <1>11, Zenon DEF AfterOption
<1>13. AfterOption(data, p) = p + Len(e)
  BY <1>2, <1>5, <1>12
<1> QED
  BY <1>1, <1>6, <1>13 DEF e, OptionAt

-----------------------------------------------------------------------------
(* Packets: the loop of the parser. *)

(* A recursive function that goes on at a larger argument has a value. *)
Jumping(n, S, D, B, J) ==
  \E f \in [1 .. n -> S] : \A p \in 1 .. n : f[p] = IF p \in D THEN B[p] ELSE f[J[p]]

LEMMA JumpsHaveValues ==
  ASSUME NEW n \in Nat, NEW S, NEW D, NEW B \in [1 .. n -> S], NEW J,
         \A p \in 1 .. n : p \notin D => J[p] \in p + 1 .. n
  PROVE  Jumping(n, S, D, B, J)
<1> DEFINE Fine(f, p) == f[p] = IF p \in D THEN B[p] ELSE f[J[p]]
           T == {k \in 0 .. n : \E f \in [1 .. n -> S] :
                                  \A p \in n - k + 1 .. n : Fine(f, p)}
<1>1. 0 \in T
  <2>1. \A p \in n - 0 + 1 .. n : Fine(B, p)
    OBVIOUS
  <2> HIDE DEF Fine
  <2> QED
    BY <2>1
<1>2. ASSUME NEW k \in 0 .. n - 1, k \in T
      PROVE  k + 1 \in T
  <2>1. PICK f \in [1 .. n -> S] : \A p \in n - k + 1 .. n : Fine(f, p)
    BY <1>2
  <2>2. PICK q \in 1 .. n : q = n - k
    OBVIOUS
  <2>3. PICK v \in S : v = IF q \in D THEN B[q] ELSE f[J[q]]
    <3>1. CASE q \in D
      BY <3>1
    <3>2. CASE q \notin D
      <4>1. J[q] \in 1 .. n
        BY <3>2, <2>2
      <4>2. f[J[q]] \in S
        BY <4>1
      <4> QED
        BY <3>2, <4>2
    <3> QED
      BY <3>1, <3>2
  <2> DEFINE g == [f EXCEPT ![q] = v]
  <2>4. g \in [1 .. n -> S] /\ g[q] = v /\ \A p \in 1 .. n : p # q => g[p] = f[p]
    OBVIOUS
  <2> HIDE DEF g
  <2>5. ASSUME NEW p \in n - (k + 1) + 1 .. n
        PROVE  Fine(g, p)
    <3>1. p \in 1 .. n /\ (p = q \/ p \in n - k + 1 .. n)
      BY <2>2
    <3>2. CASE p = q
      <4>1. CASE q \in D
        BY <3>2, <4>1, <2>3, <2>4
      <4>2. CASE q \notin D
        <5>1. J[q] \in q + 1 .. n
          BY <4>2
        <5>2. J[q] \in 1 .. n /\ J[q] # q
          BY <5>1
        <5> QED
          BY <3>2, <4>2, <5>2, <2>3, <2>4
      <4> QED
        BY <4>1, <4>2
    <3>3. CASE p \in n - k + 1 .. n
      <4>1. p # q /\ g[p] = f[p] /\ f[p] = IF p \in D THEN B[p] ELSE f[J[p]]
        BY <3>1, <3>3, <2>1, <2>2, <2>4
      <4>2. CASE p \in D
        BY <4>1, <4>2
      <4>3. CASE p \notin D
        <5>1. J[p] \in p + 1 .. n
          BY <3>1, <4>3
        <5>2. J[p] \in 1 .. n /\ J[p] # q
          BY <5>1, <3>1, <3>3, <2>2
        <5> QED
          BY <4>1, <4>3, <5>2, <2>4
      <4> QED
        BY <4>2, <4>3
    <3> QED
      BY <3>1, <3>2, <3>3
  <2>6. k + 1 \in 0 .. n
    OBVIOUS
  <2> HIDE DEF Fine
  <2> QED
    BY <2>4, <2>5, <2>6
<1>3. n \in T
  <2>1. \A k \in 0 .. n - 1 : k \in T => k + 1 \in T
    BY <1>2
  <2>2. n \in 0 .. n
    OBVIOUS
  <2> HIDE DEF T
  <2>3. \A k \in 0 .. n : k \in T
    BY <1>1, <2>1, IntervalInduction
  <2> QED
    BY <2>2, <2>3
<1>4. PICK f \in [1 .. n -> S] : \A p \in n - n + 1 .. n : Fine(f, p)
  BY <1>3
<1>5. n - n + 1 .. n = 1 .. n
  OBVIOUS
<1> QED
  BY <1>4, <1>5 DEF Jumping

LEMMA ByteAt ==
  ASSUME NEW data \in Seq(Byte), NEW p \in 1 .. Len(data)
  PROVE  data[p] \in Nat /\ data[p] \div 16 \in 0 .. 15 /\ data[p] % 16 \in 0 .. 15
<1>1. PICK b \in Byte : b = data[p]
  BY ElementOfSeq
<1>2. b \in 0 .. 255
  BY DEF Byte
<1>3. b \in Nat /\ b \div 16 \in 0 .. 15 /\ b % 16 \in 0 .. 15
  BY <1>2
<1> QED
  BY <1>1, <1>3, Zenon

(* The extension of a nibble ends where it starts or later. *)
LEMMA ExtendedForward ==
  ASSUME NEW data \in Seq(Byte), NEW nibble \in 0 .. 15, NEW p \in Nat, p > 0
  PROVE  /\ Extended(data, nibble, p).value \in Nat
         /\ Extended(data, nibble, p).next \in Nat
         /\ Extended(data, nibble, p).next >= p
<1>1. Len(data) \in Nat
  OBVIOUS
<1>2. CASE nibble = 13 /\ p <= Len(data)
  <2>1. ~(nibble = 14 /\ p + 1 <= Len(data))
    BY <1>2
  <2>2. Extended(data, nibble, p) = [value |-> data[p] + 13, next |-> p + 1]
    BY <1>2, <2>1, Zenon DEF Extended
  <2>3. data[p] \in Nat
    <3>1. p \in 1 .. Len(data)
      BY <1>1, <1>2
    <3> QED
      BY <3>1, ByteAt, Zenon
  <2> QED
    BY <2>2, <2>3
<1>3. CASE nibble = 14 /\ p + 1 <= Len(data)
  <2>1. ~(nibble = 13 /\ p <= Len(data))
    BY <1>3
  <2>2. Extended(data, nibble, p)
          = [value |-> data[p] * 256 + data[p + 1] + 269, next |-> p + 2]
    BY <1>3, <2>1, Zenon DEF Extended
  <2>3. data[p] \in Nat /\ data[p + 1] \in Nat
    <3>1. p \in 1 .. Len(data) /\ p + 1 \in 1 .. Len(data)
      BY <1>1, <1>3
    <3> QED
      BY <3>1, ByteAt, Zenon
  <2>4. data[p] * 256 + data[p + 1] + 269 \in Nat
    BY <2>3
  <2> QED
    BY <2>2, <2>4
<1>4. CASE /\ ~(nibble = 13 /\ p <= Len(data))
           /\ ~(nibble = 14 /\ p + 1 <= Len(data))
  <2>1. Extended(data, nibble, p) = [value |-> nibble, next |-> p]
    BY <1>4, Zenon DEF Extended
  <2> QED
    BY <2>1
<1> QED
  BY <1>2, <1>3, <1>4

LEMMA AfterForward ==
  ASSUME NEW data \in Seq(Byte), NEW p \in 1 .. Len(data)
  PROVE  AfterOption(data, p) \in Nat /\ AfterOption(data, p) > p
<1>1. p \in Nat /\ p + 1 \in Nat /\ p + 1 > 0
  OBVIOUS
<1>2. data[p] \div 16 \in 0 .. 15 /\ data[p] % 16 \in 0 .. 15
  BY ByteAt
<1> DEFINE d == Extended(data, data[p] \div 16, p + 1)
           l == Extended(data, data[p] % 16, d.next)
<1>3. d.next \in Nat /\ d.next >= p + 1
  BY <1>1, <1>2, ExtendedForward, Zenon
<1>4. d.next > 0
  BY <1>1, <1>3
<1> HIDE DEF d
<1>5. l.value \in Nat /\ l.next \in Nat /\ l.next >= d.next
  BY <1>2, <1>3, <1>4, ExtendedForward, Zenon
<1>6. AfterOption(data, p) = l.next + l.value
  BY Zenon DEF AfterOption, d
<1> HIDE DEF l
<1> QED
  BY <1>1, <1>3, <1>5, <1>6

ParserLoop(data, f) ==
  f = [p \in 1 .. Len(data) + 1 |->
         CASE p > Len(data) -> <<>>
           [] p <= Len(data) /\ data[p] = 255 -> SubSeq(data, p + 1, Len(data))
           [] p <= Len(data) /\ data[p] # 255 /\ AfterOption(data, p) > Len(data) + 1 -> <<>>
           [] OTHER -> f[AfterOption(data, p)]]

LEMMA ParserRuns ==
  ASSUME NEW data \in Seq(Byte)
  PROVE  \E f : ParserLoop(data, f)
<1> DEFINE L == Len(data)
           n == L + 1
           A(p) == AfterOption(data, p)
           D == {p \in 1 .. n : p > L \/ data[p] = 255 \/ A(p) > L + 1}
           Cut(p) == SubSeq(data, p + 1, L)
           B == [p \in 1 .. n |-> IF p <= L /\ data[p] = 255 THEN Cut(p) ELSE <<>>]
           J == [p \in 1 .. n |-> A(p)]
           Value(f, p) == CASE p > L -> <<>>
                            [] p <= L /\ data[p] = 255 -> Cut(p)
                            [] p <= L /\ data[p] # 255 /\ A(p) > L + 1 -> <<>>
                            [] OTHER -> f[A(p)]
<1>1. L \in Nat /\ n \in Nat
  OBVIOUS
<1>2. \A p \in 1 .. n : Cut(p) \in Seq(Byte)
  OBVIOUS
<1>3. <<>> \in Seq(Byte)
  OBVIOUS
<1> HIDE DEF Cut
<1>4. B \in [1 .. n -> Seq(Byte)]
  BY <1>2, <1>3, Zenon
<1>5. \A p \in 1 .. n : p \notin D => J[p] \in p + 1 .. n
  <2> SUFFICES ASSUME NEW p \in 1 .. n, p \notin D
               PROVE  J[p] \in p + 1 .. n
    OBVIOUS
  <2>1. p \in 1 .. L /\ ~(A(p) > L + 1)
    BY <1>1
  <2>2. A(p) \in Nat /\ A(p) > p
    BY <2>1, AfterForward, Zenon
  <2>3. J[p] = A(p)
    BY Zenon
  <2> HIDE DEF J, A
  <2> QED
    BY <2>1, <2>2, <2>3, <1>1
<1>6. PICK f \in [1 .. n -> Seq(Byte)] :
        \A p \in 1 .. n : f[p] = IF p \in D THEN B[p] ELSE f[J[p]]
  <2> HIDE DEF n, D, B, J
  <2>1. Jumping(n, Seq(Byte), D, B, J)
    BY <1>1, <1>4, <1>5, JumpsHaveValues, Zenon
  <2> QED
    BY <2>1, Zenon DEF Jumping
<1>7. ASSUME NEW p \in 1 .. n
      PROVE  f[p] = Value(f, p)
  <2>1. B[p] = (IF p <= L /\ data[p] = 255 THEN Cut(p) ELSE <<>>) /\ J[p] = A(p)
    BY Zenon
  <2>2. p > L <=> ~(p <= L)
    BY <1>1
  <2>3. p \in D <=> (p > L \/ data[p] = 255 \/ A(p) > L + 1)
    BY Zenon
  <2>4. f[p] = IF p \in D THEN B[p] ELSE f[J[p]]
    BY <1>6, Zenon
  <2> HIDE DEF D, B, J, A, L
  <2>5. CASE p > L
    BY <2>1, <2>2, <2>3, <2>4, <2>5, Zenon
  <2>6. CASE p <= L /\ data[p] = 255
    BY <2>1, <2>2, <2>3, <2>4, <2>6, Zenon
  <2>7. CASE p <= L /\ data[p] # 255 /\ A(p) > L + 1
    BY <2>1, <2>2, <2>3, <2>4, <2>7, Zenon
  <2>8. CASE p <= L /\ data[p] # 255 /\ ~(A(p) > L + 1)
    BY <2>1, <2>2, <2>3, <2>4, <2>8, Zenon
  <2> QED
    BY <2>2, <2>5, <2>6, <2>7, <2>8, Zenon
<1> HIDE DEF Value
<1>8. f = [p \in 1 .. n |-> f[p]]
  BY Zenon
<1>9. f = [p \in 1 .. n |-> Value(f, p)]
  BY <1>7, <1>8, Zenon
<1>10. ParserLoop(data, f)
  BY <1>9, Zenon DEF ParserLoop, Cut, Value
<1> QED
  BY <1>10

LEMMA ParserFound ==
  ASSUME NEW data \in Seq(Byte)
  PROVE  \E f : /\ ParserLoop(data, f)
                /\ parseCoapPayload(data)
                     = IF Len(data) < 4 \/ 5 + (data[1] % 16) > Len(data) THEN <<>>
                       ELSE f[5 + (data[1] % 16)]
<1> DEFINE g == CHOOSE f : ParserLoop(data, f)
<1>1. ParserLoop(data, g)
  BY ParserRuns, Zenon
<1>2. parseCoapPayload(data)
        = IF Len(data) < 4 \/ 5 + (data[1] % 16) > Len(data) THEN <<>>
          ELSE g[5 + (data[1] % 16)]
  BY Zenon DEF parseCoapPayload, ParserLoop, AfterOption
<1> QED
  BY <1>1, <1>2, Zenon

(* What the loop says of a position: the end, a marker, an option. *)
LEMMA ParserSteps ==
  ASSUME NEW data \in Seq(Byte), NEW f, ParserLoop(data, f),
         NEW p \in 1 .. Len(data) + 1
  PROVE  /\ p > Len(data) => f[p] = <<>>
         /\ p <= Len(data) /\ data[p] = 255 => f[p] = SubSeq(data, p + 1, Len(data))
         /\ p <= Len(data) /\ data[p] # 255 /\ AfterOption(data, p) <= Len(data) + 1
              => f[p] = f[AfterOption(data, p)]
<1> DEFINE L == Len(data)
           A == AfterOption(data, p)
<1>1. L \in Nat
  OBVIOUS
<1>2. f[p] = CASE p > L -> <<>>
               [] p <= L /\ data[p] = 255 -> SubSeq(data, p + 1, L)
               [] p <= L /\ data[p] # 255 /\ A > L + 1 -> <<>>
               [] OTHER -> f[A]
  BY Zenon DEF ParserLoop
<1>3. p > L <=> ~(p <= L)
  BY <1>1
<1>4. p <= L => A \in Nat
  BY <1>1, AfterForward
<1> HIDE DEF L, A
<1>5. ASSUME p > L
      PROVE  f[p] = <<>>
  BY <1>2, <1>3, <1>5, Zenon
<1>6. ASSUME p <= L, data[p] = 255
      PROVE  f[p] = SubSeq(data, p + 1, L)
  BY <1>2, <1>3, <1>6, Zenon
<1>7. ASSUME p <= L, data[p] # 255, A <= L + 1
      PROVE  f[p] = f[A]
  <2>1. ~(A > L + 1)
    BY <1>1, <1>4, <1>7
  <2> QED
    BY <1>2, <1>3, <1>7, <2>1, Zenon
<1> QED
  BY <1>5, <1>6, <1>7, Zenon DEF L, A

LEMMA ParserEnds ==
  ASSUME NEW data \in Seq(Byte), NEW f, ParserLoop(data, f),
         NEW p \in 1 .. Len(data) + 1, p > Len(data)
  PROVE  f[p] = <<>>
<1> QED
  BY ParserSteps

LEMMA ParserReturns ==
  ASSUME NEW data \in Seq(Byte), NEW f, ParserLoop(data, f),
         NEW p \in 1 .. Len(data) + 1, p <= Len(data), data[p] = 255
  PROVE  f[p] = SubSeq(data, p + 1, Len(data))
<1> QED
  BY ParserSteps

LEMMA ParserSkips ==
  ASSUME NEW data \in Seq(Byte), NEW f, ParserLoop(data, f),
         NEW p \in 1 .. Len(data) + 1, OptionAt(data, p),
         AfterOption(data, p) \in Nat, AfterOption(data, p) <= Len(data) + 1
  PROVE  f[p] = f[AfterOption(data, p)]
<1> QED
  BY ParserSteps DEF OptionAt
-----------------------------------------------------------------------------
(* Packets: from the header to the payload. *)

LEMMA MarkedEmpty == Marked(<<>>) = <<>> /\ Len(Marked(<<>>)) = 0
<1>1. ~(Len(<<>>) > 0) /\ Len(<<>>) = 0
  OBVIOUS
<1>2. Marked(<<>>) = <<>>
  BY <1>1, Zenon DEF Marked
<1> QED
  BY <1>1, <1>2, Zenon

LEMMA MarkedParts ==
  ASSUME NEW payload \in Seq(Byte), payload # <<>>
  PROVE  /\ Marked(payload) \in Seq(Byte)
         /\ Len(Marked(payload)) = 1 + Len(payload)
         /\ Marked(payload)[1] = 255
         /\ \A i \in 1 .. Len(payload) : Marked(payload)[1 + i] = payload[i]
<1>1. Len(payload) > 0
  BY EmptySeq
<1>2. Marked(payload) = <<255>> \o payload
  BY <1>1, Zenon DEF Marked
<1>3. PICK b \in Byte : b = 255
  BY DEF Byte
<1>4. PICK m : m = <<b>>
  OBVIOUS
<1>5. m \in Seq(Byte) /\ Len(m) = 1 /\ m[1] = b
  BY <1>4
<1>6. Joins(Byte, m, payload, m \o payload)
  BY <1>5, Joined, Zenon
<1>7. Joins(Byte, m, payload, Marked(payload))
  BY <1>2, <1>3, <1>4, <1>6, Zenon
<1>8. /\ Marked(payload) \in Seq(Byte) /\ Len(Marked(payload)) = Len(m) + Len(payload)
      /\ \A i \in 1 .. Len(m) : Marked(payload)[i] = m[i]
      /\ \A i \in 1 .. Len(payload) : Marked(payload)[Len(m) + i] = payload[i]
  BY <1>7, Zenon DEF Joins
<1>9. 1 \in 1 .. Len(m)
  BY <1>5
<1>10. Marked(payload)[1] = b
  BY <1>5, <1>8, <1>9, Zenon
<1>11. Len(Marked(payload)) = 1 + Len(payload)
  BY <1>5, <1>8, Zenon
<1>12. \A i \in 1 .. Len(payload) : Marked(payload)[1 + i] = payload[i]
  BY <1>5, <1>8, Zenon
<1> QED
  BY <1>3, <1>8, <1>10, <1>11, <1>12

(* Where only the marked payload is left, the parser returns it. *)
LEMMA PayloadRead ==
  ASSUME NEW data \in Seq(Byte), NEW f, ParserLoop(data, f), NEW p \in Nat, p > 0,
         NEW payload \in Seq(Byte), Holds(data, p, Marked(payload)),
         p + Len(Marked(payload)) = Len(data) + 1
  PROVE  /\ p \in 1 .. Len(data) + 1 /\ f[p] = payload
         /\ p > Len(data) => payload = <<>>
<1>1. Len(data) \in Nat /\ Len(payload) \in Nat
  OBVIOUS
<1>2. CASE payload = <<>>
  <2>1. p = Len(data) + 1
    <3>1. Len(Marked(payload)) = 0
      BY <1>2, MarkedEmpty, Zenon
    <3> QED
      BY <3>1, <1>1
  <2>2. p \in 1 .. Len(data) + 1 /\ p > Len(data)
    BY <2>1, <1>1
  <2>3. f[p] = <<>>
    BY <2>2, ParserEnds, Zenon
  <2> QED
    BY <1>2, <2>2, <2>3, Zenon
<1>3. CASE payload # <<>>
  <2>1. /\ Len(Marked(payload)) = 1 + Len(payload) /\ Marked(payload)[1] = 255
        /\ \A i \in 1 .. Len(payload) : Marked(payload)[1 + i] = payload[i]
    BY <1>3, MarkedParts
  <2>2. p + Len(payload) = Len(data)
    BY <2>1, <1>1
  <2>3. p \in 1 .. Len(data) + 1 /\ p <= Len(data) /\ ~(p > Len(data))
    BY <2>2, <1>1
  <2>4. \A i \in 1 .. 1 + Len(payload) : data[p + i - 1] = Marked(payload)[i]
    BY <2>1, Zenon DEF Holds
  <2>5. data[p] = 255
    <3>1. 1 \in 1 .. 1 + Len(payload) /\ p + 1 - 1 = p
      BY <1>1
    <3>2. data[p + 1 - 1] = Marked(payload)[1]
      BY <3>1, <2>4
    <3> QED
      BY <3>1, <3>2, <2>1
  <2>6. f[p] = SubSeq(data, p + 1, Len(data))
    BY <2>3, <2>5, ParserReturns
  <2>7. SubSeq(data, p + 1, Len(data)) = payload
    <3>1. \A i \in p + 1 .. Len(data) : data[i] \in Byte
      BY <1>1, ElementOfSeq
    <3>2. /\ p + 1 \in Int /\ Len(data) \in Int
      BY <1>1
    <3> DEFINE s == SubSeq(data, p + 1, Len(data))
    <3>3. /\ s \in Seq(Byte)
          /\ Len(s) = IF p + 1 <= Len(data) THEN Len(data) - (p + 1) + 1 ELSE 0
          /\ \A i \in 1 .. Len(data) - (p + 1) + 1 : s[i] = data[(p + 1) + i - 1]
      BY <3>1, <3>2, SubSeqProperties
    <3> HIDE DEF s
    <3>4. Len(s) = Len(payload) /\ Len(data) - (p + 1) + 1 = Len(payload)
      BY <3>3, <2>2, <1>1
    <3>5. ASSUME NEW i \in 1 .. Len(payload)
          PROVE  s[i] = payload[i]
      <4>1. s[i] = data[(p + 1) + i - 1]
        BY <3>3, <3>4, Zenon
      <4>2. 1 + i \in 1 .. 1 + Len(payload) /\ p + (1 + i) - 1 = (p + 1) + i - 1
        BY <1>1
      <4>3. data[p + (1 + i) - 1] = Marked(payload)[1 + i]
        BY <4>2, <2>4, Zenon
      <4>4. Marked(payload)[1 + i] = payload[i]
        BY <2>1, Zenon
      <4> QED
        BY <4>1, <4>2, <4>3, <4>4, Zenon
    <3>6. s = payload
      BY <3>3, <3>4, <3>5, SeqEqual
    <3> QED
      BY <3>6, Zenon DEF s
  <2> QED
    BY <2>3, <2>6, <2>7, Zenon
<1> QED
  BY <1>2, <1>3

(* The parser goes along the positions of the options. *)
Along(data, n, pos) ==
  /\ pos \in [0 .. n -> Nat \ {0}]
  /\ pos[0] = 5 + (data[1] % 16)
  /\ \A i \in 1 .. n : /\ OptionAt(data, pos[i - 1])
                       /\ AfterOption(data, pos[i - 1]) = pos[i]
                       /\ pos[i] <= Len(data) + 1

LEMMA PacketParsed ==
  ASSUME NEW data \in Seq(Byte), Len(data) >= 4, NEW n \in Nat, NEW pos,
         Along(data, n, pos), NEW payload \in Seq(Byte),
         Holds(data, pos[n], Marked(payload)),
         pos[n] + Len(Marked(payload)) = Len(data) + 1
  PROVE  parseCoapPayload(data) = payload
<1>1. Len(data) \in Nat
  OBVIOUS
<1>2. PICK f : /\ ParserLoop(data, f)
               /\ parseCoapPayload(data)
                    = IF Len(data) < 4 \/ 5 + (data[1] % 16) > Len(data) THEN <<>>
                      ELSE f[5 + (data[1] % 16)]
  BY ParserFound
<1>3. /\ pos \in [0 .. n -> Nat \ {0}]
      /\ pos[0] = 5 + (data[1] % 16)
      /\ \A i \in 1 .. n : /\ OptionAt(data, pos[i - 1])
                           /\ AfterOption(data, pos[i - 1]) = pos[i]
                           /\ pos[i] <= Len(data) + 1
  BY Zenon DEF Along
<1> DEFINE T == {k \in 0 .. n : f[pos[0]] = f[pos[k]]}
<1>4. 0 \in T
  OBVIOUS
<1>5. ASSUME NEW k \in 0 .. n - 1, k \in T
      PROVE  k + 1 \in T
  <2>1. k + 1 \in 0 .. n /\ k + 1 \in 1 .. n /\ (k + 1) - 1 = k /\ k \in 0 .. n
    OBVIOUS
  <2>2. PICK p \in Nat : p = pos[k] /\ p > 0
    BY <2>1, <1>3
  <2>3. PICK q \in Nat : q = pos[k + 1]
    BY <2>1, <1>3
  <2>4. OptionAt(data, p) /\ AfterOption(data, p) = q /\ q <= Len(data) + 1
    <3>1. /\ OptionAt(data, pos[(k + 1) - 1])
          /\ AfterOption(data, pos[(k + 1) - 1]) = pos[k + 1]
          /\ pos[k + 1] <= Len(data) + 1
      BY <2>1, <1>3, Zenon
    <3> QED
      BY <3>1, <2>1, <2>2, <2>3, Zenon
  <2>5. p \in 1 .. Len(data) + 1
    <3>1. p <= Len(data)
      BY <2>4, Zenon DEF OptionAt
    <3> QED
      BY <2>2, <3>1, <1>1
  <2>6. f[p] = f[q]
    <3>1. AfterOption(data, p) \in Nat /\ AfterOption(data, p) <= Len(data) + 1
      BY <2>3, <2>4, Zenon
    <3>2. f[p] = f[AfterOption(data, p)]
      BY <2>4, <2>5, <3>1, <1>2, ParserSkips
    <3> QED
      BY <3>2, <2>4, Zenon
  <2>7. f[pos[0]] = f[pos[k]]
    BY <1>5
  <2>8. f[pos[0]] = f[pos[k + 1]]
    BY <2>2, <2>3, <2>6, <2>7, Zenon
  <2> QED
    BY <2>1, <2>8
<1>6. n \in 0 .. n
  OBVIOUS
<1>7. f[pos[0]] = f[pos[n]]
  <2>1. \A k \in 0 .. n - 1 : k \in T => k + 1 \in T
    BY <1>5
  <2>2. \A k \in 0 .. n : k \in T
    <3> HIDE DEF T
    <3> QED
      BY <1>4, <2>1, IntervalInduction
  <2> QED
    BY <1>6, <2>2
<1>8. PICK p \in Nat : p = pos[n] /\ p > 0
  BY <1>6, <1>3
<1>9. f[p] = payload /\ (p > Len(data) => payload = <<>>)
  <2>1. Holds(data, p, Marked(payload)) /\ p + Len(Marked(payload)) = Len(data) + 1
    BY <1>8
  <2> QED
    BY <2>1, <1>2, <1>8, PayloadRead
<1>10. CASE 5 + (data[1] % 16) > Len(data)
  <2>1. pos[0] > Len(data) /\ pos[0] \in Nat
    BY <1>10, <1>3
  <2>2. n = 0
    <3> SUFFICES ASSUME n # 0
                 PROVE  FALSE
      OBVIOUS
    <3>1. 1 \in 1 .. n /\ 1 - 1 = 0
      OBVIOUS
    <3>2. pos[0] <= Len(data)
      BY <3>1, <1>3, Zenon DEF OptionAt
    <3> QED
      BY <3>2, <2>1, <1>1
  <2>3. payload = <<>>
    BY <2>1, <2>2, <1>8, <1>9
  <2> QED
    BY <1>2, <1>10, <2>3, Zenon
<1>11. CASE ~(5 + (data[1] % 16) > Len(data))
  <2>1. ~(Len(data) < 4)
    BY <1>1
  <2>2. parseCoapPayload(data) = f[pos[0]]
    BY <1>2, <1>3, <1>11, <2>1, Zenon
  <2> QED
    BY <2>2, <1>7, <1>8, <1>9, Zenon
<1> QED
  BY <1>10, <1>11

(* An option that can be encoded. *)
Option == {o \in [delta : 0 .. LargestExtended, value : Seq(Byte)] :
             Len(o.value) <= LargestExtended}

Encoded(o) == encodeCoapOption(o.delta, o.value)

LEMMA EncodedTyped ==
  ASSUME NEW o \in Option
  PROVE  Encoded(o) \in Seq(Byte)
<1>1. /\ o.delta \in 0 .. LargestExtended /\ o.value \in Seq(Byte)
      /\ Len(o.value) <= LargestExtended
  BY DEF Option
<1>2. LaidOut(o.delta, o.value)
  BY <1>1, OptionParts
<1> QED
  BY <1>2, Zenon DEF Encoded, LaidOut

OptionsLoop(options, f) ==
  f = [i \in 0 .. Len(options) |->
         IF i = 0 THEN <<>>
         ELSE f[i - 1] \o encodeCoapOption(options[i].delta, options[i].value)]

LEMMA OptionsRun ==
  ASSUME NEW options \in Seq(Option)
  PROVE  \E f : OptionsLoop(options, f)
<1> DEFINE n == Len(options)
           F == [i \in 1 .. n |-> [x \in Seq(Byte) |-> x \o Encoded(options[i])]]
<1>0. <<>> \in Seq(Byte)
  OBVIOUS
<1>1. n \in Nat
  OBVIOUS
<1>2. \A i \in 1 .. n : \A x \in Seq(Byte) : x \o Encoded(options[i]) \in Seq(Byte)
  <2> SUFFICES ASSUME NEW i \in 1 .. n, NEW x \in Seq(Byte)
               PROVE  x \o Encoded(options[i]) \in Seq(Byte)
    BY Zenon
  <2>1. options[i] \in Option
    BY ElementOfSeq
  <2>2. Encoded(options[i]) \in Seq(Byte)
    BY <2>1, EncodedTyped, Zenon
  <2> QED
    BY <2>2, ConcatProperties
<1>3. PICK u \in [0 .. n -> Seq(Byte)] :
        u[0] = <<>> /\ \A i \in 1 .. n : u[i] = F[i][u[i - 1]]
  <2>1. F \in Steps(n, Seq(Byte))
    BY <1>2, Zenon DEF Steps
  <2> HIDE DEF F, n
  <2>2. Runs(n, Seq(Byte), <<>>, F)
    BY <2>1, <1>0, <1>1, LoopHasValues, Zenon
  <2> QED
    BY <2>2, Zenon DEF Runs
<1>4. ASSUME NEW i \in 1 .. n
      PROVE  u[i] = u[i - 1] \o Encoded(options[i])
  <2>1. i - 1 \in 0 .. n
    BY <1>1
  <2>2. u[i - 1] \in Seq(Byte)
    BY <2>1, Zenon
  <2> QED
    BY <2>2, <1>3, Zenon
<1>5. ASSUME NEW i \in 0 .. n
      PROVE  u[i] = IF i = 0 THEN <<>> ELSE u[i - 1] \o Encoded(options[i])
  <2>1. i = 0 \/ i \in 1 .. n
    BY <1>1
  <2> QED
    BY <2>1, <1>3, <1>4, Zenon
<1>6. u = [i \in 0 .. n |-> u[i]]
  BY Zenon
<1>7. u = [i \in 0 .. n |-> IF i = 0 THEN <<>> ELSE u[i - 1] \o Encoded(options[i])]
  BY <1>5, <1>6, Zenon
<1>8. OptionsLoop(options, u)
  BY <1>7, Zenon DEF OptionsLoop, Encoded
<1> QED
  BY <1>8

LEMMA OptionsSteps ==
  ASSUME NEW options \in Seq(Option), NEW u, OptionsLoop(options, u)
  PROVE  /\ u[0] = <<>>
         /\ \A k \in 0 .. Len(options) - 1 : u[k + 1] = u[k] \o Encoded(options[k + 1])
<1>1. Len(options) \in Nat
  OBVIOUS
<1>2. \A i \in 0 .. Len(options) :
        u[i] = IF i = 0 THEN <<>> ELSE u[i - 1] \o Encoded(options[i])
  BY Zenon DEF OptionsLoop, Encoded
<1>3. u[0] = <<>>
  <2>1. 0 \in 0 .. Len(options)
    BY <1>1
  <2> QED
    BY <2>1, <1>2, Zenon
<1>4. ASSUME NEW k \in 0 .. Len(options) - 1
      PROVE  u[k + 1] = u[k] \o Encoded(options[k + 1])
  <2>1. k + 1 \in 0 .. Len(options) /\ k + 1 # 0 /\ (k + 1) - 1 = k
    BY <1>1
  <2>2. u[k + 1] = u[(k + 1) - 1] \o Encoded(options[k + 1])
    BY <2>1, <1>2, Zenon
  <2> QED
    BY <2>1, <2>2, Zenon
<1> QED
  BY <1>3, <1>4

(* x is how y starts. *)
Starts(x, y) == Len(x) <= Len(y) /\ \A j \in 1 .. Len(x) : y[j] = x[j]

(* The options up to each one are how all of them start. *)
LEMMA OptionsStart ==
  ASSUME NEW options \in Seq(Option), NEW u, OptionsLoop(options, u)
  PROVE  \A k \in 0 .. Len(options) :
           u[k] \in Seq(Byte) /\ \A i \in 0 .. k : Starts(u[i], u[k])
<1> DEFINE n == Len(options)
           T == {k \in 0 .. n : /\ u[k] \in Seq(Byte)
                                /\ \A i \in 0 .. k : Starts(u[i], u[k])
                                /\ \A i \in 0 .. k : Len(u[i]) \in Nat}
<1>1. n \in Nat
  OBVIOUS
<1>2. /\ u[0] = <<>>
      /\ \A k \in 0 .. n - 1 : u[k + 1] = u[k] \o Encoded(options[k + 1])
  BY OptionsSteps
<1>3. 0 \in T
  <2>1. <<>> \in Seq(Byte) /\ Starts(<<>>, <<>>)
    BY DEF Starts
  <2>2. u[0] \in Seq(Byte) /\ Starts(u[0], u[0])
    BY <2>1, <1>2, Zenon
  <2>3. 0 \in 0 .. n /\ 0 .. 0 = {0}
    BY <1>1
  <2>4. Len(u[0]) \in Nat
    BY <2>2
  <2>5. \A i \in 0 .. 0 : Starts(u[i], u[0]) /\ Len(u[i]) \in Nat
    BY <2>2, <2>3, <2>4
  <2> QED
    BY <2>2, <2>3, <2>5
<1>4. ASSUME NEW k \in 0 .. n - 1, k \in T
      PROVE  k + 1 \in T
  <2>1. k + 1 \in 0 .. n /\ k + 1 \in 1 .. n /\ 0 .. k + 1 = (0 .. k) \cup {k + 1}
    BY <1>1
  <2>2. u[k] \in Seq(Byte) /\ \A i \in 0 .. k : Starts(u[i], u[k])
    BY <1>4
  <2>3. options[k + 1] \in Option
    BY <2>1, ElementOfSeq
  <2>4. PICK e \in Seq(Byte) : e = Encoded(options[k + 1])
    BY <2>3, EncodedTyped, Zenon
  <2>5. u[k + 1] = u[k] \o e
    BY <1>2, <2>4, Zenon
  <2>6. Joins(Byte, u[k], e, u[k] \o e)
    BY <2>2, Joined, Zenon
  <2>7. Joins(Byte, u[k], e, u[k + 1])
    BY <2>5, <2>6, Zenon
  <2>8. /\ u[k + 1] \in Seq(Byte) /\ Len(u[k]) \in Nat /\ Len(e) \in Nat
        /\ Len(u[k + 1]) = Len(u[k]) + Len(e)
        /\ \A j \in 1 .. Len(u[k]) : u[k + 1][j] = u[k][j]
    BY <2>7, Zenon DEF Joins
  <2>9. ASSUME NEW i \in 0 .. k
        PROVE  Starts(u[i], u[k + 1])
    <3>1. Len(u[i]) <= Len(u[k]) /\ \A j \in 1 .. Len(u[i]) : u[k][j] = u[i][j]
      BY <2>2, Zenon DEF Starts
    <3>2. Len(u[i]) \in Nat
      BY <1>4
    <3>3. Len(u[i]) <= Len(u[k + 1]) /\ \A j \in 1 .. Len(u[i]) : j \in 1 .. Len(u[k])
      BY <2>8, <3>1, <3>2
    <3>4. \A j \in 1 .. Len(u[i]) : u[k + 1][j] = u[i][j]
      BY <2>8, <3>1, <3>3, Zenon
    <3> QED
      BY <3>3, <3>4, Zenon DEF Starts
  <2>10. Starts(u[k + 1], u[k + 1])
    BY <2>8 DEF Starts
  <2>11. \A i \in 0 .. k + 1 : Starts(u[i], u[k + 1])
    BY <2>1, <2>9, <2>10
  <2>12. \A i \in 0 .. k + 1 : Len(u[i]) \in Nat
    <3>1. \A i \in 0 .. k : Len(u[i]) \in Nat
      BY <1>4
    <3>2. Len(u[k + 1]) \in Nat
      BY <2>8
    <3> QED
      BY <2>1, <3>1, <3>2
  <2> QED
    BY <2>1, <2>8, <2>11, <2>12
<1>5. \A k \in 0 .. n : k \in T
  <2>1. \A k \in 0 .. n - 1 : k \in T => k + 1 \in T
    BY <1>4
  <2> HIDE DEF T
  <2> QED
    BY <1>1, <1>3, <2>1, IntervalInduction
<1> QED
  BY <1>5

(* A header of four bytes, for a token of a length below 16. *)
HeaderFor(hdr, n) == Len(hdr) = 4 /\ hdr[1] % 16 = n

LEMMA TokenByte ==
  ASSUME NEW x \in 0 .. 15
  PROVE  64 + x \in Byte /\ (64 + x) % 16 = x
<1> QED
  BY DEF Byte

(* The parser finds the payload of every packet that has a header of four  *)
(* bytes, a token as long as the header says, options and a marked payload. *)
LEMMA PacketCarries ==
  ASSUME NEW hdr \in Seq(Byte), NEW token \in Seq(Byte),
         HeaderFor(hdr, Len(token)), NEW options \in Seq(Option),
         NEW u, OptionsLoop(options, u), NEW payload \in Seq(Byte)
  PROVE  parseCoapPayload(((hdr \o token) \o u[Len(options)]) \o Marked(payload)) = payload
<1> DEFINE n == Len(options)
           m == Marked(payload)
           a == hdr \o token
           b == a \o u[n]
           data == b \o m
           t == Len(token)
           pos == [i \in 0 .. n |-> 5 + t + Len(u[i])]
<1>1. n \in Nat /\ t \in Nat
  OBVIOUS
<1>2. m \in Seq(Byte)
  <2>1. CASE payload = <<>>
    <3>1. m = payload
      BY <2>1, MarkedEmpty, Zenon
    <3> QED
      BY <3>1, Zenon
  <2>2. CASE payload # <<>>
    BY <2>2, MarkedParts
  <2> QED
    BY <2>1, <2>2
<1>3. \A k \in 0 .. n : u[k] \in Seq(Byte) /\ \A i \in 0 .. k : Starts(u[i], u[k])
  BY OptionsStart
<1>4. n \in 0 .. n /\ 0 \in 0 .. n
  BY <1>1
<1>5. u[n] \in Seq(Byte)
  BY <1>3, <1>4, Zenon
<1>6. \A k \in 0 .. n : Len(u[k]) \in Nat
  BY <1>3, LenProperties
<1>7. Joins(Byte, hdr, token, a)
  BY Joined, Zenon
<1>8. Joins(Byte, a, u[n], b)
  <2>1. a \in Seq(Byte)
    BY <1>7, Zenon DEF Joins
  <2> HIDE DEF a
  <2> QED
    BY <2>1, <1>5, Joined, Zenon
<1>9. Joins(Byte, b, m, data)
  <2>1. b \in Seq(Byte)
    BY <1>8, Zenon DEF Joins
  <2> HIDE DEF b, m
  <2> QED
    BY <2>1, <1>2, Joined, Zenon
<1>10. parseCoapPayload(data) = payload <=>
         parseCoapPayload(((hdr \o token) \o u[Len(options)]) \o Marked(payload)) = payload
  OBVIOUS
<1> HIDE DEF data, b, a, m, t
<1>11. /\ a \in Seq(Byte) /\ Len(a) = 4 + t
       /\ \A i \in 1 .. 4 : a[i] = hdr[i]
  BY <1>7, Zenon DEF Joins, HeaderFor, t
<1>12. /\ b \in Seq(Byte) /\ Len(b) = 4 + t + Len(u[n])
       /\ \A i \in 1 .. 4 + t : b[i] = a[i]
       /\ \A i \in 1 .. Len(u[n]) : b[4 + t + i] = u[n][i]
  BY <1>8, <1>11, Zenon DEF Joins
<1>13. /\ data \in Seq(Byte) /\ Len(m) \in Nat
       /\ Len(data) = 4 + t + Len(u[n]) + Len(m)
       /\ \A i \in 1 .. 4 + t + Len(u[n]) : data[i] = b[i]
       /\ \A i \in 1 .. Len(m) : data[4 + t + Len(u[n]) + i] = m[i]
  BY <1>9, <1>12, Zenon DEF Joins
<1>14. PICK N \in Nat, M \in Nat, L \in Nat : N = Len(u[n]) /\ M = Len(m) /\ L = Len(data)
  <2>1. Len(data) \in Nat
    BY <1>13
  <2> QED
    BY <2>1, <1>4, <1>6, <1>13, Zenon
<1>0. L = 4 + t + N + M
  BY <1>13, <1>14, Zenon
<1>15. data[1] % 16 = t
  <2>1. 1 \in 1 .. 4 /\ 1 \in 1 .. 4 + t /\ 1 \in 1 .. 4 + t + N
    BY <1>1
  <2>2. 1 \in 1 .. 4 + t + Len(u[n])
    BY <2>1, <1>14, Zenon
  <2>3. data[1] = b[1]
    BY <2>2, <1>13, Zenon
  <2>4. b[1] = hdr[1]
    <3>1. b[1] = a[1]
      BY <2>1, <1>12, Zenon
    <3>2. a[1] = hdr[1]
      BY <2>1, <1>11, Zenon
    <3> QED
      BY <3>1, <3>2, Zenon
  <2>5. data[1] = hdr[1]
    BY <2>3, <2>4, Zenon
  <2> QED
    BY <2>5, Zenon DEF HeaderFor, t
<1>16. \A j \in 1 .. N : data[4 + t + j] = u[n][j]
  <2>1. \A j \in 1 .. N : 4 + t + j \in 1 .. 4 + t + N
    BY <1>1
  <2> QED
    BY <2>1, <1>12, <1>13, <1>14, Zenon
<1>17. \A i \in 0 .. n : pos[i] = 5 + t + Len(u[i])
  BY Zenon
<1>18. pos \in [0 .. n -> Nat \ {0}]
  <2>1. \A x \in Nat : 5 + t + x \in Nat \ {0}
    BY <1>1
  <2>2. \A i \in 0 .. n : 5 + t + Len(u[i]) \in Nat \ {0}
    BY <2>1, <1>6, Zenon
  <2> QED
    BY <2>2, Zenon
<1> HIDE DEF pos
<1>19. pos[0] = 5 + (data[1] % 16)
  <2>1. u[0] = <<>> /\ Len(<<>>) = 0
    BY OptionsSteps
  <2>2. Len(u[0]) = 0
    BY <2>1, Zenon
  <2>3. 5 + t + 0 = 5 + t
    BY <1>1
  <2>4. pos[0] = 5 + t
    BY <2>2, <2>3, <1>4, <1>17, Zenon
  <2> QED
    BY <2>4, <1>15, Zenon
<1>20. ASSUME NEW i \in 1 .. n
       PROVE  /\ OptionAt(data, pos[i - 1])
              /\ AfterOption(data, pos[i - 1]) = pos[i]
              /\ pos[i] <= Len(data) + 1
  <2>1. i - 1 \in 0 .. n - 1 /\ i - 1 \in 0 .. n /\ i \in 0 .. n /\ (i - 1) + 1 = i
    BY <1>1
  <2>2. PICK x \in Seq(Byte) : x = u[i - 1]
    BY <2>1, <1>3, Zenon
  <2>3. PICK y \in Seq(Byte) : y = u[i]
    BY <2>1, <1>3, Zenon
  <2>4. PICK o \in Option : o = options[i]
    BY ElementOfSeq
  <2>5. /\ o.delta \in 0 .. LargestExtended /\ o.value \in Seq(Byte)
        /\ Len(o.value) <= LargestExtended
    BY DEF Option
  <2>6. PICK e \in Seq(Byte) : e = Encoded(o)
    BY EncodedTyped, Zenon
  <2>7. y = x \o e
    <3>1. u[(i - 1) + 1] = u[i - 1] \o Encoded(options[(i - 1) + 1])
      BY <2>1, OptionsSteps, Zenon
    <3> QED
      BY <3>1, <2>1, <2>2, <2>3, <2>4, <2>6, Zenon
  <2>8. Joins(Byte, x, e, x \o e)
    BY Joined, Zenon
  <2>9. /\ Len(x) \in Nat /\ Len(e) \in Nat /\ Len(y) = Len(x) + Len(e)
        /\ \A j \in 1 .. Len(e) : y[Len(x) + j] = e[j]
    BY <2>7, <2>8, Zenon DEF Joins
  <2>10. Len(y) <= N /\ \A j \in 1 .. Len(y) : u[n][j] = y[j]
    BY <2>1, <2>3, <1>3, <1>4, <1>14, Zenon DEF Starts
  <2>11. PICK p \in Nat : p = 5 + t + Len(x)
    BY <2>9, <1>1
  <2>12. p > 0 /\ pos[i - 1] = p /\ pos[i] = p + Len(e)
    <3>1. pos[i - 1] = 5 + t + Len(x) /\ pos[i] = 5 + t + Len(y)
      BY <2>1, <2>2, <2>3, <1>17, Zenon
    <3>2. 5 + t + Len(y) = p + Len(e) /\ p > 0
      BY <2>9, <2>11, <1>1
    <3> QED
      BY <3>1, <3>2, <2>11, Zenon
  <2>13. p + Len(e) - 1 <= L
    <3>1. Len(x) + Len(e) <= N
      BY <2>9, <2>10, Zenon
    <3>2. p + Len(e) - 1 = 4 + t + (Len(x) + Len(e))
      BY <2>9, <2>11, <1>1
    <3>3. Len(x) + Len(e) \in Nat
      BY <2>9
    <3>4. ASSUME NEW z \in Nat, z <= N
          PROVE  4 + t + z <= 4 + t + N + M
      BY <1>1, <3>4
    <3> QED
      BY <3>1, <3>2, <3>3, <3>4, <1>0, Zenon
  <2>14. ASSUME NEW j \in 1 .. Len(e)
         PROVE  data[p + j - 1] = e[j]
    <3>1. /\ p + j - 1 = 4 + t + (Len(x) + j) /\ Len(x) + j \in 1 .. N
          /\ Len(x) + j \in 1 .. Len(y)
      BY <2>9, <2>10, <2>11, <1>1
    <3>2. data[4 + t + (Len(x) + j)] = u[n][Len(x) + j]
      BY <3>1, <1>16, Zenon
    <3>3. u[n][Len(x) + j] = y[Len(x) + j]
      BY <3>1, <2>10, Zenon
    <3>4. y[Len(x) + j] = e[j]
      BY <2>9, Zenon
    <3> QED
      BY <3>1, <3>2, <3>3, <3>4, Zenon
  <2>15. Holds(data, p, e)
    BY <2>13, <2>14, <1>14, Zenon DEF Holds
  <2>16. Holds(data, p, encodeCoapOption(o.delta, o.value))
    BY <2>6, <2>15, Zenon DEF Encoded
  <2>17. /\ OptionAt(data, p)
         /\ AfterOption(data, p) = p + Len(encodeCoapOption(o.delta, o.value))
         /\ p + Len(encodeCoapOption(o.delta, o.value)) <= Len(data) + 1
    <3>1. p > 0 /\ data \in Seq(Byte)
      BY <2>12, <1>13
    <3> QED
      BY <3>1, <2>5, <2>16, OptionSkipped
  <2>18. Len(encodeCoapOption(o.delta, o.value)) = Len(e)
    BY <2>6, Zenon DEF Encoded
  <2> QED
    BY <2>12, <2>17, <2>18, Zenon
<1>21. Along(data, n, pos)
  BY <1>18, <1>19, <1>20, Zenon DEF Along
<1>22. pos[n] = 5 + t + N
  BY <1>4, <1>14, <1>17, Zenon
<1>23. pos[n] + Len(m) = Len(data) + 1
  <2>1. 5 + t + N + M = L + 1
    BY <1>0, <1>1
  <2> QED
    BY <2>1, <1>14, <1>22, Zenon
<1>24. Holds(data, pos[n], m)
  <2>1. 5 + t + N + M - 1 <= L
    BY <1>0, <1>1
  <2>2. ASSUME NEW j \in 1 .. M
        PROVE  data[5 + t + N + j - 1] = m[j]
    <3>1. 5 + t + N + j - 1 = 4 + t + N + j
      BY <1>1
    <3>2. data[4 + t + N + j] = m[j]
      BY <1>13, <1>14, Zenon
    <3> QED
      BY <3>1, <3>2, Zenon
  <2> QED
    BY <2>1, <2>2, <1>14, <1>22, Zenon DEF Holds
<1>25. Len(data) >= 4
  <2>1. L >= 4
    BY <1>0, <1>1
  <2> QED
    BY <2>1, <1>14, Zenon
<1>26. parseCoapPayload(data) = payload
  BY <1>1, <1>13, <1>21, <1>23, <1>24, <1>25, PacketParsed, Zenon DEF m
<1> QED
  BY <1>10, <1>26

LEMMA ReplyCarries ==
  ASSUME NEW q \in CoapReply
  PROVE  parseCoapPayload(Packet(q.token, q.options, q.payload)) = q.payload
<1>1. PICK token \in Seq(Byte), payload \in Seq(Byte) : token = q.token /\ payload = q.payload
  BY CoapAssumption
<1>2. PICK n \in 0 .. 15 : n = Len(token)
  <2>1. Len(q.token) <= 15
    BY CoapAssumption, Zenon
  <2>2. Len(token) <= 15
    BY <2>1, <1>1, Zenon
  <2>3. Len(token) \in Nat
    OBVIOUS
  <2>4. Len(token) \in 0 .. 15
    <3>1. \A k \in Nat : k <= 15 => k \in 0 .. 15
      OBVIOUS
    <3> QED
      BY <2>2, <2>3, <3>1, Zenon
  <2> QED
    BY <2>4, Zenon
<1>3. PICK options \in Seq(Option) : options = q.options
  <2>1. PICK os \in Seq([delta : 0 .. LargestExtended, value : Seq(Byte)]) : os = q.options
    BY CoapAssumption
  <2>2. \A i \in 1 .. Len(os) : Len(os[i].value) <= LargestExtended
    BY <2>1, CoapAssumption, LenProperties
  <2>3. \A i \in 1 .. Len(os) : os[i] \in Option
    BY <2>2, ElementOfSeq DEF Option
  <2>4. os \in Seq(Option)
    <3>1. Len(os) \in Nat /\ os = [i \in 1 .. Len(os) |-> os[i]]
      BY LenProperties
    <3>2. [i \in 1 .. Len(os) |-> os[i]] \in Seq(Option)
      BY <2>3, <3>1
    <3> QED
      BY <3>1, <3>2, Zenon
  <2> QED
    BY <2>1, <2>4, Zenon
<1> DEFINE u == CHOOSE f : OptionsLoop(options, f)
           hdr == <<64 + Len(token), 69, 0, 1>>
<1>4. OptionsLoop(options, u)
  BY OptionsRun, Zenon
<1>5. Packet(token, options, payload)
        = ((hdr \o token) \o u[Len(options)]) \o Marked(payload)
  BY Zenon DEF Packet, OptionsLoop
<1>6. hdr \in Seq(Byte) /\ HeaderFor(hdr, Len(token))
  <2>1. PICK x : x = 64 + n
    OBVIOUS
  <2>2. x \in Byte /\ x % 16 = n
    BY <2>1, TokenByte, Zenon
  <2>3. 69 \in Byte /\ 0 \in Byte /\ 1 \in Byte
    BY DEF Byte
  <2>4. /\ <<x, 69, 0, 1>> \in Seq(Byte) /\ Len(<<x, 69, 0, 1>>) = 4
        /\ <<x, 69, 0, 1>>[1] = x
    BY <2>2, <2>3
  <2>5. hdr = <<x, 69, 0, 1>>
    BY <2>1, <1>2, Zenon
  <2> QED
    BY <2>2, <2>4, <2>5, <1>2, Zenon DEF HeaderFor
<1> HIDE DEF u, hdr
<1>8. parseCoapPayload(((hdr \o token) \o u[Len(options)]) \o Marked(payload)) = payload
  BY <1>4, <1>6, PacketCarries
<1> QED
  BY <1>1, <1>3, <1>5, <1>8, Zenon

LEMMA RequestCarries ==
  ASSUME NEW q \in CoapRequest
  PROVE  parseCoapPayload(buildCoapRequest(q.method, q.path, q.payload, q.id)) = q.payload
<1>1. PICK path \in Seq(Byte), payload \in Seq(Byte) : path = q.path /\ payload = q.payload
  BY CoapAssumption
<1>2. PICK id \in Nat : id = q.id
  BY CoapAssumption
<1>3. Len(path) <= LargestExtended
  BY <1>1, CoapAssumption
<1> DEFINE method == q.method
           hdr == <<64, Code(method), (id \div 256) % 256, id % 256>>
           o == [delta |-> 11, value |-> path]
           e == encodeCoapOption(11, path)
           u == [i \in 0 .. 1 |-> IF i = 0 THEN <<>> ELSE e]
<1>4. o \in Option /\ o.delta = 11 /\ o.value = path
  <2>1. 11 \in 0 .. LargestExtended
    BY DEF LargestExtended
  <2> QED
    BY <2>1, <1>3 DEF Option
<1>5. e \in Seq(Byte)
  BY <1>4, EncodedTyped, Zenon DEF Encoded
<1>6. buildCoapRequest(method, path, payload, id) = (hdr \o e) \o Marked(payload)
  BY Zenon DEF buildCoapRequest
<1>7. hdr \in Seq(Byte) /\ Len(hdr) = 4 /\ hdr[1] = 64
  <2>1. Code(method) \in {1, 2, 3, 4}
    BY DEF Code
  <2>2. 64 \in Byte /\ Code(method) \in Byte
    BY <2>1 DEF Byte
  <2>3. (id \div 256) % 256 \in Byte /\ id % 256 \in Byte
    BY DEF Byte
  <2>4. PICK c \in Byte, x \in Byte, y \in Byte, h \in Byte :
          c = Code(method) /\ x = (id \div 256) % 256 /\ y = id % 256 /\ h = 64
    BY <2>2, <2>3, Zenon
  <2>5. <<h, c, x, y>> \in Seq(Byte) /\ Len(<<h, c, x, y>>) = 4 /\ <<h, c, x, y>>[1] = h
    OBVIOUS
  <2> QED
    BY <2>4, <2>5, Zenon
<1>8. <<>> \in Seq(Byte) /\ Len(<<>>) = 0 /\ 64 % 16 = 0
  OBVIOUS
<1>9. HeaderFor(hdr, Len(<<>>))
  BY <1>7, <1>8, Zenon DEF HeaderFor
<1>10. <<o>> \in Seq(Option) /\ Len(<<o>>) = 1 /\ <<o>>[1] = o
  <2>1. PICK x \in Option : x = o
    BY <1>4, Zenon
  <2>2. <<x>> \in Seq(Option) /\ Len(<<x>>) = 1 /\ <<x>>[1] = x
    OBVIOUS
  <2> QED
    BY <2>1, <2>2, Zenon
<1> HIDE DEF hdr, o, e
<1>11. <<>> \o e = e /\ hdr \o <<>> = hdr
  BY <1>5, <1>7, ConcatEmptySeq
<1>12. u[0] = <<>> /\ u[1] = e
  OBVIOUS
<1>13. OptionsLoop(<<o>>, u)
  <2>1. ASSUME NEW i \in 0 .. 1
        PROVE  (IF i = 0 THEN <<>> ELSE e)
                 = IF i = 0 THEN <<>>
                   ELSE u[i - 1] \o encodeCoapOption(<<o>>[i].delta, <<o>>[i].value)
    <3>1. CASE i = 0
      BY <3>1, Zenon
    <3>2. CASE i = 1
      <4>1. i # 0 /\ i - 1 = 0
        BY <3>2
      <4>2. encodeCoapOption(<<o>>[i].delta, <<o>>[i].value) = e
        BY <3>2, <1>4, <1>10, Zenon DEF e
      <4>3. u[i - 1] = <<>>
        BY <4>1, <1>12, Zenon
      <4> QED
        BY <4>1, <4>2, <4>3, <1>11, Zenon
    <3> QED
      BY <3>1, <3>2
  <2>2. u = [i \in 0 .. 1 |->
               IF i = 0 THEN <<>>
               ELSE u[i - 1] \o encodeCoapOption(<<o>>[i].delta, <<o>>[i].value)]
    BY <2>1, Zenon
  <2> HIDE DEF u
  <2> QED
    BY <2>2, <1>10, Zenon DEF OptionsLoop
<1> HIDE DEF u
<1>14. parseCoapPayload(((hdr \o <<>>) \o u[Len(<<o>>)]) \o Marked(payload)) = payload
  <2>1. PICK token \in Seq(Byte), os \in Seq(Option) : token = <<>> /\ os = <<o>>
    BY <1>8, <1>10, Zenon
  <2>2. HeaderFor(hdr, Len(token)) /\ OptionsLoop(os, u)
    BY <2>1, <1>8, <1>9, <1>13, Zenon
  <2>3. hdr \in Seq(Byte)
    BY <1>7, Zenon
  <2>4. parseCoapPayload(((hdr \o token) \o u[Len(os)]) \o Marked(payload)) = payload
    BY <2>2, <2>3, PacketCarries
  <2> QED
    BY <2>1, <2>4, Zenon
<1>15. parseCoapPayload((hdr \o e) \o Marked(payload)) = payload
  BY <1>10, <1>11, <1>12, <1>14, Zenon
<1> QED
  BY <1>1, <1>2, <1>6, <1>15, Zenon

(* buildCoapRequest and parseCoapPayload: the payload of a packet comes    *)
(* out as it went in, for every path, token, sequence of options and       *)
(* payload, whatever the nibbles, the extensions and the bytes that look   *)
(* like a marker are.                                                      *)
THEOREM PayloadComesThrough == Spec => []PayloadSurvives
<1>1. Init => PayloadSurvives
  BY DEF Init, PayloadSurvives, Asked
<1>2. PayloadSurvives /\ [Next]_vars => PayloadSurvives'
  <2> SUFFICES ASSUME PayloadSurvives, [Next]_vars, Asked("coap")'
               PROVE  PayloadSurvives'
    BY DEF PayloadSurvives
  <2>1. CASE UNCHANGED vars
    BY <2>1 DEF vars, PayloadSurvives, Asked
  <2>2. CASE AskCoapRequest
    <3>1. PICK q \in CoapRequest :
            Ask("coap", q,
                parseCoapPayload(buildCoapRequest(q.method, q.path, q.payload, q.id)))
      BY <2>2 DEF AskCoapRequest
    <3>2. /\ query'.in = q
          /\ answer' = parseCoapPayload(buildCoapRequest(q.method, q.path, q.payload, q.id))
      BY <3>1, Recorded
    <3> QED
      BY <3>2, RequestCarries, Zenon DEF PayloadSurvives
  <2>3. CASE AskCoapReply
    <3>1. PICK q \in CoapReply :
            Ask("coap", q, parseCoapPayload(Packet(q.token, q.options, q.payload)))
      BY <2>3 DEF AskCoapReply
    <3>2. /\ query'.in = q
          /\ answer' = parseCoapPayload(Packet(q.token, q.options, q.payload))
      BY <3>1, Recorded
    <3> QED
      BY <3>2, ReplyCarries, Zenon DEF PayloadSurvives
  <2> QED
    BY <2>1, <2>2, <2>3, AskedBy
<1> QED
  BY <1>1, <1>2, PTL DEF Spec

-----------------------------------------------------------------------------
(* Schemas. *)

Constrained == UNION {[D -> Constraint] : D \in SUBSET STRING}
Schemas == [required : SUBSET STRING, protocolRequired : SUBSET STRING,
            constraints : Constrained]

(* What a constraint says of a timeout, and of the value of a field. *)
Within(t, c) == (c.min # NoSchema => t >= c.min) /\ (c.max # NoSchema => t <= c.max)
Listed(v, c) == c.enum = {} \/ v \in c.enum \cup {""}

LEMMA ConstraintMerged ==
  ASSUME NEW c \in Constraint, NEW d \in Constraint
  PROVE  mergeConstraint(c, d) \in Constraint
<1> DEFINE lo == IF d.min # NoSchema /\ (c.min = NoSchema \/ d.min > c.min)
                 THEN d.min ELSE c.min
           hi == IF d.max # NoSchema /\ (c.max = NoSchema \/ d.max < c.max)
                 THEN d.max ELSE c.max
           en == IF c.enum # {} /\ d.enum # {} THEN c.enum \cap d.enum
                 ELSE c.enum \cup d.enum
<1>1. /\ c.min \in Bound /\ c.max \in Bound /\ c.enum \in SUBSET STRING
      /\ d.min \in Bound /\ d.max \in Bound /\ d.enum \in SUBSET STRING
  BY DEF Constraint
<1>2. lo \in Bound /\ hi \in Bound /\ en \in SUBSET STRING
  BY <1>1
<1>3. mergeConstraint(c, d) = [min |-> lo, max |-> hi, enum |-> en]
  BY DEF mergeConstraint
<1> HIDE DEF lo, hi, en
<1> QED
  BY <1>2, <1>3 DEF Constraint

LEMMA BoundsMerged ==
  ASSUME NEW c \in Constraint, NEW d \in Constraint, NEW t \in Int
  PROVE  Within(t, mergeConstraint(c, d)) <=> Within(t, c) /\ Within(t, d)
<1>1. PICK a \in Bound, b \in Bound, x \in Bound, y \in Bound :
        a = c.min /\ b = d.min /\ x = c.max /\ y = d.max
  BY DEF Constraint
<1> DEFINE lo == IF b # NoSchema /\ (a = NoSchema \/ b > a) THEN b ELSE a
           hi == IF y # NoSchema /\ (x = NoSchema \/ y < x) THEN y ELSE x
<1>2. mergeConstraint(c, d).min = lo /\ mergeConstraint(c, d).max = hi
  BY <1>1 DEF mergeConstraint
<1>3. (lo # NoSchema => t >= lo) <=>
        (a # NoSchema => t >= a) /\ (b # NoSchema => t >= b)
  BY DEF Bound
<1>4. (hi # NoSchema => t <= hi) <=>
        (x # NoSchema => t <= x) /\ (y # NoSchema => t <= y)
  BY DEF Bound
<1> HIDE DEF lo, hi
<1> QED
  BY <1>1, <1>2, <1>3, <1>4, Zenon DEF Within

(* Lists that have a value in common, if both are lists. *)
Meet(c, d) == c.enum = {} \/ d.enum = {} \/ c.enum \cap d.enum # {}

LEMMA ListsMerged ==
  ASSUME NEW c, NEW d, NEW v
  PROVE  /\ Listed(v, c) /\ Listed(v, d) => Listed(v, mergeConstraint(c, d))
         /\ Meet(c, d) /\ Listed(v, mergeConstraint(c, d)) => Listed(v, c) /\ Listed(v, d)
<1>1. PICK A, B : A = c.enum /\ B = d.enum
  OBVIOUS
<1>2. mergeConstraint(c, d).enum = IF A # {} /\ B # {} THEN A \cap B ELSE A \cup B
  BY <1>1 DEF mergeConstraint
<1>3. PICK C : C = mergeConstraint(c, d).enum
  OBVIOUS
<1>4. C = IF A # {} /\ B # {} THEN A \cap B ELSE A \cup B
  BY <1>2, <1>3, Zenon
<1>5. PICK e : e = ""
  OBVIOUS
<1>6. /\ (A = {} \/ v \in A \cup {e}) /\ (B = {} \/ v \in B \cup {e})
           => C = {} \/ v \in C \cup {e}
      /\ (A = {} \/ B = {} \/ A \cap B # {}) /\ (C = {} \/ v \in C \cup {e})
           => (A = {} \/ v \in A \cup {e}) /\ (B = {} \/ v \in B \cup {e})
  BY <1>4
<1> QED
  BY <1>1, <1>3, <1>5, <1>6, Zenon DEF Listed, Meet

LEMMA ConstraintSays ==
  ASSUME NEW m, NEW fields, NEW f, NEW c
  PROVE  validateConstraint(m, fields, f, c)
           <=> IF f = "timeout_ms" THEN Within(m.header.timeout, c)
               ELSE Listed(Get(fields, f), c)
<1> QED
  BY Zenon DEF validateConstraint, Within, Listed

LEMMA ConstraintsMerged ==
  ASSUME NEW c \in Constraint, NEW d \in Constraint, NEW m, m.header.timeout \in Int,
         NEW fields, NEW f
  PROVE  /\ validateConstraint(m, fields, f, c) /\ validateConstraint(m, fields, f, d)
              => validateConstraint(m, fields, f, mergeConstraint(c, d))
         /\ Meet(c, d) /\ validateConstraint(m, fields, f, mergeConstraint(c, d))
              => validateConstraint(m, fields, f, c) /\ validateConstraint(m, fields, f, d)
<1>1. CASE f = "timeout_ms"
  <2>1. \A x : validateConstraint(m, fields, f, x) <=> Within(m.header.timeout, x)
    BY <1>1, ConstraintSays, Zenon
  <2>2. Within(m.header.timeout, mergeConstraint(c, d))
          <=> Within(m.header.timeout, c) /\ Within(m.header.timeout, d)
    BY BoundsMerged
  <2> QED
    BY <2>1, <2>2, Zenon
<1>2. CASE f # "timeout_ms"
  <2>1. \A x : validateConstraint(m, fields, f, x) <=> Listed(Get(fields, f), x)
    BY <1>2, ConstraintSays, Zenon
  <2> QED
    BY <2>1, ListsMerged, Zenon
<1> QED
  BY <1>1, <1>2, Zenon

(* A message that passes the check against schema s. *)
Takes(s, m) ==
  /\ \A f \in s.required : hasMetaField(m, f)
  /\ \A f \in s.protocolRequired : Get(ProtocolFields(m), f) # ""
  /\ \A f \in DOMAIN s.constraints :
       validateConstraint(m, ProtocolFields(m), f, s.constraints[f])

(* Every list of schema s has the value that w has for its field. *)
Admits(s, w) ==
  \A f \in DOMAIN s.constraints :
    s.constraints[f].enum = {} \/ w[f] \in s.constraints[f].enum

(* The constraint of field f in a merged schema. *)
MergedAt(a, b, f) ==
  CASE f \notin DOMAIN a -> b[f]
    [] f \notin DOMAIN b -> a[f]
    [] OTHER -> mergeConstraint(a[f], b[f])

LEMMA MergedFields ==
  ASSUME NEW a, NEW b, NEW f \in DOMAIN a \cup DOMAIN b
  PROVE  \/ f \notin DOMAIN a /\ f \in DOMAIN b /\ MergedAt(a, b, f) = b[f]
         \/ f \in DOMAIN a /\ f \notin DOMAIN b /\ MergedAt(a, b, f) = a[f]
         \/ /\ f \in DOMAIN a /\ f \in DOMAIN b
            /\ MergedAt(a, b, f) = mergeConstraint(a[f], b[f])
<1>1. CASE f \notin DOMAIN a
  <2>1. ~(f \notin DOMAIN b)
    BY <1>1
  <2> QED
    BY <1>1, <2>1, Zenon DEF MergedAt
<1>2. CASE f \in DOMAIN a /\ f \notin DOMAIN b
  BY <1>2, Zenon DEF MergedAt
<1>3. CASE f \in DOMAIN a /\ f \in DOMAIN b
  BY <1>3, Zenon DEF MergedAt
<1> QED
  BY <1>1, <1>2, <1>3

LEMMA ConstrainedTyped ==
  ASSUME NEW a \in Constrained
  PROVE  DOMAIN a \in SUBSET STRING /\ \A f \in DOMAIN a : a[f] \in Constraint
<1> QED
  BY DEF Constrained

LEMMA SchemasMerged ==
  ASSUME NEW a \in Schemas, NEW b \in Schemas
  PROVE  LET x == mergeSchema(a, b) IN
         /\ x \in Schemas
         /\ x.required = a.required \cup b.required
         /\ x.protocolRequired = a.protocolRequired \cup b.protocolRequired
         /\ DOMAIN x.constraints = DOMAIN a.constraints \cup DOMAIN b.constraints
         /\ \A f \in DOMAIN x.constraints :
              x.constraints[f] = MergedAt(a.constraints, b.constraints, f)
<1>1. PICK ac \in Constrained, bc \in Constrained : ac = a.constraints /\ bc = b.constraints
  BY DEF Schemas
<1>2. PICK ar \in SUBSET STRING, br \in SUBSET STRING, ap \in SUBSET STRING, bp \in SUBSET STRING :
        /\ ar = a.required /\ br = b.required
        /\ ap = a.protocolRequired /\ bp = b.protocolRequired
  BY DEF Schemas
<1> DEFINE D == DOMAIN ac \cup DOMAIN bc
           cs == [f \in D |-> MergedAt(ac, bc, f)]
<1>3. D \in SUBSET STRING
  BY ConstrainedTyped
<1>4. \A f \in D : MergedAt(ac, bc, f) \in Constraint
  <2> SUFFICES ASSUME NEW f \in D
               PROVE  MergedAt(ac, bc, f) \in Constraint
    BY Zenon
  <2>1. \/ f \in DOMAIN bc /\ MergedAt(ac, bc, f) = bc[f]
        \/ f \in DOMAIN ac /\ MergedAt(ac, bc, f) = ac[f]
        \/ /\ f \in DOMAIN ac /\ f \in DOMAIN bc
           /\ MergedAt(ac, bc, f) = mergeConstraint(ac[f], bc[f])
    BY MergedFields
  <2>2. f \in DOMAIN ac => ac[f] \in Constraint
    BY ConstrainedTyped
  <2>3. f \in DOMAIN bc => bc[f] \in Constraint
    BY ConstrainedTyped
  <2> QED
    BY <2>1, <2>2, <2>3, ConstraintMerged, Zenon
<1>5. cs \in [D -> Constraint] /\ DOMAIN cs = D /\ \A f \in D : cs[f] = MergedAt(ac, bc, f)
  BY <1>4, Zenon
<1>6. mergeSchema(a, b) = [required |-> ar \cup br, protocolRequired |-> ap \cup bp,
                           constraints |-> cs]
  BY <1>1, <1>2, Zenon DEF mergeSchema, MergedAt
<1> HIDE DEF cs, D
<1>7. cs \in Constrained
  BY <1>3, <1>5 DEF Constrained
<1>8. PICK r \in SUBSET STRING, p \in SUBSET STRING : r = ar \cup br /\ p = ap \cup bp
  OBVIOUS
<1>9. mergeSchema(a, b) = [required |-> r, protocolRequired |-> p, constraints |-> cs]
  BY <1>6, <1>8, Zenon
<1>10. /\ mergeSchema(a, b) \in Schemas
       /\ mergeSchema(a, b).required = r
       /\ mergeSchema(a, b).protocolRequired = p
       /\ mergeSchema(a, b).constraints = cs
  BY <1>7, <1>9 DEF Schemas
<1> QED
  BY <1>1, <1>2, <1>5, <1>8, <1>10, Zenon DEF D

LEMMA SchemasTake ==
  ASSUME NEW a \in Schemas, NEW b \in Schemas, NEW m, m.header.timeout \in Int
  PROVE  Takes(a, m) /\ Takes(b, m) => Takes(mergeSchema(a, b), m)
<1> DEFINE x == mergeSchema(a, b)
           V(f, c) == validateConstraint(m, ProtocolFields(m), f, c)
<1>1. /\ x.required = a.required \cup b.required
      /\ x.protocolRequired = a.protocolRequired \cup b.protocolRequired
      /\ DOMAIN x.constraints = DOMAIN a.constraints \cup DOMAIN b.constraints
      /\ \A f \in DOMAIN x.constraints :
           x.constraints[f] = MergedAt(a.constraints, b.constraints, f)
  BY SchemasMerged, Zenon
<1> HIDE DEF x
<1> SUFFICES ASSUME Takes(a, m), Takes(b, m)
             PROVE  Takes(x, m)
  BY Zenon DEF x
<1>2. \A f \in x.required : hasMetaField(m, f)
  BY <1>1, Zenon DEF Takes
<1>3. \A f \in x.protocolRequired : Get(ProtocolFields(m), f) # ""
  BY <1>1, Zenon DEF Takes
<1>4. PICK ac \in Constrained, bc \in Constrained : ac = a.constraints /\ bc = b.constraints
  BY DEF Schemas
<1>5. /\ \A f \in DOMAIN ac : V(f, ac[f])
      /\ \A f \in DOMAIN bc : V(f, bc[f])
  BY <1>4, Zenon DEF Takes
<1>6. ASSUME NEW f \in DOMAIN ac \cup DOMAIN bc
      PROVE  V(f, MergedAt(ac, bc, f))
  <2>1. \/ f \in DOMAIN bc /\ MergedAt(ac, bc, f) = bc[f]
        \/ f \in DOMAIN ac /\ MergedAt(ac, bc, f) = ac[f]
        \/ /\ f \in DOMAIN ac /\ f \in DOMAIN bc
           /\ MergedAt(ac, bc, f) = mergeConstraint(ac[f], bc[f])
    BY MergedFields, Zenon
  <2>2. CASE f \in DOMAIN ac /\ f \in DOMAIN bc
    <3>1. ac[f] \in Constraint /\ bc[f] \in Constraint
      BY <2>2, ConstrainedTyped, Zenon
    <3>2. V(f, ac[f]) /\ V(f, bc[f])
      BY <2>2, <1>5, Zenon
    <3>3. V(f, mergeConstraint(ac[f], bc[f]))
      BY <3>1, <3>2, ConstraintsMerged, Zenon
    <3> QED
      BY <2>1, <3>2, <3>3, Zenon
  <2>3. CASE ~(f \in DOMAIN ac /\ f \in DOMAIN bc)
    BY <2>1, <2>3, <1>5, Zenon
  <2> QED
    BY <2>2, <2>3, Zenon
<1>7. \A f \in DOMAIN x.constraints : V(f, x.constraints[f])
  BY <1>1, <1>4, <1>6, Zenon
<1> QED
  BY <1>2, <1>3, <1>7, Zenon DEF Takes

LEMMA SchemasAgree ==
  ASSUME NEW a \in Schemas, NEW b \in Schemas, NEW m, m.header.timeout \in Int,
         NEW w, Admits(a, w), Admits(b, w)
  PROVE  /\ Admits(mergeSchema(a, b), w)
         /\ Takes(mergeSchema(a, b), m) => Takes(a, m) /\ Takes(b, m)
<1> DEFINE x == mergeSchema(a, b)
           V(f, c) == validateConstraint(m, ProtocolFields(m), f, c)
           L(f, c) == c.enum = {} \/ w[f] \in c.enum
<1>1. /\ x.required = a.required \cup b.required
      /\ x.protocolRequired = a.protocolRequired \cup b.protocolRequired
      /\ DOMAIN x.constraints = DOMAIN a.constraints \cup DOMAIN b.constraints
      /\ \A f \in DOMAIN x.constraints :
           x.constraints[f] = MergedAt(a.constraints, b.constraints, f)
  BY SchemasMerged, Zenon
<1> HIDE DEF x
<1>2. PICK ac \in Constrained, bc \in Constrained : ac = a.constraints /\ bc = b.constraints
  BY DEF Schemas
<1>3. /\ \A f \in DOMAIN ac : L(f, ac[f])
      /\ \A f \in DOMAIN bc : L(f, bc[f])
  BY <1>2, Zenon DEF Admits
<1>4. ASSUME NEW f \in DOMAIN ac \cup DOMAIN bc
      PROVE  /\ L(f, MergedAt(ac, bc, f))
             /\ V(f, MergedAt(ac, bc, f)) =>
                  (f \in DOMAIN ac => V(f, ac[f])) /\ (f \in DOMAIN bc => V(f, bc[f]))
  <2>1. \/ f \notin DOMAIN ac /\ f \in DOMAIN bc /\ MergedAt(ac, bc, f) = bc[f]
        \/ f \in DOMAIN ac /\ f \notin DOMAIN bc /\ MergedAt(ac, bc, f) = ac[f]
        \/ /\ f \in DOMAIN ac /\ f \in DOMAIN bc
           /\ MergedAt(ac, bc, f) = mergeConstraint(ac[f], bc[f])
    BY MergedFields, Zenon
  <2>2. CASE f \in DOMAIN ac /\ f \in DOMAIN bc
    <3>1. PICK c \in Constraint, d \in Constraint : c = ac[f] /\ d = bc[f]
      BY <2>2, ConstrainedTyped, Zenon
    <3>2. L(f, c) /\ L(f, d)
      BY <2>2, <3>1, <1>3, Zenon
    <3>3. mergeConstraint(c, d).enum
            = IF c.enum # {} /\ d.enum # {} THEN c.enum \cap d.enum ELSE c.enum \cup d.enum
      BY DEF mergeConstraint
    <3>4. Meet(c, d) /\ L(f, mergeConstraint(c, d))
      BY <3>2, <3>3 DEF Meet
    <3>5. V(f, mergeConstraint(c, d)) => V(f, c) /\ V(f, d)
      BY <3>4, ConstraintsMerged, Zenon
    <3> QED
      BY <2>1, <2>2, <3>1, <3>4, <3>5, Zenon
  <2>3. CASE ~(f \in DOMAIN ac /\ f \in DOMAIN bc)
    BY <2>1, <2>3, <1>3, Zenon
  <2> QED
    BY <2>2, <2>3, Zenon
<1>5. Admits(x, w)
  BY <1>1, <1>2, <1>4, Zenon DEF Admits
<1>6. ASSUME Takes(x, m)
      PROVE  Takes(a, m) /\ Takes(b, m)
  <2>1. \A f \in DOMAIN ac \cup DOMAIN bc : V(f, MergedAt(ac, bc, f))
    BY <1>1, <1>2, <1>6, Zenon DEF Takes
  <2>2. \A f \in DOMAIN ac : V(f, ac[f])
    BY <2>1, <1>4, Zenon
  <2>3. \A f \in DOMAIN bc : V(f, bc[f])
    BY <2>1, <1>4, Zenon
  <2>4. /\ \A f \in x.required : hasMetaField(m, f)
        /\ \A f \in x.protocolRequired : Get(ProtocolFields(m), f) # ""
    BY <1>6, Zenon DEF Takes
  <2>5. /\ \A f \in a.required : hasMetaField(m, f)
        /\ \A f \in b.required : hasMetaField(m, f)
    BY <2>4, <1>1, Zenon
  <2>6. /\ \A f \in a.protocolRequired : Get(ProtocolFields(m), f) # ""
        /\ \A f \in b.protocolRequired : Get(ProtocolFields(m), f) # ""
    BY <2>4, <1>1, Zenon
  <2> QED
    BY <2>2, <2>3, <2>5, <2>6, <1>2, Zenon DEF Takes
<1> QED
  BY <1>5, <1>6, Zenon DEF x

SchemaLoop(peers, f) ==
  f = [i \in 0 .. Len(peers) |->
         IF i = 0 THEN EmptySchema
         ELSE IF Describes(peers[i]) THEN mergeSchema(f[i - 1], peers[i].schema)
         ELSE f[i - 1]]

(* The schema after peer p, with x before it. *)
AfterProvider(p, x) == IF Describes(p) THEN mergeSchema(x, p.schema) ELSE x

(* Peers whose schemas are schemas. *)
Providers(R) == \A p \in R : Describes(p) => p.schema \in Schemas

LEMMA EmptyIsSchema ==
  /\ EmptySchema \in Schemas
  /\ \A m : Takes(EmptySchema, m)
  /\ \A w : Admits(EmptySchema, w)
<1>1. DOMAIN NoMap = {}
  BY DEF NoMap
<1>2. NoMap \in Constrained
  BY DEF NoMap, Constrained
<1>3. /\ EmptySchema.required = {} /\ EmptySchema.protocolRequired = {}
      /\ EmptySchema.constraints = NoMap
  BY DEF EmptySchema
<1>4. EmptySchema \in Schemas
  BY <1>2 DEF EmptySchema, Schemas
<1>5. \A m : Takes(EmptySchema, m)
  BY <1>1, <1>3, Zenon DEF Takes
<1>6. \A w : Admits(EmptySchema, w)
  BY <1>1, <1>3, Zenon DEF Admits
<1> QED
  BY <1>4, <1>5, <1>6

LEMMA SchemaRuns ==
  ASSUME NEW R, Providers(R), NEW peers \in Seq(R)
  PROVE  \E f : SchemaLoop(peers, f)
<1> DEFINE n == Len(peers)
           After(i, x) == AfterProvider(peers[i], x)
           F == [i \in 1 .. n |-> [x \in Schemas |-> After(i, x)]]
<1>0. EmptySchema \in Schemas
  BY EmptyIsSchema, Zenon
<1>1. n \in Nat
  OBVIOUS
<1>2. \A i \in 1 .. n : \A x \in Schemas : After(i, x) \in Schemas
  <2> SUFFICES ASSUME NEW i \in 1 .. n, NEW x \in Schemas
               PROVE  After(i, x) \in Schemas
    BY Zenon
  <2>1. PICK p \in R : p = peers[i]
    BY ElementOfSeq
  <2>2. Describes(p) => p.schema \in Schemas
    BY Zenon DEF Providers
  <2>3. Describes(p) => mergeSchema(x, p.schema) \in Schemas
    BY <2>2, SchemasMerged, Zenon
  <2> QED
    BY <2>1, <2>3, Zenon DEF AfterProvider
<1> HIDE DEF After
<1>3. PICK u \in [0 .. n -> Schemas] :
        u[0] = EmptySchema /\ \A i \in 1 .. n : u[i] = F[i][u[i - 1]]
  <2>1. F \in Steps(n, Schemas)
    BY <1>2, Zenon DEF Steps
  <2> HIDE DEF F, n
  <2>2. Runs(n, Schemas, EmptySchema, F)
    BY <2>1, <1>0, <1>1, LoopHasValues, Zenon
  <2> QED
    BY <2>2, Zenon DEF Runs
<1>4. ASSUME NEW i \in 1 .. n
      PROVE  u[i] = After(i, u[i - 1])
  <2>1. i - 1 \in 0 .. n
    BY <1>1
  <2>2. u[i - 1] \in Schemas
    BY <2>1, Zenon
  <2> QED
    BY <2>2, <1>3, Zenon
<1>5. ASSUME NEW i \in 0 .. n
      PROVE  u[i] = IF i = 0 THEN EmptySchema ELSE After(i, u[i - 1])
  <2>1. i = 0 \/ i \in 1 .. n
    BY <1>1
  <2> QED
    BY <2>1, <1>3, <1>4, Zenon
<1>6. u = [i \in 0 .. n |-> u[i]]
  BY Zenon
<1>7. u = [i \in 0 .. n |-> IF i = 0 THEN EmptySchema ELSE After(i, u[i - 1])]
  BY <1>5, <1>6, Zenon
<1>8. SchemaLoop(peers, u)
  BY <1>7, Zenon DEF SchemaLoop, After, AfterProvider
<1> QED
  BY <1>8

LEMMA SchemaFound ==
  ASSUME NEW R, Providers(R), NEW peers \in Seq(R)
  PROVE  \E f : /\ SchemaLoop(peers, f)
                /\ GetResourceMetaSchema(peers)
                     = [schema |-> f[Len(peers)],
                        found |-> \E i \in 1 .. Len(peers) : Describes(peers[i])]
<1> DEFINE g == CHOOSE f : SchemaLoop(peers, f)
<1>1. SchemaLoop(peers, g)
  BY SchemaRuns, Zenon
<1>2. GetResourceMetaSchema(peers)
        = [schema |-> g[Len(peers)],
           found |-> \E i \in 1 .. Len(peers) : Describes(peers[i])]
  BY Zenon DEF GetResourceMetaSchema, SchemaLoop
<1> QED
  BY <1>1, <1>2, Zenon

LEMMA SchemaSteps ==
  ASSUME NEW R, NEW peers \in Seq(R), NEW f, SchemaLoop(peers, f)
  PROVE  /\ f[0] = EmptySchema
         /\ \A k \in 0 .. Len(peers) - 1 : f[k + 1] = AfterProvider(peers[k + 1], f[k])
<1>1. Len(peers) \in Nat
  OBVIOUS
<1>2. \A i \in 0 .. Len(peers) :
        f[i] = IF i = 0 THEN EmptySchema ELSE AfterProvider(peers[i], f[i - 1])
  BY Zenon DEF SchemaLoop, AfterProvider
<1>3. f[0] = EmptySchema
  <2>1. 0 \in 0 .. Len(peers)
    BY <1>1
  <2> QED
    BY <2>1, <1>2, Zenon
<1>4. ASSUME NEW k \in 0 .. Len(peers) - 1
      PROVE  f[k + 1] = AfterProvider(peers[k + 1], f[k])
  <2>1. k + 1 \in 0 .. Len(peers) /\ k + 1 # 0 /\ (k + 1) - 1 = k
    BY <1>1
  <2>2. f[k + 1] = AfterProvider(peers[k + 1], f[(k + 1) - 1])
    BY <2>1, <1>2, Zenon
  <2> QED
    BY <2>1, <2>2, Zenon
<1> QED
  BY <1>3, <1>4

(* Message m passes the schemas of the first k peers. *)
AllTake(peers, k, m) ==
  \A i \in 1 .. k : Describes(peers[i]) => Takes(peers[i].schema, m)

(* What the schemas of the first k peers take, the merged one takes; and   *)
(* what it takes they all take, if every list has the value that w has.    *)
LEMMA SchemaHolds ==
  ASSUME NEW R, Providers(R), NEW peers \in Seq(R), NEW f, SchemaLoop(peers, f),
         NEW m, m.header.timeout \in Int
  PROVE  \A k \in 0 .. Len(peers) :
           f[k] \in Schemas /\ (AllTake(peers, k, m) => Takes(f[k], m))
<1> DEFINE n == Len(peers)
           T == {k \in 0 .. n : f[k] \in Schemas /\ (AllTake(peers, k, m) => Takes(f[k], m))}
<1>1. n \in Nat
  OBVIOUS
<1>2. /\ f[0] = EmptySchema
      /\ \A k \in 0 .. n - 1 : f[k + 1] = AfterProvider(peers[k + 1], f[k])
  BY SchemaSteps
<1>3. 0 \in T
  <2>1. 0 \in 0 .. n
    BY <1>1
  <2> QED
    BY <2>1, <1>2, EmptyIsSchema, Zenon
<1>4. ASSUME NEW k \in 0 .. n - 1, k \in T
      PROVE  k + 1 \in T
  <2>1. k + 1 \in 0 .. n /\ k + 1 \in 1 .. n /\ k + 1 \in 1 .. k + 1
    BY <1>1
  <2>2. \A i \in 1 .. k : i \in 1 .. k + 1
    BY <1>1
  <2>3. PICK p \in R : p = peers[k + 1]
    BY <2>1, ElementOfSeq
  <2>4. Describes(p) => p.schema \in Schemas
    BY Zenon DEF Providers
  <2>5. f[k] \in Schemas /\ (AllTake(peers, k, m) => Takes(f[k], m))
    BY <1>4, Zenon
  <2>6. f[k + 1] = IF Describes(p) THEN mergeSchema(f[k], p.schema) ELSE f[k]
    BY <1>2, <2>3, Zenon DEF AfterProvider
  <2>7. AllTake(peers, k + 1, m) => AllTake(peers, k, m) /\ (Describes(p) => Takes(p.schema, m))
    BY <2>1, <2>2, <2>3, Zenon DEF AllTake
  <2>8. CASE Describes(p)
    <3>1. f[k + 1] = mergeSchema(f[k], p.schema)
      BY <2>6, <2>8, Zenon
    <3>2. /\ mergeSchema(f[k], p.schema) \in Schemas
          /\ Takes(f[k], m) /\ Takes(p.schema, m) => Takes(mergeSchema(f[k], p.schema), m)
      BY <2>4, <2>5, <2>8, SchemasMerged, SchemasTake, Zenon
    <3> QED
      BY <2>1, <2>5, <2>7, <2>8, <3>1, <3>2, Zenon
  <2>9. CASE ~Describes(p)
    <3>1. f[k + 1] = f[k]
      BY <2>6, <2>9, Zenon
    <3> QED
      BY <2>1, <2>5, <2>7, <3>1, Zenon
  <2> QED
    BY <2>8, <2>9, Zenon
<1>5. \A k \in 0 .. n : k \in T
  <2>1. \A k \in 0 .. n - 1 : k \in T => k + 1 \in T
    BY <1>4, Zenon
  <2> HIDE DEF T
  <2> QED
    BY <1>1, <1>3, <2>1, IntervalInduction
<1> QED
  BY <1>5, Zenon

Admitting(R, w) == \A p \in R : Describes(p) => Admits(p.schema, w)

LEMMA SchemaRequires ==
  ASSUME NEW R, Providers(R), NEW peers \in Seq(R), NEW f, SchemaLoop(peers, f),
         NEW m, m.header.timeout \in Int,
         NEW w, Admitting(R, w)
  PROVE  \A k \in 0 .. Len(peers) :
           Admits(f[k], w) /\ (Takes(f[k], m) => AllTake(peers, k, m))
<1> DEFINE n == Len(peers)
           T == {k \in 0 .. n : Admits(f[k], w) /\ (Takes(f[k], m) => AllTake(peers, k, m))}
<1>1. n \in Nat
  OBVIOUS
<1>2. /\ f[0] = EmptySchema
      /\ \A k \in 0 .. n - 1 : f[k + 1] = AfterProvider(peers[k + 1], f[k])
  BY SchemaSteps
<1>3. 0 \in T
  <2>1. 0 \in 0 .. n /\ 1 .. 0 = {}
    BY <1>1
  <2>2. AllTake(peers, 0, m)
    BY <2>1, Zenon DEF AllTake
  <2> QED
    BY <2>1, <2>2, <1>2, EmptyIsSchema, Zenon
<1>4. ASSUME NEW k \in 0 .. n - 1, k \in T
      PROVE  k + 1 \in T
  <2>1. k \in 0 .. n /\ k + 1 \in 0 .. n /\ k + 1 \in 1 .. n
    BY <1>1
  <2>2. \A i \in 1 .. k + 1 : i \in 1 .. k \/ i = k + 1
    BY <1>1
  <2>3. PICK p \in R : p = peers[k + 1]
    BY <2>1, ElementOfSeq
  <2>4. Describes(p) => p.schema \in Schemas /\ Admits(p.schema, w)
    BY Zenon DEF Providers, Admitting
  <2>5. f[k] \in Schemas /\ Admits(f[k], w) /\ (Takes(f[k], m) => AllTake(peers, k, m))
    BY <1>4, <2>1, SchemaHolds, Zenon
  <2>6. f[k + 1] = IF Describes(p) THEN mergeSchema(f[k], p.schema) ELSE f[k]
    BY <1>2, <2>3, Zenon DEF AfterProvider
  <2>7. AllTake(peers, k, m) /\ (Describes(p) => Takes(p.schema, m)) => AllTake(peers, k + 1, m)
    BY <2>2, <2>3, Zenon DEF AllTake
  <2>8. CASE Describes(p)
    <3>1. f[k + 1] = mergeSchema(f[k], p.schema)
      BY <2>6, <2>8, Zenon
    <3>2. /\ Admits(mergeSchema(f[k], p.schema), w)
          /\ Takes(mergeSchema(f[k], p.schema), m) => Takes(f[k], m) /\ Takes(p.schema, m)
      BY <2>4, <2>5, <2>8, SchemasAgree, Zenon
    <3> QED
      BY <2>1, <2>5, <2>7, <2>8, <3>1, <3>2, Zenon
  <2>9. CASE ~Describes(p)
    <3>1. f[k + 1] = f[k]
      BY <2>6, <2>9, Zenon
    <3> QED
      BY <2>1, <2>5, <2>7, <2>9, <3>1, Zenon
  <2> QED
    BY <2>8, <2>9, Zenon
<1>5. \A k \in 0 .. n : k \in T
  <2>1. \A k \in 0 .. n - 1 : k \in T => k + 1 \in T
    BY <1>4, Zenon
  <2> HIDE DEF T
  <2> QED
    BY <1>1, <1>3, <2>1, IntervalInduction
<1> QED
  BY <1>5, Zenon

LEMMA MetaValid ==
  ASSUME NEW R, Providers(R), NEW peers \in Seq(R), NEW m, m.header.timeout \in Int
  PROVE  AllTake(peers, Len(peers), m)
           => validateRequestMeta(GetResourceMetaSchema(peers), m)
<1>1. PICK f : /\ SchemaLoop(peers, f)
               /\ GetResourceMetaSchema(peers)
                    = [schema |-> f[Len(peers)],
                       found |-> \E i \in 1 .. Len(peers) : Describes(peers[i])]
  BY SchemaFound, Zenon
<1>2. Len(peers) \in 0 .. Len(peers)
  OBVIOUS
<1>3. AllTake(peers, Len(peers), m) => Takes(f[Len(peers)], m)
  BY <1>1, <1>2, SchemaHolds, Zenon
<1>4. GetResourceMetaSchema(peers).schema = f[Len(peers)]
  <2>1. PICK x, y : x = f[Len(peers)] /\ GetResourceMetaSchema(peers) = [schema |-> x, found |-> y]
    BY <1>1, Zenon
  <2>2. GetResourceMetaSchema(peers).schema = x
    BY <2>1
  <2> QED
    BY <2>1, <2>2, Zenon
<1> QED
  BY <1>3, <1>4, Zenon DEF validateRequestMeta, Takes

LEMMA MetaRefuses ==
  ASSUME NEW R, Providers(R), NEW peers \in Seq(R), NEW m, m.header.timeout \in Int,
         NEW w, Admitting(R, w)
  PROVE  validateRequestMeta(GetResourceMetaSchema(peers), m)
           => AllTake(peers, Len(peers), m)
<1>1. PICK f : /\ SchemaLoop(peers, f)
               /\ GetResourceMetaSchema(peers)
                    = [schema |-> f[Len(peers)],
                       found |-> \E i \in 1 .. Len(peers) : Describes(peers[i])]
  BY SchemaFound, Zenon
<1>2. Len(peers) \in 0 .. Len(peers)
  OBVIOUS
<1>3. Takes(f[Len(peers)], m) => AllTake(peers, Len(peers), m)
  BY <1>1, <1>2, SchemaRequires, Zenon
<1>4. /\ GetResourceMetaSchema(peers).schema = f[Len(peers)]
      /\ GetResourceMetaSchema(peers).found
           = \E i \in 1 .. Len(peers) : Describes(peers[i])
  <2>1. PICK x, y : /\ x = f[Len(peers)]
                    /\ y = \E i \in 1 .. Len(peers) : Describes(peers[i])
                    /\ GetResourceMetaSchema(peers) = [schema |-> x, found |-> y]
    BY <1>1, Zenon
  <2>2. GetResourceMetaSchema(peers).schema = x /\ GetResourceMetaSchema(peers).found = y
    BY <2>1
  <2> QED
    BY <2>1, <2>2, Zenon
<1>5. ~GetResourceMetaSchema(peers).found => AllTake(peers, Len(peers), m)
  BY <1>4, Zenon DEF AllTake
<1>6. validateRequestMeta(GetResourceMetaSchema(peers), m)
        => ~GetResourceMetaSchema(peers).found \/ Takes(f[Len(peers)], m)
  BY <1>4, Zenon DEF validateRequestMeta, Takes
<1> QED
  BY <1>3, <1>5, <1>6, Zenon

(* A list of one peer has the schema of the peer. *)
LEMMA OneProvider ==
  ASSUME NEW p, Describes(p) => p.schema \in Schemas, NEW m, m.header.timeout \in Int
  PROVE  validateRequestMeta(GetResourceMetaSchema(<<p>>), m)
           <=> (Describes(p) => Takes(p.schema, m))
<1>1. Providers({p})
  BY Zenon DEF Providers
<1>2. <<p>> \in Seq({p}) /\ Len(<<p>>) = 1 /\ <<p>>[1] = p
  OBVIOUS
<1>3. AllTake(<<p>>, Len(<<p>>), m) <=> (Describes(p) => Takes(p.schema, m))
  <2>1. 1 .. 1 = {1}
    OBVIOUS
  <2>2. AllTake(<<p>>, Len(<<p>>), m) <=>
          \A i \in {1} : Describes(<<p>>[i]) => Takes(<<p>>[i].schema, m)
    BY <1>2, <2>1, Zenon DEF AllTake
  <2> QED
    BY <1>2, <2>2, Zenon
<1> DEFINE c == p.schema.constraints
           w == [f \in DOMAIN c |-> CHOOSE v : v \in c[f].enum]
<1>4. Admits(p.schema, w)
  <2> SUFFICES ASSUME NEW f \in DOMAIN c
               PROVE  c[f].enum = {} \/ w[f] \in c[f].enum
    BY Zenon DEF Admits
  <2>1. w[f] = CHOOSE v : v \in c[f].enum
    BY Zenon
  <2> HIDE DEF w
  <2>2. CASE c[f].enum # {}
    <3>1. \E v : v \in c[f].enum
      BY <2>2
    <3>2. (CHOOSE v : v \in c[f].enum) \in c[f].enum
      BY <3>1, Zenon
    <3> QED
      BY <2>1, <3>2, Zenon
  <2> QED
    BY <2>2, Zenon
<1>5. Admitting({p}, w)
  BY <1>4, Zenon DEF Admitting
<1> HIDE DEF w
<1>6. PICK s \in Seq({p}) : s = <<p>>
  BY <1>2, Zenon
<1>7. AllTake(s, Len(s), m) => validateRequestMeta(GetResourceMetaSchema(s), m)
  BY <1>1, MetaValid
<1>8. validateRequestMeta(GetResourceMetaSchema(s), m) => AllTake(s, Len(s), m)
  BY <1>1, <1>5, MetaRefuses
<1> QED
  BY <1>3, <1>6, <1>7, <1>8, Zenon

-----------------------------------------------------------------------------
(* The two forms of a message. *)

(* The fields by protocol, and the header, of the normal form. *)
MetaOf(m) ==
  IF m.protocolMeta = NoMap /\ m.headers # NoMap
  THEN [p \in {m.protocol} |-> m.headers] ELSE m.protocolMeta
HeaderOf(m) == IF m.header = ZeroHeader THEN m.meta ELSE m.header

FieldsOf(m) ==
  IF m.protocol \in DOMAIN MetaOf(m) THEN MetaOf(m)[m.protocol] ELSE m.headers

LEMMA ZeroIsHeader == ZeroHeader \in Header
<1> QED
  BY DEF ZeroHeader, Header

LEMMA NormalForm ==
  ASSUME NEW m, IsMessage(m)
  PROVE  /\ IsMessage(Normalize(m))
         /\ Normalize(m).mode = m.mode /\ Normalize(m).protocol = m.protocol
         /\ Normalize(m).resource = m.resource
         /\ Normalize(m).header = HeaderOf(m)
         /\ Normalize(m).protocolMeta = MetaOf(m)
         /\ Normalize(m).headers
              = IF m.headers = NoMap /\ m.protocol \in DOMAIN MetaOf(m)
                THEN MetaOf(m)[m.protocol] ELSE m.headers
<1> DEFINE a == IF m.meta = ZeroHeader THEN m.header ELSE m.meta
           b == HeaderOf(m)
           c == MetaOf(m)
           d == IF m.headers = NoMap /\ m.protocol \in DOMAIN MetaOf(m)
                THEN MetaOf(m)[m.protocol] ELSE m.headers
<1>1. Normalize(m) = [m EXCEPT !.meta = a, !.header = b, !.protocolMeta = c, !.headers = d]
  BY DEF Normalize, MetaOf, HeaderOf, IsMessage
<1>2. a \in Header /\ b \in Header
  BY DEF IsMessage, HeaderOf
<1> HIDE DEF a, b, c, d
<1>3. PICK n : n = [m EXCEPT !.meta = a, !.header = b, !.protocolMeta = c, !.headers = d]
  OBVIOUS
<1>4. /\ n.mode = m.mode /\ n.protocol = m.protocol /\ n.resource = m.resource
      /\ n.header = b /\ n.protocolMeta = c /\ n.headers = d
  BY <1>3 DEF IsMessage
<1>5. n \in [mode : STRING, protocol : STRING, resource : STRING,
             headers : {d}, protocolMeta : {c}, header : Header, meta : Header]
  BY <1>2, <1>3 DEF IsMessage
<1>6. IsMessage(n)
  BY <1>4, <1>5, Zenon DEF IsMessage
<1> QED
  BY <1>1, <1>3, <1>4, <1>6, Zenon DEF b, c, d

LEMMA FieldsRead ==
  ASSUME NEW m, IsMessage(m)
  PROVE  ProtocolFields(m) = FieldsOf(m)
<1>1. PICK n : n = Normalize(m)
  OBVIOUS
<1>2. /\ n.protocol = m.protocol /\ n.protocolMeta = MetaOf(m)
      /\ n.headers = IF m.headers = NoMap /\ m.protocol \in DOMAIN MetaOf(m)
                     THEN MetaOf(m)[m.protocol] ELSE m.headers
  BY <1>1, NormalForm, Zenon
<1>3. ProtocolFields(m) = IF n.protocol \in DOMAIN n.protocolMeta
                          THEN n.protocolMeta[n.protocol] ELSE n.headers
  BY <1>1, Zenon DEF ProtocolFields
<1> QED
  BY <1>2, <1>3, Zenon DEF FieldsOf

(* To normalize a message twice changes nothing more. *)
LEMMA FieldsNormal ==
  ASSUME NEW m, IsMessage(m)
  PROVE  ProtocolFields(Normalize(m)) = ProtocolFields(m)
<1>1. PICK n : n = Normalize(m)
  OBVIOUS
<1>2. IsMessage(n)
  BY <1>1, NormalForm, Zenon
<1>3. /\ n.protocol = m.protocol /\ n.protocolMeta = MetaOf(m)
      /\ n.headers = IF m.headers = NoMap /\ m.protocol \in DOMAIN MetaOf(m)
                     THEN MetaOf(m)[m.protocol] ELSE m.headers
  BY <1>1, NormalForm, Zenon
<1>4. DOMAIN NoMap = {} /\ \A p, h : [q \in {p} |-> h] # NoMap
  <2>1. DOMAIN NoMap = {}
    BY DEF NoMap
  <2>2. ASSUME NEW p, NEW h
        PROVE  [q \in {p} |-> h] # NoMap
    <3>1. DOMAIN [q \in {p} |-> h] = {p}
      BY Zenon
    <3> QED
      BY <2>1, <3>1, Zenon
  <2> QED
    BY <2>1, <2>2, Zenon
<1>5. MetaOf(m) = NoMap => n.headers = NoMap
  BY <1>3, <1>4, Zenon DEF MetaOf
<1>6. MetaOf(n) = MetaOf(m)
  BY <1>3, <1>5, Zenon DEF MetaOf
<1>7. FieldsOf(n) = FieldsOf(m)
  BY <1>3, <1>6, Zenon DEF FieldsOf
<1> QED
  BY <1>1, <1>2, <1>7, FieldsRead, Zenon

LEMMA OtherParts ==
  ASSUME NEW m, IsMessage(m)
  PROVE  LET o == OtherForm(m)
             old == m.protocolMeta = NoMap /\ m.headers # NoMap
             new == m.headers = NoMap /\ DOMAIN m.protocolMeta = {m.protocol}
         IN
         /\ IsMessage(o)
         /\ o.mode = m.mode /\ o.protocol = m.protocol /\ o.resource = m.resource
         /\ o.protocolMeta = IF old THEN [p \in {m.protocol} |-> m.headers]
                             ELSE IF new THEN NoMap ELSE m.protocolMeta
         /\ o.headers = IF new THEN m.protocolMeta[m.protocol]
                        ELSE IF old THEN NoMap ELSE m.headers
         /\ HeaderOf(o) = HeaderOf(m)
<1> DEFINE old == m.protocolMeta = NoMap /\ m.headers # NoMap
           new == m.headers = NoMap /\ DOMAIN m.protocolMeta = {m.protocol}
           c == IF old THEN [p \in {m.protocol} |-> m.headers]
                ELSE IF new THEN NoMap ELSE m.protocolMeta
           d == IF new THEN m.protocolMeta[m.protocol]
                ELSE IF old THEN NoMap ELSE m.headers
           b == IF m.header = ZeroHeader \/ m.meta = ZeroHeader THEN m.meta ELSE m.header
           a == IF m.meta = ZeroHeader \/ m.header = ZeroHeader THEN m.header ELSE m.meta
<1>1. OtherForm(m) = [m EXCEPT !.protocolMeta = c, !.headers = d, !.header = b, !.meta = a]
  BY DEF OtherForm, IsMessage
<1>2. a \in Header /\ b \in Header
  BY DEF IsMessage
<1>3. (IF b = ZeroHeader THEN a ELSE b) = HeaderOf(m)
  BY DEF HeaderOf
<1> HIDE DEF a, b, c, d
<1>4. PICK n : n = [m EXCEPT !.protocolMeta = c, !.headers = d, !.header = b, !.meta = a]
  OBVIOUS
<1>5. /\ n.mode = m.mode /\ n.protocol = m.protocol /\ n.resource = m.resource
      /\ n.header = b /\ n.meta = a /\ n.protocolMeta = c /\ n.headers = d
  BY <1>4 DEF IsMessage
<1>6. n \in [mode : STRING, protocol : STRING, resource : STRING,
             headers : {d}, protocolMeta : {c}, header : Header, meta : Header]
  BY <1>2, <1>4 DEF IsMessage
<1>7. IsMessage(n)
  BY <1>5, <1>6, Zenon DEF IsMessage
<1>8. HeaderOf(n) = HeaderOf(m)
  BY <1>3, <1>5, Zenon DEF HeaderOf
<1> QED
  BY <1>1, <1>4, <1>5, <1>7, <1>8, Zenon DEF c, d

LEMMA OtherFields ==
  ASSUME NEW m, IsMessage(m)
  PROVE  FieldsOf(OtherForm(m)) = FieldsOf(m)
<1> DEFINE old == m.protocolMeta = NoMap /\ m.headers # NoMap
           new == m.headers = NoMap /\ DOMAIN m.protocolMeta = {m.protocol}
<1>1. PICK o : o = OtherForm(m)
  OBVIOUS
<1>2. /\ o.protocol = m.protocol
      /\ o.protocolMeta = IF old THEN [p \in {m.protocol} |-> m.headers]
                          ELSE IF new THEN NoMap ELSE m.protocolMeta
      /\ o.headers = IF new THEN m.protocolMeta[m.protocol]
                     ELSE IF old THEN NoMap ELSE m.headers
  BY <1>1, OtherParts, Zenon
<1>3. DOMAIN NoMap = {}
  BY DEF NoMap
<1>4. PICK one : one = [p \in {m.protocol} |-> m.headers]
  OBVIOUS
<1>5. DOMAIN one = {m.protocol} /\ one[m.protocol] = m.headers /\ one # NoMap
  BY <1>3, <1>4
<1>6. CASE old
  <2>1. o.protocolMeta = one /\ o.headers = NoMap /\ MetaOf(m) = one
    BY <1>2, <1>4, <1>6, Zenon DEF MetaOf
  <2>2. MetaOf(o) = one
    BY <2>1, Zenon DEF MetaOf
  <2> QED
    BY <1>1, <1>2, <1>5, <2>1, <2>2, Zenon DEF FieldsOf
<1>7. CASE new
  <2>1. /\ o.protocolMeta = NoMap /\ o.headers = m.protocolMeta[m.protocol]
        /\ MetaOf(m) = m.protocolMeta
    BY <1>2, <1>7, Zenon DEF MetaOf
  <2>2. FieldsOf(m) = m.protocolMeta[m.protocol]
    BY <2>1, <1>7, Zenon DEF FieldsOf
  <2>3. CASE o.headers = NoMap
    <3>1. MetaOf(o) = NoMap
      BY <2>1, <2>3, Zenon DEF MetaOf
    <3>2. FieldsOf(o) = o.headers
      BY <3>1, <1>3, Zenon DEF FieldsOf
    <3> QED
      BY <1>1, <2>1, <2>2, <3>2, Zenon
  <2>4. CASE o.headers # NoMap
    <3>1. PICK h : h = o.headers
      OBVIOUS
    <3>2. PICK two : two = [p \in {m.protocol} |-> h]
      OBVIOUS
    <3>3. MetaOf(o) = two
      BY <1>2, <2>1, <2>4, <3>1, <3>2, Zenon DEF MetaOf
    <3>4. m.protocol \in DOMAIN two /\ two[m.protocol] = h
      BY <3>2
    <3>5. FieldsOf(o) = h
      BY <1>2, <3>3, <3>4, Zenon DEF FieldsOf
    <3> QED
      BY <1>1, <2>1, <2>2, <3>1, <3>5, Zenon
  <2> QED
    BY <2>3, <2>4, Zenon
<1>8. CASE ~old /\ ~new
  <2>1. o.protocolMeta = m.protocolMeta /\ o.headers = m.headers
    BY <1>2, <1>8, Zenon
  <2>2. MetaOf(o) = MetaOf(m)
    BY <1>2, <2>1, Zenon DEF MetaOf
  <2> QED
    BY <1>1, <1>2, <2>1, <2>2, Zenon DEF FieldsOf
<1> QED
  BY <1>6, <1>7, <1>8, Zenon

(* A transfer passes, or not, in either form. *)
LEMMA FormsAlike ==
  ASSUME NEW m, IsMessage(m), NEW ps
  PROVE  Accepted(ps, m) <=> Accepted(ps, OtherForm(m))
<1>1. PICK o : o = OtherForm(m)
  OBVIOUS
<1>2. PICK x, y : x = Normalize(m) /\ y = Normalize(o)
  OBVIOUS
<1>3. /\ IsMessage(o) /\ o.mode = m.mode /\ o.protocol = m.protocol
      /\ o.resource = m.resource /\ HeaderOf(o) = HeaderOf(m)
  BY <1>1, OtherParts, Zenon
<1>4. ProtocolFields(o) = ProtocolFields(m)
  BY <1>1, <1>3, FieldsRead, OtherFields, Zenon
<1>5. /\ x.mode = m.mode /\ x.protocol = m.protocol
      /\ x.resource = m.resource /\ x.header = HeaderOf(m)
  BY <1>2, NormalForm, Zenon
<1>6. /\ y.mode = m.mode /\ y.protocol = m.protocol
      /\ y.resource = m.resource /\ y.header = HeaderOf(m)
  BY <1>2, <1>3, NormalForm, Zenon
<1>7. ProtocolFields(x) = ProtocolFields(m) /\ ProtocolFields(y) = ProtocolFields(m)
  BY <1>2, <1>3, <1>4, FieldsNormal, Zenon
<1>8. Validate(m) <=> Validate(o)
  <2>1. ValidFields(m) <=> ValidFields(o)
    BY <1>3, <1>4, Zenon DEF ValidFields
  <2> QED
    BY <2>1, <1>2, <1>5, <1>6, Zenon DEF Validate
<1>9. \A s : validateRequestMeta(s, x) <=> validateRequestMeta(s, y)
  <2>1. PICK F, h : F = ProtocolFields(x) /\ F = ProtocolFields(y) /\ h = x.header /\ h = y.header
    BY <1>5, <1>6, <1>7, Zenon
  <2>2. \A f : hasMetaField(x, f) <=> hasMetaField(y, f)
    BY <2>1, Zenon DEF hasMetaField
  <2>3. \A f, c : validateConstraint(x, F, f, c) <=> validateConstraint(y, F, f, c)
    BY <2>1, Zenon DEF validateConstraint
  <2> QED
    BY <2>1, <2>2, <2>3, Zenon DEF validateRequestMeta
<1> QED
  BY <1>1, <1>2, <1>8, <1>9, Zenon DEF Accepted

(* The schemas a list of peers has, and whether those with a list of       *)
(* values for a field have one in common.                                  *)
SchemasIn(ps) == {p.schema : p \in {q \in ps : Describes(q)}}
ListsFor(S, f) ==
  {s.constraints[f].enum : s \in {x \in S : f \in DOMAIN x.constraints}} \ {{}}
Agreeing(S) ==
  \A f \in UNION {DOMAIN s.constraints : s \in S} :
    ListsFor(S, f) = {} \/ \E v \in UNION ListsFor(S, f) : \A e \in ListsFor(S, f) : v \in e

LEMMA AgreeingLists ==
  ASSUME NEW ps, Agreeing(SchemasIn(ps))
  PROVE  \E w : Admitting(ps, w)
<1> DEFINE S == SchemasIn(ps)
           Ok(f, v) == \A e \in ListsFor(S, f) : v \in e
           w == [f \in UNION {DOMAIN s.constraints : s \in S} |-> CHOOSE v : Ok(f, v)]
<1>1. ASSUME NEW p \in ps, Describes(p), NEW f \in DOMAIN p.schema.constraints,
             p.schema.constraints[f].enum # {}
      PROVE  w[f] \in p.schema.constraints[f].enum
  <2>1. p.schema \in S
    BY <1>1, Zenon DEF SchemasIn
  <2>2. f \in UNION {DOMAIN s.constraints : s \in S}
    BY <1>1, <2>1, Zenon
  <2>3. w[f] = CHOOSE v : Ok(f, v)
    BY <2>2, Zenon
  <2>4. p.schema.constraints[f].enum \in ListsFor(S, f)
    BY <1>1, <2>1, Zenon DEF ListsFor
  <2>5. \E v : Ok(f, v)
    BY <2>2, <2>4, Zenon DEF Agreeing
  <2> HIDE DEF w, S
  <2>6. Ok(f, w[f])
    BY <2>3, <2>5, Zenon
  <2> QED
    BY <2>4, <2>6, Zenon
<1> HIDE DEF w
<1>2. Admitting(ps, w)
  BY <1>1, Zenon DEF Admitting, Admits
<1> QED
  BY <1>2

LEMMA SchemaTyped ==
  ASSUME NEW s, IsSchema(s)
  PROVE  s \in Schemas
<1>1. s.constraints \in Constrained
  BY Zenon DEF IsSchema, Constrained
<1>2. s \in [required : SUBSET STRING, protocolRequired : SUBSET STRING,
             constraints : {s.constraints}]
  BY Zenon DEF IsSchema
<1> QED
  BY <1>1, <1>2 DEF Schemas

LEMMA CommonSchema ==
  ASSUME NEW ps \in Provider, NEW m \in Message
  PROVE  LET R == {ps[i] : i \in DOMAIN ps}
             all == \A p \in R : Accepted(<<p>>, m)
         IN /\ all /\ Validate(m) => Accepted(ps, m)
            /\ Accepted(ps, m) /\ Agreeing(SchemasIn(R)) => all
<1> DEFINE R == {ps[i] : i \in DOMAIN ps}
           n == Normalize(m)
<1>1. ps \in Seq(R)
  BY SchemaAssumption, Zenon
<1>2. Providers(R)
  <2>1. ASSUME NEW i \in DOMAIN ps, Describes(ps[i])
        PROVE  ps[i].schema \in Schemas
    <3>1. IsSchema(ps[i].schema)
      BY <2>1, SchemaAssumption, Zenon DEF Describes
    <3> QED
      BY <3>1, SchemaTyped, Zenon
  <2> QED
    BY <2>1, Zenon DEF Providers
<1>3. n.header.timeout \in Int
  <2>1. IsMessage(m)
    BY SchemaAssumption, Zenon
  <2>2. m.header \in Header /\ m.meta \in Header
    BY <2>1 DEF IsMessage
  <2>3. n.header \in Header
    BY <2>1, <2>2, NormalForm, Zenon DEF HeaderOf
  <2>4. \A h \in Header : h.timeout \in Int
    BY DEF Header
  <2> QED
    BY <2>3, <2>4, Zenon
<1>4. \A i \in 1 .. Len(ps) : ps[i] \in R
  BY <1>1, ElementOfSeq
<1>5. \A p \in R : \E i \in 1 .. Len(ps) : p = ps[i]
  <2>1. DOMAIN ps = 1 .. Len(ps)
    BY <1>1, LenProperties
  <2> QED
    BY <2>1, Zenon
<1> HIDE DEF n, R
<1>6. \A p \in R : validateRequestMeta(GetResourceMetaSchema(<<p>>), n)
                     <=> (Describes(p) => Takes(p.schema, n))
  BY <1>2, <1>3, OneProvider, Zenon DEF Providers
<1>7. AllTake(ps, Len(ps), n)
        <=> \A p \in R : validateRequestMeta(GetResourceMetaSchema(<<p>>), n)
  BY <1>4, <1>5, <1>6, Zenon DEF AllTake
<1>8. (\A p \in R : Accepted(<<p>>, m)) /\ Validate(m) => Accepted(ps, m)
  <2>1. AllTake(ps, Len(ps), n) => validateRequestMeta(GetResourceMetaSchema(ps), n)
    BY <1>1, <1>2, <1>3, MetaValid
  <2> QED
    BY <1>7, <2>1, Zenon DEF Accepted, n
<1>9. Accepted(ps, m) /\ Agreeing(SchemasIn(R)) => \A p \in R : Accepted(<<p>>, m)
  <2> SUFFICES ASSUME Accepted(ps, m), Agreeing(SchemasIn(R))
               PROVE  \A p \in R : Accepted(<<p>>, m)
    BY Zenon
  <2>1. PICK w : Admitting(R, w)
    BY AgreeingLists
  <2>2. validateRequestMeta(GetResourceMetaSchema(ps), n) => AllTake(ps, Len(ps), n)
    BY <1>1, <1>2, <1>3, <2>1, MetaRefuses
  <2> QED
    BY <1>7, <2>2, Zenon DEF Accepted, n
<1> QED
  BY <1>8, <1>9, Zenon DEF R

(* What SchemaIsConjunction says of a question and its answer. *)
SchemaSaid(in, out) ==
  LET m == in.message
      R == {in.providers[i] : i \in DOMAIN in.providers}
      all == \A p \in R : Accepted(<<p>>, m)
  IN /\ all /\ Validate(m) => out
     /\ out /\ Agreeing(SchemasIn(R)) => all
     /\ out = Accepted(in.providers, OtherForm(m))

(* GetResourceMetaSchema and Normalize: the merged schema takes what every *)
(* provider takes and, as long as their lists of values have one in        *)
(* common, nothing else, for any number of providers; and a message passes *)
(* in one form when it passes in the other.                                *)
THEOREM SchemaTakesWhatAllTake == Spec => []SchemaIsConjunction
<1>0. /\ SchemaIsConjunction <=> (Asked("schema") => SchemaSaid(query.in, answer))
      /\ SchemaIsConjunction' <=> (Asked("schema")' => SchemaSaid(query'.in, answer'))
  BY Zenon DEF SchemaIsConjunction, SchemaSaid, Agreeing, SchemasIn, ListsFor
<1>1. Init => SchemaIsConjunction
  BY DEF Init, SchemaIsConjunction, Asked
<1>2. SchemaIsConjunction /\ [Next]_vars => SchemaIsConjunction'
  <2> SUFFICES ASSUME SchemaIsConjunction, [Next]_vars, Asked("schema")'
               PROVE  SchemaIsConjunction'
    BY DEF SchemaIsConjunction
  <2>1. CASE UNCHANGED vars
    <3>1. query' = query /\ answer' = answer
      BY <2>1, Zenon DEF vars
    <3>2. SchemaSaid(query.in, answer)
      BY <3>1, <1>0, Zenon DEF Asked
    <3> QED
      BY <3>1, <3>2, <1>0, Zenon
  <2>2. CASE AskSchema
    <3>1. PICK ps \in Provider, m \in Message :
            Ask("schema", [providers |-> ps, message |-> m], Accepted(ps, m))
      BY <2>2 DEF AskSchema
    <3>2. /\ query'.in = [providers |-> ps, message |-> m]
          /\ answer' = Accepted(ps, m)
      BY <3>1, Recorded
    <3>3. query'.in.providers = ps /\ query'.in.message = m
      BY <3>2
    <3> DEFINE R == {ps[i] : i \in DOMAIN ps}
    <3>4. /\ (\A p \in R : Accepted(<<p>>, m)) /\ Validate(m) => Accepted(ps, m)
          /\ Accepted(ps, m) /\ Agreeing(SchemasIn(R)) => \A p \in R : Accepted(<<p>>, m)
      BY CommonSchema, Zenon
    <3>5. Accepted(ps, m) <=> Accepted(ps, OtherForm(m))
      BY SchemaAssumption, FormsAlike, Zenon
    <3>6. Accepted(ps, m) = Accepted(ps, OtherForm(m))
      BY <3>5 DEF Accepted
    <3>7. SchemaSaid(query'.in, answer')
      BY <3>2, <3>3, <3>4, <3>6, Zenon DEF SchemaSaid
    <3> QED
      BY <3>7, <1>0, Zenon
  <2> QED
    BY <2>1, <2>2, AskedBy
<1> QED
  BY <1>1, <1>2, PTL DEF Spec
=============================================================================
