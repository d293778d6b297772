----------------------------- MODULE SequenceLemmas -----------------------------
(***************************************************************************)
(* Facts that the proofs about other modules share: induction over numbers *)
(* and what FlattenSeq makes of sequences of any length.                   *)
(***************************************************************************)
EXTENDS Integers, Sequences, SequencesExt, SequenceTheorems, WellFoundedInduction, TLAPS

\* A set of numbers has a least element.
LEMMA Least ==
  ASSUME NEW T \in SUBSET Nat, T # {}
  PROVE  \E x \in T : \A y \in T : ~(y < x)
<1> DEFINE R == OpToRel(<, Nat)
<1>1. IsWellFoundedOn(R, Nat)
  BY NatLessThanWellFounded, Zenon
<1>2. \A x, y \in Nat : <<x, y>> \in R <=> x < y
  BY Zenon DEF OpToRel
<1> HIDE DEF R
<1>3. \E x \in T : \A y \in T : ~ (<<y, x>> \in R)
  BY <1>1, WFMin, Zenon
<1> QED BY <1>2, <1>3

\* What holds at the start and is passed on holds throughout.
LEMMA Induct ==
  ASSUME NEW N \in Nat, NEW S, 0 \in S, \A k \in 0 .. N : k \in S /\ k < N => k + 1 \in S
  PROVE  \A k \in 0 .. N : k \in S
<1> SUFFICES ASSUME NEW j \in 0 .. N, j \notin S PROVE FALSE
  OBVIOUS
<1> DEFINE T == {k \in 0 .. N : k \notin S}
<1>1. T \in SUBSET Nat /\ T # {}
  OBVIOUS
<1>2. PICK x \in T : \A y \in T : ~(y < x)
  BY <1>1, Least, Zenon
<1>3. x # 0 /\ x - 1 \in 0 .. N /\ x - 1 < N /\ x - 1 < x /\ (x - 1) + 1 = x
  BY <1>2
<1>4. x - 1 \in S
  BY <1>2, <1>3
<1>5. x \in S
  BY <1>3, <1>4
<1> QED BY <1>2, <1>5

-----------------------------------------------------------------------------
(* FlattenSeq puts sequences together from the left.                       *)

Flattening(ss) ==
  CHOOSE flatten : flatten = [d \in 1 .. Len(ss) |-> IF d = 1 THEN ss[d] ELSE flatten[d - 1] \o ss[d]]

Stepwise(ss, N, f) == f = [d \in 1 .. N |-> IF d = 1 THEN ss[d] ELSE f[d - 1] \o ss[d]]

LEMMA FlattenIs == \A ss : FlattenSeq(ss) = IF Len(ss) = 0 THEN ss ELSE Flattening(ss)[Len(ss)]
BY Zenon DEF FlattenSeq, Flattening

LEMMA FlattenExists ==
  ASSUME NEW ss, NEW N \in Nat, N = Len(ss), NEW f, f = Flattening(ss)
  PROVE  Stepwise(ss, N, f)
<1> DEFINE F(w, d) == IF d = 1 THEN ss[d] ELSE w[d - 1] \o ss[d]
           S == {k \in 0 .. N : \E g : g = [d \in 1 .. k |-> F(g, d)]}
<1>1. 0 \in S
  <2> DEFINE g0 == [d \in 1 .. 0 |-> 0]
             G == [d \in 1 .. 0 |-> F(g0, d)]
  <2>1. \A d \in 1 .. 0 : G[d] = 0
    OBVIOUS
  <2>2. G = [d \in 1 .. 0 |-> G[d]]
    OBVIOUS
  <2>3. g0 = G
    <3> HIDE DEF G
    <3> QED BY <2>1, <2>2
  <2>4. \E g : g = [d \in 1 .. 0 |-> F(g, d)]
    BY <2>3, Zenon
  <2>5. 0 \in 0 .. N
    OBVIOUS
  <2> QED BY <2>4, <2>5
<1>2. ASSUME NEW k \in 0 .. N, k \in S, k < N PROVE k + 1 \in S
  <2>1. PICK g : g = [d \in 1 .. k |-> F(g, d)]
    BY <1>2
  <2>a. ASSUME NEW d \in 1 .. k PROVE g[d] = F(g, d)
    <3> DEFINE G == [e \in 1 .. k |-> F(g, e)]
    <3>1. G[d] = F(g, d)
      OBVIOUS
    <3>2. g = G
      BY <2>1
    <3> HIDE DEF G
    <3> QED BY <3>1, <3>2
  <2> DEFINE h == [d \in 1 .. (k + 1) |-> IF d = k + 1 THEN F(g, d) ELSE g[d]]
  <2>2. ASSUME NEW d \in 1 .. (k + 1) PROVE h[d] = F(h, d)
    <3>1. CASE d = k + 1
      <4>1. d \in 1 .. (k + 1) /\ (d # 1 => d - 1 \in 1 .. k /\ d - 1 # k + 1 /\ d - 1 \in 1 .. (k + 1))
        BY <3>1
      <4>2. h[d] = F(g, d) /\ (d # 1 => h[d - 1] = g[d - 1])
        BY <3>1, <4>1
      <4> QED BY <4>1, <4>2
    <3>2. CASE d # k + 1
      <4>a. d \in 1 .. k /\ d \in 1 .. (k + 1)
        BY <3>2
      <4>b. h[d] = g[d]
        BY <3>2, <4>a
      <4>1. d \in 1 .. k /\ h[d] = g[d] /\ g[d] = F(g, d)
        BY <2>a, <4>a, <4>b, Zenon
      <4>2. CASE d = 1
        <5>1. F(g, d) = ss[d] /\ F(h, d) = ss[d]
          BY <4>2
        <5> QED BY <4>1, <5>1, Zenon
      <4>3. CASE d # 1
        <5>1. d - 1 \in 1 .. k /\ d - 1 # k + 1 /\ d - 1 \in 1 .. (k + 1)
          BY <4>1, <4>3
        <5>2. h[d - 1] = g[d - 1]
          BY <5>1
        <5> QED BY <4>1, <4>3, <5>2
      <4> QED BY <4>2, <4>3
    <3> QED BY <3>1, <3>2
  <2>3. h = [d \in 1 .. (k + 1) |-> h[d]]
    OBVIOUS
  <2>4. h = [d \in 1 .. (k + 1) |-> F(h, d)]
    <3> DEFINE G == [d \in 1 .. (k + 1) |-> F(h, d)]
    <3>1. G = [d \in 1 .. (k + 1) |-> G[d]]
      OBVIOUS
    <3>2. ASSUME NEW d \in 1 .. (k + 1) PROVE G[d] = F(h, d)
      OBVIOUS
    <3>3. ASSUME NEW d \in 1 .. (k + 1) PROVE h[d] = G[d]
      BY <2>2, <3>2, Zenon
    <3> HIDE DEF G, h
    <3>4. h = G
      BY <2>3, <3>1, <3>3
    <3> QED BY <3>4 DEF G
  <2>5. k + 1 \in 0 .. N
    BY <1>2
  <2> HIDE DEF h
  <2> QED BY <2>4, <2>5
<1>3. N \in S
  <2>1. N \in 0 .. N /\ N \in Nat
    OBVIOUS
  <2> HIDE DEF S
  <2> QED BY <1>1, <1>2, <2>1, Induct
<1>4. \E g : g = [d \in 1 .. N |-> F(g, d)]
  BY <1>3
<1> QED BY <1>4, Zenon DEF Flattening, Stepwise


(* The sums of a sequence of sequences: what its first k sequences make.   *)

Sums(C, ss) == C[0] = <<>> /\ \A k \in 0 .. Len(ss) : k < Len(ss) => C[k + 1] = C[k] \o ss[k + 1]

LEMMA SumsTyped ==
  ASSUME NEW X, NEW ss \in Seq(Seq(X)), NEW C, Sums(C, ss)
  PROVE  \A k \in 0 .. Len(ss) : C[k] \in Seq(X)
<1> DEFINE S == {k \in 0 .. Len(ss) : C[k] \in Seq(X)}
<1>1. Len(ss) \in Nat
  BY LenProperties
<1>2. 0 \in S
  <2>1. C[0] = <<>> /\ <<>> \in Seq(X) /\ 0 \in 0 .. Len(ss)
    BY <1>1, EmptySeq DEF Sums
  <2> QED BY <2>1
<1>3. ASSUME NEW k \in 0 .. Len(ss), k \in S, k < Len(ss) PROVE k + 1 \in S
  <2>1. k + 1 \in 1 .. Len(ss) /\ k + 1 \in 0 .. Len(ss)
    BY <1>1, <1>3
  <2>2. ss[k + 1] \in Seq(X)
    BY <2>1, ElementOfSeq
  <2>3. C[k + 1] = C[k] \o ss[k + 1] /\ C[k] \in Seq(X)
    BY <1>3 DEF Sums
  <2>4. C[k + 1] \in Seq(X)
    BY <2>2, <2>3, ConcatProperties
  <2> QED BY <2>1, <2>4
<1>4. \A k \in 0 .. Len(ss) : k \in S
  <2> HIDE DEF S
  <2> QED BY <1>1, <1>2, <1>3, Induct
<1> QED BY <1>4

LEMMA SumsAlike ==
  ASSUME NEW ss, Len(ss) \in Nat, NEW C, NEW D, Sums(C, ss), Sums(D, ss)
  PROVE  C[Len(ss)] = D[Len(ss)]
<1> DEFINE S == {k \in 0 .. Len(ss) : C[k] = D[k]}
<1>1. 0 \in S
  BY DEF Sums
<1>2. ASSUME NEW k \in 0 .. Len(ss), k \in S, k < Len(ss) PROVE k + 1 \in S
  <2>1. k + 1 \in 0 .. Len(ss)
    BY <1>2
  <2>2. C[k + 1] = C[k] \o ss[k + 1] /\ D[k + 1] = D[k] \o ss[k + 1] /\ C[k] = D[k]
    BY <1>2 DEF Sums
  <2> QED BY <2>1, <2>2
<1>3. Len(ss) \in S
  <2>1. \A k \in 0 .. Len(ss) : k \in S
    <3> HIDE DEF S
    <3> QED BY <1>1, <1>2, Induct
  <2> QED BY <2>1
<1> QED BY <1>3

LEMMA FlattenSums ==
  ASSUME NEW X, NEW ss \in Seq(Seq(X))
  PROVE  \E C : Sums(C, ss) /\ FlattenSeq(ss) = C[Len(ss)]
<1>1. PICK n : n = Len(ss)
  OBVIOUS
<1>2. PICK f : f = Flattening(ss)
  OBVIOUS
<1>3. n \in Nat
  BY <1>1, LenProperties
<1>4. Stepwise(ss, n, f)
  BY <1>1, <1>2, <1>3, FlattenExists, Zenon
<1>5. ASSUME NEW d \in 1 .. n PROVE f[d] = IF d = 1 THEN ss[d] ELSE f[d - 1] \o ss[d]
  <2> DEFINE G == [e \in 1 .. n |-> IF e = 1 THEN ss[e] ELSE f[e - 1] \o ss[e]]
  <2>1. G[d] = IF d = 1 THEN ss[d] ELSE f[d - 1] \o ss[d]
    OBVIOUS
  <2>2. f = G
    BY <1>4 DEF Stepwise
  <2> HIDE DEF G
  <2> QED BY <2>1, <2>2
<1> DEFINE C == [k \in 0 .. n |-> IF k = 0 THEN <<>> ELSE f[k]]
<1>6. Sums(C, ss)
  <2>1. C[0] = <<>>
    BY <1>3
  <2>2. ASSUME NEW k \in 0 .. n, k < n PROVE C[k + 1] = C[k] \o ss[k + 1]
    <3>1. k + 1 \in 1 .. n /\ k + 1 \in 0 .. n /\ k + 1 # 0 /\ (k + 1) - 1 = k
      BY <1>3, <2>2
    <3>2. C[k + 1] = f[k + 1]
      BY <3>1
    <3>3. CASE k = 0
      <4>1. C[k] = <<>> /\ f[k + 1] = ss[k + 1]
        BY <1>3, <1>5, <3>1, <3>3
      <4>2. ss[k + 1] \in Seq(X)
        BY <1>1, <3>1, ElementOfSeq
      <4>3. <<>> \o ss[k + 1] = ss[k + 1]
        BY <4>2, ConcatEmptySeq
      <4> QED BY <3>2, <4>1, <4>3, Zenon
    <3>4. CASE k # 0
      <4>1. C[k] = f[k] /\ k + 1 # 1
        BY <3>4, <1>3
      <4>2. f[k + 1] = f[(k + 1) - 1] \o ss[k + 1]
        BY <1>5, <3>1, <4>1, Zenon
      <4> QED BY <3>1, <3>2, <4>1, <4>2, Zenon
    <3> QED BY <3>3, <3>4
  <2> HIDE DEF C
  <2> QED BY <2>1, <2>2, <1>1 DEF Sums
<1>7. FlattenSeq(ss) = C[Len(ss)]
  <2>1. CASE n = 0
    <3>1. ss = <<>>
      BY <1>1, <2>1, EmptySeq
    <3>2. FlattenSeq(ss) = ss
      BY <1>1, <2>1, FlattenIs, Zenon
    <3>3. C[n] = <<>>
      BY <2>1
    <3> QED BY <1>1, <3>1, <3>2, <3>3, Zenon
  <2>2. CASE n # 0
    <3>1. FlattenSeq(ss) = f[n]
      BY <1>1, <1>2, <2>2, FlattenIs, Zenon
    <3>2. C[n] = f[n]
      BY <2>2, <1>3
    <3> QED BY <1>1, <3>1, <3>2, Zenon
  <2> QED BY <2>1, <2>2
<1> HIDE DEF C
<1> QED BY <1>6, <1>7

\* Whatever adds the sequences up from the left ends with what FlattenSeq makes.
LEMMA FlattenIsLast ==
  ASSUME NEW X, NEW ss \in Seq(Seq(X)), NEW D, Sums(D, ss)
  PROVE  FlattenSeq(ss) = D[Len(ss)] /\ FlattenSeq(ss) \in Seq(X)
<1>1. PICK C : Sums(C, ss) /\ FlattenSeq(ss) = C[Len(ss)]
  BY FlattenSums
<1>2. Len(ss) \in Nat
  BY LenProperties
<1>3. C[Len(ss)] = D[Len(ss)]
  BY <1>1, <1>2, SumsAlike, Zenon
<1>4. \A k \in 0 .. Len(ss) : C[k] \in Seq(X)
  BY <1>1, SumsTyped, Zenon
<1>5. Len(ss) \in 0 .. Len(ss)
  BY <1>2
<1> QED BY <1>1, <1>3, <1>4, <1>5, Zenon

LEMMA FlattenType ==
  ASSUME NEW X, NEW ss \in Seq(Seq(X))
  PROVE  FlattenSeq(ss) \in Seq(X)
<1>1. PICK C : Sums(C, ss)
  BY FlattenSums
<1> QED BY <1>1, FlattenIsLast, Zenon


LEMMA Associative ==
  ASSUME NEW X, NEW a \in Seq(X), NEW b \in Seq(X), NEW c \in Seq(X),
         NEW ab, ab = a \o b, NEW bc, bc = b \o c
  PROVE  ab \o c = a \o bc
<1>1. (a \o b) \o c = a \o (b \o c)
  BY ConcatAssociative
<1> QED BY <1>1

\* Sequences that are put together are flattened one after the other.
LEMMA FlattenConcat ==
  ASSUME NEW X, NEW ss \in Seq(Seq(X)), NEW tt \in Seq(Seq(X))
  PROVE  FlattenSeq(ss \o tt) = FlattenSeq(ss) \o FlattenSeq(tt)
<1>1. PICK C : Sums(C, ss) /\ FlattenSeq(ss) = C[Len(ss)]
  BY FlattenSums
<1>2. PICK D : Sums(D, tt) /\ FlattenSeq(tt) = D[Len(tt)]
  BY FlattenSums
<1>3. PICK m : m = Len(ss)
  OBVIOUS
<1>4. PICK n : n = Len(tt)
  OBVIOUS
<1>5. PICK uu : uu = ss \o tt
  OBVIOUS
<1>6. m \in Nat /\ n \in Nat
  BY <1>3, <1>4, LenProperties
<1>7. /\ uu \in Seq(Seq(X)) /\ Len(uu) = m + n
      /\ \A i \in 1 .. m + n : uu[i] = IF i <= m THEN ss[i] ELSE tt[i - m]
  BY <1>3, <1>4, <1>5, ConcatProperties
<1>8. /\ \A k \in 0 .. m : C[k] \in Seq(X)
      /\ \A k \in 0 .. n : D[k] \in Seq(X)
  BY <1>1, <1>2, <1>3, <1>4, SumsTyped
<1>9. /\ C[0] = <<>> /\ \A k \in 0 .. m : k < m => C[k + 1] = C[k] \o ss[k + 1]
      /\ D[0] = <<>> /\ \A k \in 0 .. n : k < n => D[k + 1] = D[k] \o tt[k + 1]
  BY <1>1, <1>2, <1>3, <1>4 DEF Sums
<1> DEFINE E == [k \in 0 .. m + n |-> IF k <= m THEN C[k] ELSE C[m] \o D[k - m]]
<1>a. \A k \in 0 .. m : E[k] = C[k]
  BY <1>6
<1>b. C[m] \o D[0] = C[m]
  BY <1>6, <1>8, <1>9, ConcatEmptySeq
<1>c. \A k \in 0 .. n : E[m + k] = C[m] \o D[k]
  <2> SUFFICES ASSUME NEW k \in 0 .. n PROVE E[m + k] = C[m] \o D[k]
    OBVIOUS
  <2>1. CASE k = 0
    BY <2>1, <1>6, <1>a, <1>b
  <2>2. CASE k # 0
    <3>1. m + k \in 0 .. m + n /\ ~(m + k <= m) /\ (m + k) - m = k
      BY <1>6, <2>2
    <3> QED BY <3>1
  <2> QED BY <2>1, <2>2
<1> HIDE DEF E
<1>d. \A k \in 0 .. m + n : k < m + n => E[k + 1] = E[k] \o uu[k + 1]
  <2> SUFFICES ASSUME NEW k \in 0 .. m + n, k < m + n PROVE E[k + 1] = E[k] \o uu[k + 1]
    OBVIOUS
  <2>1. CASE k < m
    <3>1. k \in 0 .. m /\ k + 1 \in 0 .. m /\ k + 1 \in 1 .. m + n /\ k + 1 <= m
      BY <1>6, <2>1
    <3>2. E[k] = C[k] /\ E[k + 1] = C[k + 1]
      BY <1>a, <3>1
    <3>3. uu[k + 1] = ss[k + 1] /\ C[k + 1] = C[k] \o ss[k + 1]
      BY <1>7, <1>9, <2>1, <3>1
    <3> QED BY <3>2, <3>3
  <2>2. CASE ~(k < m)
    <3>1. PICK j : j = k - m
      OBVIOUS
    <3>2. /\ j \in 0 .. n /\ j < n /\ j + 1 \in 0 .. n /\ j + 1 \in 1 .. n
          /\ m + j = k /\ m + (j + 1) = k + 1
          /\ k + 1 \in 1 .. m + n /\ ~(k + 1 <= m) /\ (k + 1) - m = j + 1
      BY <1>6, <2>2, <3>1
    <3>3. E[k] = C[m] \o D[j] /\ E[k + 1] = C[m] \o D[j + 1]
      <4>1. E[m + j] = C[m] \o D[j] /\ E[m + (j + 1)] = C[m] \o D[j + 1]
        BY <1>c, <3>2, Zenon
      <4> QED BY <3>2, <4>1, Zenon
    <3>4. uu[k + 1] = tt[j + 1] /\ D[j + 1] = D[j] \o tt[j + 1]
      BY <1>7, <1>9, <3>2
    <3>5. tt[j + 1] \in Seq(X)
      BY <1>4, <3>2, ElementOfSeq
    <3>6. C[m] \in Seq(X) /\ D[j] \in Seq(X)
      BY <1>6, <1>8, <3>2
    <3>7. (C[m] \o D[j]) \o tt[j + 1] = C[m] \o (D[j] \o tt[j + 1])
      <4>1. PICK a \in Seq(X) : a = C[m]
        BY <3>6
      <4>2. PICK b \in Seq(X) : b = D[j]
        BY <3>6
      <4>3. PICK c \in Seq(X) : c = tt[j + 1]
        BY <3>5
      <4>4. PICK ab : ab = a \o b
        OBVIOUS
      <4>5. PICK bc : bc = b \o c
        OBVIOUS
      <4>6. ab \o c = a \o bc
        BY <4>4, <4>5, Associative
      <4> QED BY <4>1, <4>2, <4>3, <4>4, <4>5, <4>6, Zenon
    <3> QED BY <3>3, <3>4, <3>7, Zenon
  <2> QED BY <2>1, <2>2
<1>e. E[0] = <<>>
  BY <1>6, <1>9, <1>a
<1>f. Sums(E, uu)
  BY <1>7, <1>d, <1>e DEF Sums
<1>g. FlattenSeq(uu) = E[Len(uu)]
  <2>1. uu \in Seq(Seq(X))
    BY <1>7
  <2> QED BY <2>1, <1>f, FlattenIsLast, Zenon
<1>h. E[m + n] = C[m] \o D[n]
  <2>1. n \in 0 .. n
    BY <1>6
  <2> QED BY <2>1, <1>c, Zenon
<1> QED BY <1>1, <1>2, <1>3, <1>4, <1>5, <1>7, <1>g, <1>h, Zenon

LEMMA FlattenNone == FlattenSeq(<<>>) = <<>>
<1>1. Len(<<>>) = 0
  OBVIOUS
<1> QED BY <1>1, FlattenIs, Zenon

LEMMA FlattenOne ==
  ASSUME NEW X, NEW s \in Seq(X)
  PROVE  FlattenSeq(<<s>>) = s
<1>1. PICK ss : ss = <<s>>
  OBVIOUS
<1>2. ss \in Seq(Seq(X)) /\ Len(ss) = 1 /\ ss[1] = s
  BY <1>1
<1> DEFINE C == [k \in 0 .. 1 |-> IF k = 0 THEN <<>> ELSE s]
<1>3. C[0] = <<>> /\ C[1] = s
  OBVIOUS
<1>4. <<>> \o s = s
  BY ConcatEmptySeq
<1>5. Sums(C, ss)
  <2>1. ASSUME NEW k \in 0 .. 1, k < 1 PROVE k = 0 /\ k + 1 = 1
    BY <2>1
  <2> HIDE DEF C
  <2>2. \A k \in 0 .. 1 : k < 1 => C[k + 1] = C[k] \o ss[k + 1]
    BY <2>1, <1>2, <1>3, <1>4
  <2> QED BY <1>2, <1>3, <2>2 DEF Sums
<1>6. FlattenSeq(ss) = C[Len(ss)]
  <2> HIDE DEF C
  <2> QED BY <1>2, <1>5, FlattenIsLast, Zenon
<1> HIDE DEF C
<1> QED BY <1>1, <1>2, <1>3, <1>6, Zenon


-----------------------------------------------------------------------------
(* What a function makes of the elements of a sequence, put together.      *)

Each(s, f) == [i \in DOMAIN s |-> f[s[i]]]
Gathered(s, f) == FlattenSeq(Each(s, f))

IsEach(a, s, n, f) == \A i \in 1 .. n : a[i] = f[s[i]]

GatheredFrom(X, a, s, f) ==
  /\ a \in Seq(Seq(X)) /\ Len(a) = Len(s) /\ IsEach(a, s, Len(s), f)
  /\ Gathered(s, f) = FlattenSeq(a) /\ Gathered(s, f) \in Seq(X)

LEMMA GatheredType ==
  ASSUME NEW M, NEW X, NEW f \in [M -> Seq(X)], NEW s \in Seq(M), NEW a, a = Each(s, f)
  PROVE  GatheredFrom(X, a, s, f)
<1>1. PICK n : n = Len(s)
  OBVIOUS
<1>2. n \in Nat /\ DOMAIN s = 1 .. n /\ \A i \in 1 .. n : s[i] \in M
  BY <1>1, LenProperties, ElementOfSeq
<1>3. a = [i \in 1 .. n |-> f[s[i]]]
  BY <1>2 DEF Each
<1>4. \A i \in 1 .. n : f[s[i]] \in Seq(X)
  BY <1>2
<1>5. a \in [1 .. n -> Seq(X)]
  BY <1>3, <1>4
<1>6. a \in Seq(Seq(X)) /\ Len(a) = n
  BY <1>2, <1>5
<1>7. IsEach(a, s, n, f)
  BY <1>3 DEF IsEach
<1>8. Gathered(s, f) = FlattenSeq(a)
  BY Zenon DEF Gathered
<1> QED BY <1>1, <1>6, <1>7, <1>8, FlattenType, Zenon DEF GatheredFrom

LEMMA GatheredConcat ==
  ASSUME NEW M, NEW X, NEW f \in [M -> Seq(X)], NEW s \in Seq(M), NEW t \in Seq(M)
  PROVE  Gathered(s \o t, f) = Gathered(s, f) \o Gathered(t, f)
<1>1. PICK u : u = s \o t
  OBVIOUS
<1>2. PICK a, b, c : a = Each(s, f) /\ b = Each(t, f) /\ c = Each(u, f)
  OBVIOUS
<1>3. PICK n, m : n = Len(s) /\ m = Len(t)
  OBVIOUS
<1>4. n \in Nat /\ m \in Nat
  BY <1>3, LenProperties
<1>5. /\ u \in Seq(M) /\ Len(u) = n + m
      /\ \A i \in 1 .. n + m : u[i] = IF i <= n THEN s[i] ELSE t[i - n]
  BY <1>1, <1>3, ConcatProperties
<1>6. /\ a \in Seq(Seq(X)) /\ Len(a) = n /\ IsEach(a, s, n, f)
      /\ Gathered(s, f) = FlattenSeq(a)
  <2>1. GatheredFrom(X, a, s, f)
    BY <1>2, GatheredType
  <2> QED BY <1>3, <2>1 DEF GatheredFrom
<1>7. /\ b \in Seq(Seq(X)) /\ Len(b) = m /\ IsEach(b, t, m, f)
      /\ Gathered(t, f) = FlattenSeq(b)
  <2>1. GatheredFrom(X, b, t, f)
    BY <1>2, GatheredType
  <2> QED BY <1>3, <2>1 DEF GatheredFrom
<1>8. /\ c \in Seq(Seq(X)) /\ Len(c) = n + m /\ IsEach(c, u, n + m, f)
      /\ Gathered(u, f) = FlattenSeq(c)
  <2>1. u \in Seq(M) /\ Len(u) = n + m
    BY <1>5
  <2>2. GatheredFrom(X, c, u, f)
    BY <1>2, <2>1, GatheredType
  <2> QED BY <2>1, <2>2 DEF GatheredFrom
<1>9. PICK d : d = a \o b
  OBVIOUS
<1>a. /\ d \in Seq(Seq(X)) /\ Len(d) = n + m
      /\ \A i \in 1 .. n + m : d[i] = IF i <= n THEN a[i] ELSE b[i - n]
  <2>1. a \in Seq(Seq(X)) /\ b \in Seq(Seq(X)) /\ Len(a) = n /\ Len(b) = m
    BY <1>6, <1>7
  <2> QED BY <2>1, <1>9, ConcatProperties
<1>b. \A i \in 1 .. n + m : c[i] = d[i]
  <2> SUFFICES ASSUME NEW i \in 1 .. n + m PROVE c[i] = d[i]
    OBVIOUS
  <2>1. c[i] = f[u[i]]
    BY <1>8 DEF IsEach
  <2>2. CASE i <= n
    <3>1. i \in 1 .. n /\ u[i] = s[i] /\ d[i] = a[i]
      <4>1. i \in 1 .. n
        BY <1>4, <2>2
      <4>2. u[i] = s[i]
        BY <1>5, <2>2
      <4> QED BY <1>a, <2>2, <4>1, <4>2
    <3>2. a[i] = f[s[i]]
      BY <1>6, <3>1 DEF IsEach
    <3> QED BY <2>1, <3>1, <3>2, Zenon
  <2>3. CASE ~(i <= n)
    <3>1. PICK j : j = i - n
      OBVIOUS
    <3>2. j \in 1 .. m /\ u[i] = t[j] /\ d[i] = b[j]
      <4>1. j \in 1 .. m
        BY <1>4, <2>3, <3>1
      <4>2. u[i] = t[j]
        BY <1>5, <2>3, <3>1
      <4>3. d[i] = b[j]
        BY <1>a, <2>3, <3>1
      <4> QED BY <4>1, <4>2, <4>3
    <3>3. b[j] = f[t[j]]
      BY <1>7, <3>2 DEF IsEach
    <3> QED BY <2>1, <3>2, <3>3, Zenon
  <2> QED BY <2>2, <2>3
<1>c. c = d
  <2>1. c \in Seq(Seq(X)) /\ Len(c) = n + m
    BY <1>8
  <2> QED BY <2>1, <1>a, <1>b, SeqEqual
<1>d. FlattenSeq(d) = FlattenSeq(a) \o FlattenSeq(b)
  <2>1. a \in Seq(Seq(X)) /\ b \in Seq(Seq(X))
    BY <1>6, <1>7
  <2> QED BY <1>9, <2>1, FlattenConcat, Zenon
<1> QED BY <1>1, <1>6, <1>7, <1>8, <1>c, <1>d, Zenon

LEMMA GatheredNone ==
  ASSUME NEW f
  PROVE  Gathered(<<>>, f) = <<>>
<1>1. PICK s, a : s = <<>> /\ a = Each(s, f)
  OBVIOUS
<1>2. a = [i \in 1 .. 0 |-> f[s[i]]]
  BY <1>1 DEF Each
<1>3. a = <<>>
  BY <1>2
<1> QED BY <1>1, <1>3, FlattenNone, Zenon DEF Gathered

LEMMA GatheredOne ==
  ASSUME NEW M, NEW X, NEW f \in [M -> Seq(X)], NEW m \in M
  PROVE  Gathered(<<m>>, f) = f[m]
<1>1. PICK s, a, x : s = <<m>> /\ a = Each(s, f) /\ x = f[m]
  OBVIOUS
<1>2. s \in Seq(M) /\ Len(s) = 1 /\ s[1] = m
  BY <1>1
<1>3. a \in Seq(Seq(X)) /\ Len(a) = 1 /\ a[1] = x /\ Gathered(s, f) = FlattenSeq(a)
  <2>1. GatheredFrom(X, a, s, f)
    BY <1>1, <1>2, GatheredType
  <2> QED BY <1>1, <1>2, <2>1 DEF GatheredFrom, IsEach
<1>4. x \in Seq(X)
  BY <1>1
<1>5. a = <<x>>
  BY <1>3
<1> QED BY <1>1, <1>3, <1>4, <1>5, FlattenOne, Zenon

LEMMA GatheredMore ==
  ASSUME NEW A, NEW B, NEW e \in [A -> Seq(B)], NEW p \in Seq(A), NEW m \in A,
         NEW q, q = p \o <<m>>
  PROVE  Gathered(q, e) = Gathered(p, e) \o e[m]
<1>1. PICK one : one = <<m>>
  OBVIOUS
<1>2. one \in Seq(A)
  BY <1>1
<1>3. Gathered(p \o one, e) = Gathered(p, e) \o Gathered(one, e)
  BY <1>2, GatheredConcat
<1>4. Gathered(one, e) = e[m]
  BY <1>1, GatheredOne, Zenon
<1> QED BY <1>1, <1>3, <1>4, Zenon

\* What g makes of what f makes is what their composition makes.
Composed(M, X, Y, f, g, h) ==
  /\ f \in [M -> Seq(X)] /\ g \in [X -> Seq(Y)] /\ h \in [M -> Seq(Y)]
  /\ \A m \in M : h[m] = Gathered(f[m], g)

LEMMA GatheredThrough ==
  ASSUME NEW M, NEW X, NEW Y, NEW f, NEW g, NEW h, Composed(M, X, Y, f, g, h), NEW s \in Seq(M)
  PROVE  Gathered(Gathered(s, f), g) = Gathered(s, h)
<1>0. /\ f \in [M -> Seq(X)] /\ g \in [X -> Seq(Y)] /\ h \in [M -> Seq(Y)]
      /\ \A m \in M : h[m] = Gathered(f[m], g)
  BY DEF Composed
<1>1. PICK n : n = Len(s)
  OBVIOUS
<1>2. n \in Nat /\ \A i \in 1 .. n : s[i] \in M
  BY <1>1, LenProperties, ElementOfSeq
<1> DEFINE S == {k \in 0 .. n : Gathered(Gathered(SubSeq(s, 1, k), f), g) = Gathered(SubSeq(s, 1, k), h)}
<1>3. 0 \in S
  <2>1. SubSeq(s, 1, 0) = <<>>
    BY SubSeqEmpty
  <2>2. Gathered(SubSeq(s, 1, 0), f) = <<>> /\ Gathered(SubSeq(s, 1, 0), h) = <<>>
    BY <2>1, GatheredNone, Zenon
  <2>3. Gathered(Gathered(SubSeq(s, 1, 0), f), g) = <<>>
    BY <2>2, GatheredNone, Zenon
  <2>4. 0 \in 0 .. n
    BY <1>2
  <2> QED BY <2>2, <2>3, <2>4, Zenon
<1>4. ASSUME NEW k \in 0 .. n, k \in S, k < n PROVE k + 1 \in S
  <2>1. /\ k + 1 \in 0 .. n /\ k + 1 \in 1 .. Len(s) /\ 1 \in 1 .. Len(s) /\ (k + 1) - 1 = k
        /\ k + 1 \in 1 .. n
    BY <1>1, <1>2, <1>4
  <2>2. PICK p, q, m : p = SubSeq(s, 1, k) /\ q = SubSeq(s, 1, k + 1) /\ m = s[k + 1]
    OBVIOUS
  <2>3. m \in M /\ p \in Seq(M)
    <3>1. 1 \in Int /\ k \in Int /\ \A i \in 1 .. k : s[i] \in M
      BY <1>2, <1>4
    <3>2. m \in M
      BY <1>2, <2>1, <2>2
    <3> QED BY <2>2, <3>1, <3>2, SubSeqProperties
  <2>4. q = p \o <<m>>
    <3>1. k + 1 \in 1 .. Len(s) /\ 1 \in 1 .. Len(s) /\ k + 1 \in 1 .. Len(s)
      BY <2>1
    <3>2. SubSeq(s, 1, k + 1) = SubSeq(s, 1, (k + 1) - 1) \o <<s[k + 1]>>
      BY <3>1, SubSeqRecursiveSecond
    <3> QED BY <2>1, <2>2, <3>2, Zenon
  <2>5. PICK v, w, x : v = Gathered(p, f) /\ w = f[m] /\ x = Gathered(q, f)
    OBVIOUS
  <2>6. x = v \o w /\ Gathered(q, h) = Gathered(p, h) \o h[m]
    BY <1>0, <2>3, <2>4, <2>5, GatheredMore, Zenon
  <2>7. v \in Seq(X) /\ w \in Seq(X)
    <3>1. PICK a : a = Each(p, f)
      OBVIOUS
    <3>2. GatheredFrom(X, a, p, f)
      BY <1>0, <2>3, <3>1, GatheredType
    <3> QED BY <1>0, <2>3, <2>5, <3>2 DEF GatheredFrom
  <2>8. Gathered(x, g) = Gathered(v, g) \o Gathered(w, g)
    BY <1>0, <2>6, <2>7, GatheredConcat, Zenon
  <2>9. Gathered(v, g) = Gathered(p, h)
    BY <1>4, <2>2, <2>5
  <2>a. Gathered(w, g) = h[m]
    BY <1>0, <2>3, <2>5, Zenon
  <2> QED BY <2>1, <2>2, <2>5, <2>6, <2>8, <2>9, <2>a, Zenon
<1>5. n \in S
  <2>1. n \in 0 .. n
    BY <1>2
  <2> HIDE DEF S
  <2> QED BY <1>2, <1>3, <1>4, <2>1, Induct
<1>6. SubSeq(s, 1, n) = s
  BY <1>1, SubSeqFull
<1> QED BY <1>5, <1>6

\* Where only the first element makes something.
AfterFirst(s, f) == \A i \in 1 .. Len(s) : i # 1 => f[s[i]] = <<>>

LEMMA GatheredFirst ==
  ASSUME NEW M, NEW X, NEW f \in [M -> Seq(X)], NEW s \in Seq(M), AfterFirst(s, f)
  PROVE  Gathered(s, f) = IF s = <<>> THEN <<>> ELSE f[s[1]]
<1>1. PICK n, a : n = Len(s) /\ a = Each(s, f)
  OBVIOUS
<1>2. n \in Nat
  BY <1>1, LenProperties
<1>3. /\ a \in Seq(Seq(X)) /\ Len(a) = n /\ IsEach(a, s, n, f)
      /\ Gathered(s, f) = FlattenSeq(a)
  <2>1. GatheredFrom(X, a, s, f)
    BY <1>1, GatheredType
  <2> QED BY <1>1, <2>1 DEF GatheredFrom
<1>4. CASE s = <<>>
  BY <1>4, GatheredNone, Zenon
<1>5. CASE s # <<>>
  <2>1. 1 \in 1 .. n
    <3>1. n # 0
      BY <1>1, <1>5, EmptySeq
    <3> QED BY <1>2, <3>1
  <2>2. PICK x : x = f[s[1]]
    OBVIOUS
  <2>3. x \in Seq(X) /\ a[1] = x
    <3>1. s[1] \in M
      BY <1>1, <2>1, ElementOfSeq
    <3> QED BY <1>3, <2>1, <2>2, <3>1 DEF IsEach
  <2>4. \A i \in 1 .. n : i # 1 => a[i] = <<>>
    BY <1>1, <1>3 DEF IsEach, AfterFirst
  <2> DEFINE C == [k \in 0 .. n |-> IF k = 0 THEN <<>> ELSE x]
  <2>5. \A k \in 0 .. n : C[k] = IF k = 0 THEN <<>> ELSE x
    OBVIOUS
  <2> HIDE DEF C
  <2>6. <<>> \o x = x /\ x \o <<>> = x
    BY <2>3, ConcatEmptySeq
  <2>7. Sums(C, a)
    <3>1. ASSUME NEW k \in 0 .. n, k < n PROVE C[k + 1] = C[k] \o a[k + 1]
      <4>1. k + 1 \in 0 .. n /\ k + 1 \in 1 .. n /\ k + 1 # 0
        BY <1>2, <3>1
      <4>2. CASE k = 0
        <5>1. k + 1 = 1
          BY <4>2
        <5>2. C[k + 1] = x /\ C[k] = <<>> /\ a[k + 1] = x
          BY <2>3, <2>5, <4>1, <4>2, <5>1
        <5> QED BY <2>6, <5>2, Zenon
      <4>3. CASE k # 0
        <5>1. k + 1 # 1
          BY <3>1, <4>3
        <5>2. C[k + 1] = x /\ C[k] = x /\ a[k + 1] = <<>>
          BY <2>4, <2>5, <3>1, <4>1, <4>3, <5>1
        <5> QED BY <2>6, <5>2, Zenon
      <4> QED BY <4>2, <4>3
    <3>2. C[0] = <<>>
      <4>1. 0 \in 0 .. n
        BY <1>2
      <4> QED BY <2>5, <4>1
    <3> QED BY <1>3, <3>1, <3>2 DEF Sums
  <2>8. FlattenSeq(a) = C[n]
    <3>1. a \in Seq(Seq(X)) /\ Len(a) = n
      BY <1>3
    <3> QED BY <3>1, <2>7, FlattenIsLast, Zenon
  <2>9. C[n] = x
    BY <1>2, <2>1, <2>5
  <2> QED BY <1>3, <1>5, <2>2, <2>8, <2>9, Zenon
<1> QED BY <1>4, <1>5


\* Where every element makes itself.
LEMMA GatheredSame ==
  ASSUME NEW X, NEW f \in [X -> Seq(X)], NEW s \in Seq(X),
         \A i \in 1 .. Len(s) : f[s[i]] = <<s[i]>>
  PROVE  Gathered(s, f) = s
<1>1. PICK n, a : n = Len(s) /\ a = Each(s, f)
  OBVIOUS
<1>2. n \in Nat
  BY <1>1, LenProperties
<1>3. /\ a \in Seq(Seq(X)) /\ Len(a) = n /\ IsEach(a, s, n, f)
      /\ Gathered(s, f) = FlattenSeq(a)
  <2>1. GatheredFrom(X, a, s, f)
    BY <1>1, GatheredType
  <2> QED BY <1>1, <2>1 DEF GatheredFrom
<1>4. \A i \in 1 .. n : a[i] = <<s[i]>>
  BY <1>1, <1>3, Zenon DEF IsEach
<1> DEFINE C == [k \in 0 .. n |-> SubSeq(s, 1, k)]
<1>5. \A k \in 0 .. n : C[k] = SubSeq(s, 1, k)
  OBVIOUS
<1> HIDE DEF C
<1>6. C[0] = <<>>
  <2>1. SubSeq(s, 1, 0) = <<>>
    BY SubSeqEmpty
  <2> QED BY <1>2, <1>5, <2>1
<1>7. ASSUME NEW k \in 0 .. n, k < n PROVE C[k + 1] = C[k] \o a[k + 1]
  <2>1. k + 1 \in 0 .. n /\ k + 1 \in 1 .. n /\ (k + 1) - 1 = k /\ 1 \in 1 .. n /\ k + 1 \in 1 .. Len(s)
        /\ 1 \in 1 .. Len(s)
    BY <1>1, <1>2, <1>7
  <2>2. SubSeq(s, 1, k + 1) = SubSeq(s, 1, (k + 1) - 1) \o <<s[k + 1]>>
    BY <2>1, SubSeqRecursiveSecond
  <2> QED BY <1>4, <1>5, <2>1, <2>2, Zenon
<1>8. Sums(C, a)
  BY <1>3, <1>6, <1>7 DEF Sums
<1>9. FlattenSeq(a) = C[n]
  <2>1. a \in Seq(Seq(X)) /\ Len(a) = n
    BY <1>3
  <2> QED BY <2>1, <1>8, FlattenIsLast, Zenon
<1>a. SubSeq(s, 1, n) = s
  BY <1>1, SubSeqFull
<1>b. n \in 0 .. n
  BY <1>2
<1> QED BY <1>3, <1>5, <1>9, <1>a, <1>b, Zenon


-----------------------------------------------------------------------------
(* The elements of a sequence at some of its indices, in order.            *)

Picked(s, I) == FlattenSeq([i \in DOMAIN s |-> IF i \in I THEN <<s[i]>> ELSE <<>>])

LEMMA PickedType ==
  ASSUME NEW X, NEW s \in Seq(X), NEW I, NEW Z, Z = {s[i] : i \in DOMAIN s \cap I}
  PROVE  Picked(s, I) \in Seq(Z)
<1>1. PICK n : n = Len(s)
  OBVIOUS
<1>2. n \in Nat /\ DOMAIN s = 1 .. n
  BY <1>1, LenProperties
<1> DEFINE a == [i \in 1 .. n |-> IF i \in I THEN <<s[i]>> ELSE <<>>]
<1>4. ASSUME NEW i \in 1 .. n PROVE (IF i \in I THEN <<s[i]>> ELSE <<>>) \in Seq(Z)
  <2>1. CASE i \in I
    <3>1. PICK x : x = s[i]
      OBVIOUS
    <3>2. x \in Z
      BY <1>2, <2>1, <3>1
    <3>3. <<x>> \in Seq(Z)
      BY <3>2
    <3> QED BY <2>1, <3>1, <3>3, Zenon
  <2>2. CASE i \notin I
    BY <2>2, EmptySeq
  <2> QED BY <2>1, <2>2
<1>5. a \in [1 .. n -> Seq(Z)]
  <2> SUFFICES ASSUME NEW i \in 1 .. n PROVE (IF i \in I THEN <<s[i]>> ELSE <<>>) \in Seq(Z)
    OBVIOUS
  <2> QED BY <1>4, Zenon
<1>6. a \in Seq(Seq(Z))
  <2>1. PICK b : b = a
    OBVIOUS
  <2>2. b \in [1 .. n -> Seq(Z)]
    BY <1>5, <2>1
  <2>3. n \in Nat
    BY <1>2
  <2>4. b \in Seq(Seq(Z))
    BY <2>2, <2>3
  <2> QED BY <2>1, <2>4
<1>7. Picked(s, I) = FlattenSeq(a)
  <2>1. [i \in DOMAIN s |-> IF i \in I THEN <<s[i]>> ELSE <<>>] = a
    BY <1>2, Zenon
  <2> HIDE DEF a
  <2> QED BY <2>1, Zenon DEF Picked
<1> HIDE DEF a
<1> QED BY <1>6, <1>7, FlattenType, Zenon
=============================================================================
