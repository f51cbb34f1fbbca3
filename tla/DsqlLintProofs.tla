----------------------------- MODULE DsqlLintProofs -----------------------------
(***************************************************************************)
(* Lemmas about scripts and what dsql-lint makes of them.                  *)
(***************************************************************************)
EXTENDS DsqlLint, FiniteSetTheorems, SequenceTheorems, WellFoundedInduction, TLAPS

-----------------------------------------------------------------------------
(* Joining sequences. FlattenSeq is a recursive function; what is needed   *)
(* of it is that it is the last of a series of sequences that starts       *)
(* empty and takes up one sequence after another, and that this series is  *)
(* the only one.                                                           *)

\* Induction over the natural numbers, as a counterexample that is minimal.
LEMMA MinimalNumber ==
  ASSUME NEW Bad, Bad \subseteq Nat, Bad # {}
  PROVE  \E n \in Bad : \A m \in Nat : m < n => m \notin Bad
<1> DEFINE Less == OpToRel(<, Nat)
<1>1. IsWellFoundedOn(Less, Nat)
  BY NatLessThanWellFounded
<1>2. \A m, n \in Nat : m < n => <<m, n>> \in Less
  BY DEF OpToRel
<1> HIDE DEF Less
<1>3. PICK n \in Bad : \A m \in Bad : ~(<<m, n>> \in Less)
  BY <1>1, WFMin, Zenon
<1>4. QED
  BY <1>2, <1>3

\* g is the recursive function of FlattenSeq.
IsConcat(g, s, n) ==
  g = [i \in 1..n |-> IF i = 1 THEN s[i] ELSE g[i - 1] \o s[i]]

\* FlattenSeq is the last value of the one function that IsConcat describes,
LEMMA FlattenIs ==
  ASSUME NEW s
  PROVE  FlattenSeq(s) = IF Len(s) = 0 THEN s
                         ELSE (CHOOSE g : IsConcat(g, s, Len(s)))[Len(s)]
BY DEF FlattenSeq, IsConcat

\* and that function exists.
LEMMA ConcatExists ==
  ASSUME NEW s, NEW n \in Nat
  PROVE  \E g : IsConcat(g, s, n)
<1> DEFINE Bad == {k \in Nat : ~\E g : IsConcat(g, s, k)}
<1> SUFFICES ASSUME Bad # {} PROVE FALSE
  OBVIOUS
<1>1. PICK k \in Bad : \A m \in Nat : m < k => m \notin Bad
  <2>1. Bad \subseteq Nat
    OBVIOUS
  <2> HIDE DEF Bad
  <2>2. QED
    BY <2>1, MinimalNumber
<1>2. k # 0
  <2>1. IsConcat([i \in {} |-> <<>>], s, 0)
    BY DEF IsConcat
  <2>2. QED
    BY <2>1
<1>3. PICK g : IsConcat(g, s, k - 1)
  BY <1>1, <1>2
<1> DEFINE h == [i \in 1..k |-> IF i = 1 THEN s[i] ELSE g[i - 1] \o s[i]]
<1>4. k \in Nat
  BY <1>1
<1>5. \A i \in 1..(k - 1) : i \in 1..k /\ h[i] = g[i]
  <2>1. \A i \in 1..(k - 1) : g[i] = IF i = 1 THEN s[i] ELSE g[i - 1] \o s[i]
    BY <1>3, Zenon DEF IsConcat
  <2>2. \A i \in 1..(k - 1) : i \in 1..k
    BY <1>4
  <2>3. QED
    BY <2>1, <2>2, Zenon
<1>6. \A i \in 1..k : i # 1 => h[i - 1] = g[i - 1]
  <2>1. \A i \in 1..k : i # 1 => i - 1 \in 1..(k - 1)
    BY <1>4
  <2> HIDE DEF h
  <2>2. QED
    BY <1>5, <2>1, Zenon
<1>7. h = [i \in 1..k |-> IF i = 1 THEN s[i] ELSE h[i - 1] \o s[i]]
  BY <1>6, Zenon
<1>8. QED
  BY <1>1, <1>7, Zenon DEF IsConcat

\* F[i] is what the first i sequences make.
Joins(F, s, S) ==
  /\ F \in [0..Len(s) -> Seq(S)]
  /\ F[0] = <<>>
  /\ \A i \in 1..Len(s) : F[i] = F[i - 1] \o s[i]

\* It is the last of such a series.
LEMMA FlattenSteps ==
  ASSUME NEW S, NEW s \in Seq(Seq(S))
  PROVE  \E F : Joins(F, s, S) /\ F[Len(s)] = FlattenSeq(s)
<1> DEFINE n == Len(s)
           g == CHOOSE f : IsConcat(f, s, n)
           F == [i \in 0..n |-> IF i = 0 THEN <<>> ELSE g[i]]
<1>1. n \in Nat /\ \A i \in 1..n : s[i] \in Seq(S)
  OBVIOUS
<1>2. IsConcat(g, s, n)
  BY <1>1, ConcatExists
<1> HIDE DEF g
<1>3. \A i \in 1..n : g[i] = IF i = 1 THEN s[i] ELSE g[i - 1] \o s[i]
  BY <1>2, Zenon DEF IsConcat
<1>4. ASSUME NEW i \in 1..n
      PROVE  F[i] = F[i - 1] \o s[i]
  <2>1. i \in 0..n /\ i - 1 \in 0..n /\ i # 0 /\ (i = 1 => i - 1 = 0) /\ (i # 1 => i - 1 # 0)
    BY <1>1
  <2>2. F[i] = g[i]
    BY <2>1
  <2>3. CASE i = 1
    <3>1. F[i - 1] = <<>>
      BY <2>1, <2>3
    <3>2. <<>> \o s[i] = s[i]
      BY <1>1, ConcatEmptySeq, Zenon
    <3>3. QED
      BY <1>3, <2>2, <2>3, <3>1, <3>2, Zenon
  <2>4. CASE i # 1
    <3>1. F[i - 1] = g[i - 1]
      BY <2>1, <2>4
    <3>2. QED
      BY <1>3, <2>2, <2>4, <3>1, Zenon
  <2>5. QED
    BY <2>3, <2>4
<1>5. F[0] = <<>>
  BY <1>1
<1>6. F[n] = FlattenSeq(s)
  <2>1. CASE n = 0
    BY <1>5, <2>1, FlattenIs
  <2>2. CASE n # 0
    BY <1>1, <2>2, FlattenIs DEF g
  <2>3. QED
    BY <2>1, <2>2
<1> HIDE DEF F
<1>7. \A i \in 0..n : F[i] \in Seq(S)
  <2> DEFINE Bad == {i \in 0..n : F[i] \notin Seq(S)}
  <2> SUFFICES ASSUME Bad # {} PROVE FALSE
    OBVIOUS
  <2>1. PICK i \in Bad : \A m \in Nat : m < i => m \notin Bad
    <3>1. Bad \subseteq Nat
      BY <1>1
    <3> HIDE DEF Bad
    <3>2. QED
      BY <3>1, MinimalNumber
  <2>2. i \in 0..n /\ F[i] \notin Seq(S)
    BY <2>1
  <2>3. i # 0
    BY <1>5, <2>2, EmptySeq, Zenon
  <2>4. i \in 1..n /\ i - 1 \in 0..n /\ i - 1 \in Nat /\ i - 1 < i
    BY <1>1, <2>2, <2>3
  <2>5. i - 1 \notin Bad
    BY <2>1, <2>4, Zenon
  <2>6. F[i - 1] \in Seq(S) /\ s[i] \in Seq(S)
    BY <1>1, <2>4, <2>5, Zenon
  <2>7. F[i - 1] \o s[i] \in Seq(S)
    BY <2>6, ConcatProperties, Zenon
  <2>8. QED
    BY <1>4, <2>2, <2>4, <2>7, Zenon
<1>8. F \in [0..n -> Seq(S)]
  BY <1>7 DEF F
<1>9. QED
  BY <1>4, <1>5, <1>6, <1>8, Zenon DEF Joins

\* There is one series only.
LEMMA FlattenUnique ==
  ASSUME NEW S, NEW s \in Seq(Seq(S)), NEW G, G[0] = <<>>,
         \A i \in 1..Len(s) : G[i] = G[i - 1] \o s[i]
  PROVE  FlattenSeq(s) = G[Len(s)]
<1>1. PICK F : Joins(F, s, S) /\ F[Len(s)] = FlattenSeq(s)
  BY FlattenSteps
<1>2. Len(s) \in Nat
  OBVIOUS
<1> DEFINE n == Len(s)
           Bad == {i \in 0..n : F[i] # G[i]}
<1>3. ASSUME Bad # {}
      PROVE  FALSE
  <2>1. PICK i \in Bad : \A m \in Nat : m < i => m \notin Bad
    <3>1. Bad \subseteq Nat
      BY <1>2
    <3> HIDE DEF Bad
    <3>2. QED
      BY <1>3, <3>1, MinimalNumber
  <2>2. i \in 0..n /\ F[i] # G[i]
    BY <2>1
  <2>3. i # 0
    BY <1>1, <2>2, Zenon DEF Joins
  <2>4. i \in 1..n /\ i - 1 \in 0..n /\ i - 1 \in Nat /\ i - 1 < i
    BY <1>2, <2>2, <2>3
  <2>5. i - 1 \notin Bad
    BY <2>1, <2>4, Zenon
  <2>6. F[i - 1] = G[i - 1]
    BY <2>4, <2>5, Zenon
  <2>7. QED
    BY <1>1, <2>2, <2>4, <2>6, Zenon DEF Joins
<1>4. n \in 0..n
  BY <1>2
<1>5. F[n] = G[n]
  BY <1>3, <1>4, Zenon
<1>6. QED
  BY <1>1, <1>5, Zenon

\* The elements stay what they are.
LEMMA FlattenType ==
  ASSUME NEW S, NEW s \in Seq(Seq(S))
  PROVE  FlattenSeq(s) \in Seq(S)
<1>1. PICK F : Joins(F, s, S) /\ F[Len(s)] = FlattenSeq(s)
  BY FlattenSteps
<1>2. Len(s) \in 0..Len(s)
  OBVIOUS
<1>3. QED
  BY <1>1, <1>2, Zenon DEF Joins

\* Nothing to join,
LEMMA FlattenEmpty == FlattenSeq(<<>>) = <<>>
BY FlattenIs

\* or one sequence.
LEMMA FlattenOne ==
  ASSUME NEW S, NEW e \in Seq(S)
  PROVE  FlattenSeq(<<e>>) = e
<1> DEFINE G == [i \in 0..1 |-> IF i = 0 THEN <<>> ELSE e]
<1>1. <<e>> \in Seq(Seq(S)) /\ Len(<<e>>) = 1 /\ <<e>>[1] = e
  OBVIOUS
<1>2. G[0] = <<>> /\ G[1] = e /\ 1 - 1 = 0
  OBVIOUS
<1> HIDE DEF G
<1>3. <<>> \o e = e
  BY ConcatEmptySeq, Zenon
<1>4. G[1] = G[1 - 1] \o <<e>>[1]
  BY <1>1, <1>2, <1>3, Zenon
<1>5. \A i \in 1..Len(<<e>>) : i = 1
  BY <1>1
<1>6. \A i \in 1..Len(<<e>>) : G[i] = G[i - 1] \o <<e>>[i]
  BY <1>4, <1>5, Zenon
<1>7. FlattenSeq(<<e>>) = G[Len(<<e>>)]
  BY <1>1, <1>2, <1>6, FlattenUnique, Zenon
<1>8. QED
  BY <1>1, <1>2, <1>7, Zenon

\* Joining in two parts.
LEMMA FlattenConcat ==
  ASSUME NEW S, NEW s \in Seq(Seq(S)), NEW t \in Seq(Seq(S))
  PROVE  FlattenSeq(s \o t) = FlattenSeq(s) \o FlattenSeq(t)
<1>1. PICK F : Joins(F, s, S) /\ F[Len(s)] = FlattenSeq(s)
  BY FlattenSteps
<1>2. PICK H : Joins(H, t, S) /\ H[Len(t)] = FlattenSeq(t)
  BY FlattenSteps
<1> DEFINE m == Len(s)
           n == Len(t)
           Rest(i) == F[m] \o H[i - m]
           G == [i \in 0..(m + n) |-> IF i <= m THEN F[i] ELSE Rest(i)]
<1>3. /\ m \in Nat /\ n \in Nat
      /\ s \o t \in Seq(Seq(S)) /\ Len(s \o t) = m + n
      /\ \A i \in 1..m : (s \o t)[i] = s[i]
      /\ \A i \in (m + 1)..(m + n) : (s \o t)[i] = t[i - m] /\ i - m \in 1..n
      /\ \A i \in 1..n : t[i] \in Seq(S)
  OBVIOUS
<1> HIDE DEF m, n, Rest
<1>4. /\ \A i \in 0..m : i \in 0..(m + n) /\ G[i] = F[i]
      /\ \A i \in (m + 1)..(m + n) : G[i] = Rest(i)
  BY <1>3
<1> HIDE DEF G
<1>5. ASSUME NEW i \in 1..m
      PROVE  G[i] = G[i - 1] \o (s \o t)[i]
  <2>1. i \in 0..m /\ i - 1 \in 0..m
    BY <1>3
  <2>2. F[i] = F[i - 1] \o s[i]
    BY <1>1, Zenon DEF Joins, m
  <2>3. QED
    BY <1>3, <1>4, <2>1, <2>2, Zenon
<1>6. F[m] \in Seq(S) /\ H[0] = <<>> /\ \A k \in 0..n : H[k] \in Seq(S)
  <2>1. m \in 0..m
    BY <1>3
  <2>2. QED
    BY <1>1, <1>2, <2>1, Zenon DEF Joins, m, n
<1>7. Rest(m) = F[m]
  <2>1. m - m = 0
    BY <1>3
  <2>2. F[m] \o <<>> = F[m]
    BY <1>6, ConcatEmptySeq, Zenon
  <2>3. QED
    BY <1>6, <2>1, <2>2, Zenon DEF Rest
<1>8. \A i \in m..(m + n) : G[i] = Rest(i)
  <2>1. \A i \in m..(m + n) : i = m \/ i \in (m + 1)..(m + n)
    BY <1>3
  <2>2. m \in 0..m
    BY <1>3
  <2>3. QED
    BY <1>4, <1>7, <2>1, <2>2, Zenon
<1>9. ASSUME NEW i \in (m + 1)..(m + n)
      PROVE  G[i] = G[i - 1] \o (s \o t)[i]
  <2> DEFINE k == i - m
  <2>1. /\ k \in 1..n /\ k \in 0..n /\ k - 1 \in 0..n /\ (i - 1) - m = k - 1
        /\ i \in m..(m + n) /\ i - 1 \in m..(m + n)
    BY <1>3
  <2>2. (s \o t)[i] = t[k] /\ t[k] \in Seq(S)
    BY <1>3, <2>1, Zenon
  <2> HIDE DEF k
  <2>3. H[k] = H[k - 1] \o t[k]
    BY <1>2, <2>1, Zenon DEF Joins, n
  <2>4. (F[m] \o H[k - 1]) \o t[k] = F[m] \o (H[k - 1] \o t[k])
    <3>1. F[m] \in Seq(S) /\ H[k - 1] \in Seq(S) /\ t[k] \in Seq(S)
      BY <1>6, <2>1, <2>2, Zenon
    <3>2. QED
      <4>1. \A a, b, c \in Seq(S) : (a \o b) \o c = a \o (b \o c)
        OBVIOUS
      <4>2. QED
        BY <3>1, <4>1, Zenon
  <2>5. G[i] = F[m] \o H[k] /\ G[i - 1] = F[m] \o H[k - 1]
    BY <1>8, <2>1, Zenon DEF Rest, k
  <2>6. QED
    BY <2>2, <2>3, <2>4, <2>5, Zenon
<1>10. \A i \in 1..(m + n) : G[i] = G[i - 1] \o (s \o t)[i]
  <2>1. \A i \in 1..(m + n) : i \in 1..m \/ i \in (m + 1)..(m + n)
    BY <1>3
  <2>2. QED
    BY <1>5, <1>9, <2>1, Zenon
<1>11. G[0] = <<>>
  <2>1. 0 \in 0..m
    BY <1>3
  <2>2. QED
    BY <1>1, <1>4, <2>1, Zenon DEF Joins
<1>12. FlattenSeq(s \o t) = G[m + n]
  BY <1>3, <1>10, <1>11, FlattenUnique, Zenon
<1>13. G[m + n] = F[m] \o H[n]
  <2>1. m + n \in m..(m + n) /\ (m + n) - m = n
    BY <1>3
  <2>2. QED
    BY <1>8, <2>1, Zenon DEF Rest
<1>14. QED
  BY <1>1, <1>2, <1>12, <1>13, Zenon DEF m, n

\* What respects joining two sequences respects joining any number of them.
Respects(h, S, T) ==
  /\ h \in [Seq(S) -> Seq(T)]
  /\ h[<<>>] = <<>>
  /\ \A a, b \in Seq(S) : h[a \o b] = h[a] \o h[b]

\* Each sequence changed by h.
Each(h, s) == [i \in DOMAIN s |-> h[s[i]]]

\* Joining the images gives the image of what is joined,
FlattenCommutes(h, s) == FlattenSeq(Each(h, s)) = h[FlattenSeq(s)]

\* for a map that respects concatenation.
LEMMA FlattenHomomorphism ==
  ASSUME NEW S, NEW T, NEW h, Respects(h, S, T), NEW s \in Seq(Seq(S))
  PROVE  Each(h, s) \in Seq(Seq(T)) /\ FlattenCommutes(h, s)
<1>0. /\ h \in [Seq(S) -> Seq(T)] /\ h[<<>>] = <<>>
      /\ \A a, b \in Seq(S) : h[a \o b] = h[a] \o h[b]
  BY DEF Respects
<1>1. PICK F : Joins(F, s, S) /\ F[Len(s)] = FlattenSeq(s)
  BY FlattenSteps
<1> DEFINE n == Len(s)
           images == Each(h, s)
           G == [i \in 0..n |-> h[F[i]]]
<1>2. n \in Nat /\ DOMAIN s = 1..n /\ \A i \in 1..n : s[i] \in Seq(S)
  OBVIOUS
<1>3. images \in Seq(Seq(T)) /\ Len(images) = n /\ \A i \in 1..n : images[i] = h[s[i]]
  BY <1>0, <1>2 DEF Each
<1>4. \A i \in 0..n : G[i] = h[F[i]]
  OBVIOUS
<1> HIDE DEF images, G, n
<1>5. \A i \in 1..n : i \in 0..n /\ i - 1 \in 0..n
  BY <1>2
<1>6. ASSUME NEW i \in 1..n
      PROVE  G[i] = G[i - 1] \o images[i]
  <2>1. F[i] = F[i - 1] \o s[i] /\ F[i - 1] \in Seq(S) /\ s[i] \in Seq(S)
    BY <1>1, <1>2, <1>5, Zenon DEF Joins, n
  <2>2. h[F[i]] = h[F[i - 1]] \o h[s[i]]
    BY <1>0, <2>1, Zenon
  <2>3. QED
    BY <1>3, <1>4, <1>5, <2>2, Zenon
<1>7. 0 \in 0..n /\ n \in 0..n
  BY <1>2
<1>8. G[0] = <<>>
  BY <1>0, <1>1, <1>4, <1>7, Zenon DEF Joins
<1>9. FlattenSeq(images) = G[n]
  BY <1>3, <1>6, <1>8, FlattenUnique, Zenon
<1>10. QED
  BY <1>1, <1>3, <1>4, <1>7, <1>9, Zenon DEF images, n, FlattenCommutes

\* Joining twice.
LEMMA FlattenTwice ==
  ASSUME NEW S, NEW s \in Seq(Seq(Seq(S)))
  PROVE  FlattenSeq([i \in DOMAIN s |-> FlattenSeq(s[i])]) = FlattenSeq(FlattenSeq(s))
<1> DEFINE h == [a \in Seq(Seq(S)) |-> FlattenSeq(a)]
           images == Each(h, s)
<1>1. h \in [Seq(Seq(S)) -> Seq(S)] /\ \A a \in Seq(Seq(S)) : h[a] = FlattenSeq(a)
  BY FlattenType
<1>2. <<>> \in Seq(Seq(S)) /\ \A a, b \in Seq(Seq(S)) : a \o b \in Seq(Seq(S))
  OBVIOUS
<1>3. \A i \in DOMAIN s : s[i] \in Seq(Seq(S))
  OBVIOUS
<1>4. FlattenSeq(s) \in Seq(Seq(S))
  BY FlattenType, Zenon
<1> HIDE DEF h
<1>5. h[<<>>] = <<>>
  BY <1>1, <1>2, FlattenEmpty, Zenon
<1>6. \A a, b \in Seq(Seq(S)) : h[a \o b] = h[a] \o h[b]
  <2>1. \A a, b \in Seq(Seq(S)) : FlattenSeq(a \o b) = FlattenSeq(a) \o FlattenSeq(b)
    BY FlattenConcat
  <2>2. TAKE a, b \in Seq(Seq(S))
  <2>3. h[a] = FlattenSeq(a) /\ h[b] = FlattenSeq(b) /\ h[a \o b] = FlattenSeq(a \o b)
    BY <1>1, <1>2, Zenon
  <2>4. FlattenSeq(a \o b) = FlattenSeq(a) \o FlattenSeq(b)
    BY <2>1, Zenon
  <2>5. QED
    BY <2>3, <2>4, Zenon
<1>7. FlattenSeq(images) = h[FlattenSeq(s)]
  <2>1. Respects(h, Seq(S), S)
    BY <1>1, <1>5, <1>6, Zenon DEF Respects
  <2>2. FlattenCommutes(h, s)
    BY <2>1, FlattenHomomorphism, Zenon
  <2>3. QED
    BY <2>2, Zenon DEF FlattenCommutes
<1>8. images = [i \in DOMAIN s |-> FlattenSeq(s[i])]
  BY <1>1, <1>3, Zenon DEF Each
<1>9. QED
  BY <1>1, <1>4, <1>7, <1>8, Zenon

\* Every element changed alike.
MapOf(f, s) == [i \in DOMAIN s |-> f[s[i]]]

\* It respects concatenation,
MapCommutes(f, a, b) == MapOf(f, a \o b) = MapOf(f, a) \o MapOf(f, b)

\* whatever the elements become,
LEMMA MapConcat ==
  ASSUME NEW S, NEW T, NEW f \in [S -> T], NEW a \in Seq(S), NEW b \in Seq(S)
  PROVE  MapOf(f, a) \in Seq(T) /\ MapOf(f, b) \in Seq(T) /\ MapCommutes(f, a, b)
<1> DEFINE x == MapOf(f, a)
           y == MapOf(f, b)
           z == MapOf(f, a \o b)
<1>1. /\ x \in Seq(T) /\ Len(x) = Len(a) /\ \A i \in 1..Len(a) : x[i] = f[a[i]]
      /\ y \in Seq(T) /\ Len(y) = Len(b) /\ \A i \in 1..Len(b) : y[i] = f[b[i]]
  BY DEF MapOf
<1>2. /\ z \in Seq(T) /\ Len(z) = Len(a) + Len(b)
      /\ \A i \in 1..(Len(a) + Len(b)) : z[i] = f[(a \o b)[i]]
  BY DEF MapOf
<1> HIDE DEF x, y, z
<1>3. /\ x \o y \in Seq(T) /\ Len(x \o y) = Len(x) + Len(y)
      /\ \A i \in 1..(Len(x) + Len(y)) :
           (x \o y)[i] = IF i <= Len(x) THEN x[i] ELSE y[i - Len(x)]
  <2>1. x \in Seq(T) /\ y \in Seq(T)
    BY <1>1
  <2>2. QED
    BY <2>1, ConcatProperties
<1>4. \A i \in 1..(Len(a) + Len(b)) : z[i] = (x \o y)[i]
  <2>1. TAKE i \in 1..(Len(a) + Len(b))
  <2>2. (a \o b)[i] = IF i <= Len(a) THEN a[i] ELSE b[i - Len(a)]
    BY ConcatProperties
  <2>3. (x \o y)[i] = IF i <= Len(a) THEN x[i] ELSE y[i - Len(a)]
    BY <1>1, <1>3
  <2>4. i <= Len(a) => i \in 1..Len(a)
    OBVIOUS
  <2>5. ~(i <= Len(a)) => i - Len(a) \in 1..Len(b)
    OBVIOUS
  <2>6. CASE i <= Len(a)
    BY <1>1, <1>2, <2>2, <2>3, <2>4, <2>6, Zenon
  <2>7. CASE ~(i <= Len(a))
    BY <1>1, <1>2, <2>2, <2>3, <2>5, <2>7, Zenon
  <2>8. QED
    BY <2>6, <2>7
<1>5. z = x \o y
  BY <1>1, <1>2, <1>3, <1>4, SeqEqual
<1>6. QED
  BY <1>1, <1>5 DEF x, y, z, MapCommutes

\* and joining.
LEMMA MapFlatten ==
  ASSUME NEW S, NEW T, NEW f \in [S -> T], NEW s \in Seq(Seq(S))
  PROVE  FlattenSeq([i \in DOMAIN s |-> MapOf(f, s[i])]) = MapOf(f, FlattenSeq(s))
<1> DEFINE h == [a \in Seq(S) |-> MapOf(f, a)]
           images == Each(h, s)
<1>1. h \in [Seq(S) -> Seq(T)] /\ \A a \in Seq(S) : h[a] = MapOf(f, a)
  BY MapConcat
<1>2. <<>> \in Seq(S) /\ \A a, b \in Seq(S) : a \o b \in Seq(S)
  OBVIOUS
<1>3. \A i \in DOMAIN s : s[i] \in Seq(S)
  OBVIOUS
<1>4. FlattenSeq(s) \in Seq(S)
  BY FlattenType, Zenon
<1>5. MapOf(f, <<>>) = <<>>
  BY DEF MapOf
<1> HIDE DEF h
<1>6. \A a, b \in Seq(S) : h[a \o b] = h[a] \o h[b]
  <2>2. TAKE a, b \in Seq(S)
  <2>3. h[a] = MapOf(f, a) /\ h[b] = MapOf(f, b) /\ h[a \o b] = MapOf(f, a \o b)
    BY <1>1, <1>2, Zenon
  <2>4. MapOf(f, a \o b) = MapOf(f, a) \o MapOf(f, b)
    <3>1. MapCommutes(f, a, b)
      BY MapConcat, Zenon
    <3>2. QED
      BY <3>1 DEF MapCommutes
  <2>5. QED
    BY <2>3, <2>4, Zenon
<1>7. h[<<>>] = <<>>
  BY <1>1, <1>2, <1>5, Zenon
<1>8. FlattenSeq(images) = h[FlattenSeq(s)]
  <2>1. Respects(h, S, T)
    BY <1>1, <1>6, <1>7, Zenon DEF Respects
  <2>2. FlattenCommutes(h, s)
    BY <2>1, FlattenHomomorphism, Zenon
  <2>3. QED
    BY <2>2, Zenon DEF FlattenCommutes
<1>9. images = [i \in DOMAIN s |-> MapOf(f, s[i])]
  BY <1>1, <1>3, Zenon DEF Each
<1>10. QED
  BY <1>1, <1>4, <1>8, <1>9, Zenon

\* Sequences of one element, joined.
LEMMA FlattenSingletons ==
  ASSUME NEW S, NEW s \in Seq(S)
  PROVE  FlattenSeq([i \in DOMAIN s |-> <<s[i]>>]) = s
<1> DEFINE n == Len(s)
           ones == [i \in DOMAIN s |-> <<s[i]>>]
           G == [i \in 0..n |-> [j \in 1..i |-> s[j]]]
<1>1. n \in Nat /\ DOMAIN s = 1..n
  OBVIOUS
<1>2. ones \in Seq(Seq(S)) /\ Len(ones) = n /\ \A i \in 1..n : ones[i] = <<s[i]>>
  BY <1>1
<1>3. \A i \in 0..n : G[i] = [j \in 1..i |-> s[j]]
  OBVIOUS
<1> HIDE DEF ones, n, G
<1>4. ASSUME NEW i \in 1..n
      PROVE  G[i] = G[i - 1] \o ones[i]
  <2>1. i \in 0..n /\ i - 1 \in 0..n
    BY <1>1
  <2>2. [j \in 1..i |-> s[j]] = [j \in 1..(i - 1) |-> s[j]] \o <<s[i]>>
    <3> DEFINE a == [j \in 1..(i - 1) |-> s[j]]
               b == [j \in 1..i |-> s[j]]
    <3>1. \A j \in 1..i : j \in 1..n /\ s[j] \in S
      BY <1>1 DEF n
    <3>2. a \in Seq(S) /\ b \in Seq(S) /\ Len(a) = i - 1 /\ Len(b) = i /\ <<s[i]>> \in Seq(S)
      BY <1>1, <2>1, <3>1
    <3>3. Len(a \o <<s[i]>>) = i /\ a \o <<s[i]>> \in Seq(S)
      BY <1>1, <3>2
    <3>4. \A j \in 1..i : (a \o <<s[i]>>)[j] = b[j]
      BY <1>1, <3>2
    <3> HIDE DEF a, b
    <3>5. a \o <<s[i]>> = b
      BY <3>2, <3>3, <3>4, SeqEqual
    <3>6. QED
      BY <3>5 DEF a, b
  <2>3. QED
    BY <1>2, <1>3, <2>1, <2>2, Zenon
<1>5. 0 \in 0..n /\ n \in 0..n /\ 1..0 = {}
  BY <1>1
<1>6. G[0] = <<>>
  <2>1. G[0] = [j \in 1..0 |-> s[j]]
    BY <1>3, <1>5, Zenon
  <2>2. [j \in 1..0 |-> s[j]] = <<>>
    OBVIOUS
  <2>3. QED
    BY <2>1, <2>2
<1>7. FlattenSeq(ones) = G[n]
  BY <1>2, <1>4, <1>6, FlattenUnique, Zenon
<1>8. [j \in 1..n |-> s[j]] = s
  BY <1>1 DEF n
<1>9. QED
  BY <1>3, <1>5, <1>7, <1>8, Zenon DEF ones

-----------------------------------------------------------------------------
(* What a script says.                                                     *)

\* What a statement says is a sequence of statements.
LEMMA SaidType ==
  ASSUME NEW k \in Kinds
  PROVE  Said(k) \in Seq(Kinds) /\ Raw(k) \in Kinds /\ Fix(k) \in Kinds /\ Said(Fix(k)) = Said(k)
<1>1. Raw(k) \in Kinds
  BY DEF Raw, Kinds, Ddl, Control
<1>2. Fix(k) = IF k = "typed" THEN "typedFixed" ELSE IF k = "index" THEN "indexAsync" ELSE k
  BY DEF Fix, Fixes
<1>3. Fix(k) \in Kinds
  BY <1>2 DEF Kinds, Ddl, Control
<1>4. Said(k) \in Seq(Kinds)
  BY <1>1 DEF Said
<1>5. Said(Fix(k)) = Said(k)
  BY <1>2 DEF Said, Raw, Control
<1>6. QED
  BY <1>1, <1>3, <1>4, <1>5

\* The same as functions.
SaidOf == [k \in Kinds |-> Said(k)]
SaysOf == [s \in Seq(Kinds) |-> Says(s)]

\* A script says what its statements say, joined.
LEMMA SaysIs ==
  ASSUME NEW s \in Seq(Kinds)
  PROVE  /\ SaidOf \in [Kinds -> Seq(Kinds)]
         /\ MapOf(SaidOf, s) \in Seq(Seq(Kinds))
         /\ Says(s) = FlattenSeq(MapOf(SaidOf, s))
         /\ Says(s) \in Seq(Kinds)
<1>1. SaidOf \in [Kinds -> Seq(Kinds)] /\ \A k \in Kinds : SaidOf[k] = Said(k)
  BY SaidType DEF SaidOf
<1>2. \A i \in DOMAIN s : s[i] \in Kinds
  OBVIOUS
<1>3. MapOf(SaidOf, s) = [i \in DOMAIN s |-> Said(s[i])]
  BY <1>1, <1>2, Zenon DEF MapOf
<1>4. MapOf(SaidOf, s) \in Seq(Seq(Kinds))
  <2>1. MapCommutes(SaidOf, s, s) /\ MapOf(SaidOf, s) \in Seq(Seq(Kinds))
    BY <1>1, MapConcat, Zenon
  <2>2. QED
    BY <2>1
<1>5. QED
  BY <1>1, <1>3, <1>4, FlattenType, Zenon DEF Says

\* Two scripts say what each of them says.
LEMMA SaysConcat ==
  ASSUME NEW a \in Seq(Kinds), NEW b \in Seq(Kinds)
  PROVE  Says(a \o b) = Says(a) \o Says(b)
<1> DEFINE x == MapOf(SaidOf, a)
           y == MapOf(SaidOf, b)
<1>1. x \in Seq(Seq(Kinds)) /\ y \in Seq(Seq(Kinds)) /\ SaidOf \in [Kinds -> Seq(Kinds)]
  BY SaysIs
<1>2. Says(a) = FlattenSeq(x) /\ Says(b) = FlattenSeq(y)
  BY SaysIs
<1>3. a \o b \in Seq(Kinds)
  OBVIOUS
<1>4. Says(a \o b) = FlattenSeq(MapOf(SaidOf, a \o b))
  BY <1>3, SaysIs
<1>5. MapCommutes(SaidOf, a, b)
  BY <1>1, MapConcat, Zenon
<1>6. MapOf(SaidOf, a \o b) = x \o y
  BY <1>5, Zenon DEF MapCommutes
<1> HIDE DEF x, y
<1>7. FlattenSeq(x \o y) = FlattenSeq(x) \o FlattenSeq(y)
  BY <1>1, FlattenConcat
<1>8. QED
  BY <1>2, <1>4, <1>6, <1>7, Zenon

\* An empty script,
LEMMA SaysNothing == Says(<<>>) = <<>>
<1>1. [i \in DOMAIN <<>> |-> Said(<<>>[i])] = <<>>
  OBVIOUS
<1>2. QED
  BY <1>1, FlattenEmpty, Zenon DEF Says

\* and one of a single statement.
LEMMA SaysOne ==
  ASSUME NEW k \in Kinds
  PROVE  Says(<<k>>) = Said(k)
<1>1. [i \in DOMAIN <<k>> |-> Said(<<k>>[i])] = <<Said(k)>>
  OBVIOUS
<1>2. FlattenSeq(<<Said(k)>>) = Said(k)
  BY SaidType, FlattenOne
<1>3. QED
  BY <1>1, <1>2, Zenon DEF Says

\* BEGIN and COMMIT around a script say nothing.
LEMMA SaysWrapped ==
  ASSUME NEW s \in Seq(Kinds)
  PROVE  /\ <<"begin">> \o s \o <<"commit">> \in Seq(Kinds)
         /\ Says(<<"begin">> \o s \o <<"commit">>) = Says(s)
<1>1. "begin" \in Kinds /\ "commit" \in Kinds /\ Said("begin") = <<>> /\ Said("commit") = <<>>
  BY DEF Kinds, Control, Said
<1>2. <<"begin">> \in Seq(Kinds) /\ <<"commit">> \in Seq(Kinds)
  BY <1>1
<1>3. Says(<<"begin">>) = <<>> /\ Says(<<"commit">>) = <<>>
  BY <1>1, SaysOne, Zenon
<1>4. <<"begin">> \o s \in Seq(Kinds) /\ (<<"begin">> \o s) \o <<"commit">> \in Seq(Kinds)
  BY <1>2
<1>5. Says(<<"begin">> \o s) = Says(<<"begin">>) \o Says(s)
  BY <1>2, SaysConcat
<1>6. Says((<<"begin">> \o s) \o <<"commit">>) = Says(<<"begin">> \o s) \o Says(<<"commit">>)
  BY <1>2, <1>4, SaysConcat
<1>7. Says(s) \in Seq(Kinds)
  BY SaysIs
<1>8. <<>> \o Says(s) = Says(s) /\ Says(s) \o <<>> = Says(s)
  BY <1>7, ConcatEmptySeq
<1>9. QED
  BY <1>3, <1>4, <1>5, <1>6, <1>8, Zenon

\* Chunks say together what each of them says.
LEMMA SaysFlatten ==
  ASSUME NEW c \in Seq(Seq(Kinds))
  PROVE  /\ Each(SaysOf, c) \in Seq(Seq(Kinds))
         /\ Says(FlattenSeq(c)) = FlattenSeq(Each(SaysOf, c))
<1>1. SaysOf \in [Seq(Kinds) -> Seq(Kinds)] /\ \A s \in Seq(Kinds) : SaysOf[s] = Says(s)
  BY SaysIs DEF SaysOf
<1>2. <<>> \in Seq(Kinds) /\ \A a, b \in Seq(Kinds) : a \o b \in Seq(Kinds)
  OBVIOUS
<1>3. \A a, b \in Seq(Kinds) : SaysOf[a \o b] = SaysOf[a] \o SaysOf[b]
  <2>1. TAKE a, b \in Seq(Kinds)
  <2>2. SaysOf[a] = Says(a) /\ SaysOf[b] = Says(b) /\ SaysOf[a \o b] = Says(a \o b)
    BY <1>1, <1>2, Zenon
  <2>3. Says(a \o b) = Says(a) \o Says(b)
    BY SaysConcat
  <2>4. QED
    BY <2>2, <2>3, Zenon
<1>4. SaysOf[<<>>] = <<>>
  BY <1>1, <1>2, SaysNothing, Zenon
<1>5. Respects(SaysOf, Kinds, Kinds)
  BY <1>1, <1>3, <1>4, Zenon DEF Respects
<1>6. Each(SaysOf, c) \in Seq(Seq(Kinds)) /\ FlattenCommutes(SaysOf, c)
  BY <1>5, FlattenHomomorphism, Zenon
<1>7. FlattenSeq(c) \in Seq(Kinds)
  BY FlattenType, Zenon
<1>8. QED
  BY <1>1, <1>6, <1>7, Zenon DEF FlattenCommutes

-----------------------------------------------------------------------------
(* dsql-lint --fix.                                                        *)

\* The statements that the linter takes out of their block.
SplitIn(release, s) ==
  {i \in DOMAIN s : release # "cannot" /\ s[i] \notin Unsplit /\ NeedsSplit(s, i)}

\* What becomes of the statements, one by one.
Pieces(release, s) == [i \in DOMAIN s |-> Rewritten(s, i, SplitIn(release, s))]

\* The fixed script is made of these pieces.
LEMMA FixedSqlIs ==
  ASSUME NEW release, NEW s
  PROVE  FixedSql(release, s) = FlattenSeq(Pieces(release, s))
BY DEF FixedSql, Pieces, SplitIn

\* The linter puts in nothing but fixes and brackets.
LEMMA FixedSqlKinds ==
  ASSUME NEW K, {"begin", "commit"} \subseteq K, NEW release, NEW s \in Seq(Kinds),
         \A i \in DOMAIN s : s[i] = "note" \/ Fix(s[i]) \in K
  PROVE  Pieces(release, s) \in Seq(Seq(K)) /\ FixedSql(release, s) \in Seq(K)
<1>1. \A i \in DOMAIN s : Rewritten(s, i, SplitIn(release, s)) \in Seq(K)
  BY DEF Rewritten
<1>2. Pieces(release, s) \in Seq(Seq(K))
  BY <1>1 DEF Pieces
<1>3. QED
  BY <1>2, FlattenType, FixedSqlIs, Zenon

\* It is a script.
LEMMA FixedSqlType ==
  ASSUME NEW release, NEW s \in Seq(Kinds)
  PROVE  Pieces(release, s) \in Seq(Seq(Kinds)) /\ FixedSql(release, s) \in Seq(Kinds)
<1>1. {"begin", "commit"} \subseteq Kinds /\ \A i \in DOMAIN s : Fix(s[i]) \in Kinds
  BY SaidType DEF Kinds, Control
<1>2. QED
  BY <1>1, FixedSqlKinds

\* Each piece says what its statement says.
LEMMA PieceSays ==
  ASSUME NEW s \in Seq(Kinds), NEW i \in DOMAIN s, NEW split
  PROVE  Says(Rewritten(s, i, split)) = Said(s[i])
<1>1. s[i] \in Kinds /\ Fix(s[i]) \in Kinds /\ Said(Fix(s[i])) = Said(s[i])
  BY SaidType
<1>2. CASE s[i] = "note"
  BY <1>2, SaysNothing DEF Rewritten, Said
<1>3. CASE s[i] # "note" /\ i \in split /\ s[i] \in Control
  BY <1>3, SaysNothing DEF Rewritten, Said
<1>4. CASE s[i] # "note" /\ i \in split /\ s[i] \notin Control
  <2>1. Rewritten(s, i, split) = <<"begin">> \o <<Fix(s[i])>> \o <<"commit">>
    BY <1>4 DEF Rewritten
  <2>2. <<Fix(s[i])>> \in Seq(Kinds)
    BY <1>1
  <2>3. Says(<<"begin">> \o <<Fix(s[i])>> \o <<"commit">>) = Says(<<Fix(s[i])>>)
    BY <2>2, SaysWrapped
  <2>4. QED
    BY <1>1, <2>1, <2>3, SaysOne, Zenon
<1>5. CASE s[i] # "note" /\ i \notin split
  <2>1. Rewritten(s, i, split) = <<Fix(s[i])>>
    BY <1>5 DEF Rewritten
  <2>2. QED
    BY <1>1, <2>1, SaysOne
<1>6. QED
  BY <1>2, <1>3, <1>4, <1>5

\* What the linter returns says what it was given.
LEMMA FixedSqlSays ==
  ASSUME NEW release, NEW s \in Seq(Kinds)
  PROVE  Says(FixedSql(release, s)) = Says(s)
<1> DEFINE pieces == Pieces(release, s)
<1>1. pieces \in Seq(Seq(Kinds)) /\ DOMAIN pieces = DOMAIN s
  BY FixedSqlType DEF Pieces
<1>2. \A i \in DOMAIN s : pieces[i] \in Seq(Kinds) /\ Says(pieces[i]) = Said(s[i])
  <2>1. \A i \in DOMAIN s : pieces[i] \in Seq(Kinds)
    BY <1>1
  <2>2. QED
    BY <2>1, PieceSays DEF Pieces
<1> HIDE DEF pieces
<1>3. Each(SaysOf, pieces) = [i \in DOMAIN s |-> Said(s[i])]
  <2>1. \A i \in DOMAIN s : SaysOf[pieces[i]] = Said(s[i])
    BY <1>2, Zenon DEF SaysOf
  <2>2. QED
    BY <1>1, <2>1, Zenon DEF Each
<1>4. Says(FlattenSeq(pieces)) = FlattenSeq(Each(SaysOf, pieces))
  BY <1>1, SaysFlatten, Zenon
<1>5. QED
  BY <1>3, <1>4, FixedSqlIs, Zenon DEF Says, pieces

\* Nothing is left to do in a script of these.
Ready == Kinds \ Unready

\* A line number is a number.
LEMMA LineIsNat ==
  ASSUME NEW s, NEW i \in Nat
  PROVE  Line(s, i) \in Nat
<1>1. IsFiniteSet(1..i)
  BY FS_Interval
<1>2. {j \in 1..i : s[j] # "begin"} \in SUBSET (1..i)
  OBVIOUS
<1>3. IsFiniteSet({j \in 1..i : s[j] # "begin"})
  BY <1>1, <1>2, FS_Subset
<1>4. QED
  BY <1>3, FS_CardinalityType DEF Line

\* Diagnostics by the statement, or the block, they are of.
AnyDiagnostic ==
  [rule : Kinds \cup {SplitRule(r) : r \in Releases}, line : Nat,
   status : {"fixed", "fixed_with_warning", "unfixable"}]

\* The two kinds of findings.
OfStatement(s, i) == [rule |-> s[i], line |-> Line(s, i), status |-> Status(s[i])]

OfBlock(release, s, i) ==
  [rule |-> SplitRule(release), line |-> Line(s, i),
   status |-> IF release = "cannot" THEN "unfixable" ELSE "fixed_with_warning"]

\* There are no others.
LEMMA DiagnosticsAre ==
  ASSUME NEW release, NEW s
  PROVE  \A d : d \in Diagnostics(release, s) <=>
           \/ \E i \in DOMAIN s : s[i] \in Unready /\ d = OfStatement(s, i)
           \/ \E i \in DOMAIN s : s[i] = "begin" /\ NeedsSplit(s, i) /\ d = OfBlock(release, s, i)
BY DEF Diagnostics, OfStatement, OfBlock

\* What a diagnostic is made of.
LEMMA DiagnosticsType ==
  ASSUME NEW release \in Releases, NEW s \in Seq(Kinds)
  PROVE  Diagnostics(release, s) \subseteq AnyDiagnostic
<1>1. \A i \in DOMAIN s : Line(s, i) \in Nat /\ s[i] \in Kinds
  BY LineIsNat
<1>2. \A i \in DOMAIN s : s[i] \in Unready => OfStatement(s, i) \in AnyDiagnostic
  BY <1>1 DEF OfStatement, AnyDiagnostic, Status, Unready
<1>3. \A i \in DOMAIN s : OfBlock(release, s, i) \in AnyDiagnostic
  BY <1>1 DEF OfBlock, AnyDiagnostic
<1>4. QED
  BY <1>2, <1>3, DiagnosticsAre

\* What a diagnostic is printed with.
Labels == {"ERROR", "WARNING", "FIXED", "INFO", "SKIPPED"}

\* Every status has one of these labels.
LEMMA ReportType ==
  ASSUME NEW diags
  PROVE  Report(diags) \subseteq Labels
BY DEF Report, Severity, Labels

\* What a run of the linter may be.
LEMMA Runs ==
  ASSUME NEW install, NEW release, NEW s, NEW fix \in BOOLEAN, NEW mayFail \in BOOLEAN,
         NEW r \in RunDsqlLintWithStdin(install, release, s, fix, mayFail)
  PROVE  \/ r = (IF fix THEN FixRun(release, s) ELSE LintRun(release, s)) /\ ~r.odd
         \/ r \in OddRuns(s) /\ r.odd /\ mayFail
         \/ r = Threw /\ r.odd /\ (FindDsqlLint(install) => mayFail)
<1>1. ~FixRun(release, s).odd /\ ~LintRun(release, s).odd /\ Threw.odd
  BY DEF FixRun, LintRun, Result, Threw
<1>2. \A x \in OddRuns(s) : x.odd
  BY DEF OddRuns, Result
<1>3. QED
  BY <1>1, <1>2 DEF RunDsqlLintWithStdin

\* An odd run changed nothing of the script.
LEMMA OddRunsAre ==
  ASSUME NEW s, NEW r \in OddRuns(s)
  PROVE  /\ r.threw = FALSE /\ r.odd = TRUE /\ r.diags = {} /\ r.exit \in {1, 2, Odd}
         /\ \/ r.fixed = FALSE /\ r.sql = <<>>
            \/ r.fixed = TRUE /\ r.sql = s /\ r.exit # 1
<1>1. PICK x \in {Result(c, FALSE, <<>>, {}) : c \in {1, 2}}
                 \cup {Result(c, TRUE, s, {}) : c \in {2, Odd}} :
        r = [x EXCEPT !.odd = TRUE]
  BY DEF OddRuns
<1>2. CASE x \in {Result(c, FALSE, <<>>, {}) : c \in {1, 2}}
  <2>1. PICK c \in {1, 2} : x = Result(c, FALSE, <<>>, {})
    BY <1>2
  <2>2. QED
    BY <1>1, <2>1 DEF Result
<1>3. CASE x \in {Result(c, TRUE, s, {}) : c \in {2, Odd}}
  <2>1. PICK c \in {2, Odd} : x = Result(c, TRUE, s, {})
    BY <1>3
  <2>2. QED
    BY <1>1, <2>1 DEF Result, Odd
<1>4. QED
  BY <1>1, <1>2, <1>3

\* A run that goes as it should.
LEMMA FixRunIs ==
  ASSUME NEW release, NEW s
  PROVE  /\ FixRun(release, s).threw = FALSE /\ FixRun(release, s).odd = FALSE
         /\ FixRun(release, s).fixed = TRUE
         /\ FixRun(release, s).sql = FixedSql(release, s)
         /\ FixRun(release, s).diags = Diagnostics(release, s)
         /\ FixRun(release, s).exit = FixExit(Diagnostics(release, s))
BY DEF FixRun, Result

\* Exit codes of a run that goes as it should.
LEMMA FixExitIs ==
  ASSUME NEW diags
  PROVE  /\ FixExit(diags) \in {0, 1, 3}
         /\ FixExit(diags) \in {0, 3} <=> "unfixable" \notin Statuses(diags)
BY DEF FixExit

\* After 0 and 3 nothing is left to fix.
LEMMA FixedIsReady ==
  ASSUME NEW release, NEW s \in Seq(Kinds), FixExit(Diagnostics(release, s)) \in {0, 3}
  PROVE  FixedSql(release, s) \in Seq(Ready)
<1>1. \A i \in DOMAIN s : s[i] # "array"
  <2>1. SUFFICES ASSUME NEW i \in DOMAIN s, s[i] = "array" PROVE FALSE
    OBVIOUS
  <2>2. OfStatement(s, i) \in Diagnostics(release, s)
    BY <2>1, DiagnosticsAre DEF Unready
  <2>3. OfStatement(s, i).status = "unfixable"
    BY <2>1 DEF OfStatement, Status
  <2>4. "unfixable" \in Statuses(Diagnostics(release, s))
    BY <2>2, <2>3 DEF Statuses
  <2>5. QED
    BY <2>4, FixExitIs
<1>2. \A k \in Kinds : k # "array" => Fix(k) \in Ready
  BY DEF Fix, Fixes, Ready, Unready, Kinds, Ddl, Control
<1>3. {"begin", "commit"} \subseteq Ready
  BY DEF Ready, Unready, Kinds, Control
<1>4. \A i \in DOMAIN s : Fix(s[i]) \in Ready
  BY <1>1, <1>2
<1>5. QED
  BY <1>3, <1>4, FixedSqlKinds

\* An index is made asynchronous with a warning only.
LEMMA AsyncIsWarnedOf ==
  ASSUME NEW release, NEW s \in Seq(Kinds), \A i \in DOMAIN s : s[i] # "indexAsync",
         "WARNING" \notin Report(Diagnostics(release, s))
  PROVE  FixedSql(release, s) \in Seq(Kinds \ {"indexAsync"})
<1>1. \A i \in DOMAIN s : s[i] # "index"
  <2>1. SUFFICES ASSUME NEW i \in DOMAIN s, s[i] = "index" PROVE FALSE
    OBVIOUS
  <2>2. OfStatement(s, i) \in Diagnostics(release, s)
    BY <2>1, DiagnosticsAre DEF Unready
  <2>3. OfStatement(s, i).status = "fixed_with_warning"
    BY <2>1 DEF OfStatement, Status
  <2>4. "fixed_with_warning" \in Statuses(Diagnostics(release, s))
    BY <2>2, <2>3 DEF Statuses
  <2>5. Severity("fixed_with_warning") = "WARNING"
    BY DEF Severity
  <2>6. QED
    BY <2>4, <2>5 DEF Report
<1>2. \A k \in Kinds : k \notin {"index", "indexAsync"} => Fix(k) \in Kinds \ {"indexAsync"}
  BY DEF Fix, Fixes, Kinds, Ddl, Control
<1>3. {"begin", "commit"} \subseteq Kinds \ {"indexAsync"}
  BY DEF Kinds, Control
<1>4. \A i \in DOMAIN s : Fix(s[i]) \in Kinds \ {"indexAsync"}
  BY <1>1, <1>2
<1>5. QED
  BY <1>3, <1>4, FixedSqlKinds

-----------------------------------------------------------------------------
(* Where the statements of a fixed script come from.                       *)

\* What is neither a bracket nor a comment.
Stmts == Kinds \ (Control \cup {"note"})

\* The piece of k closes a transaction: a commit that stays, or a statement that
\* is split off.
Closes(s, X, k) == (s[k] = "commit" /\ k \notin X) \/ (s[k] \in Stmts /\ k \in X)

\* m takes each position of g to the position of s, among the first n, whose
\* piece it is in; X are the positions the linter splits.
Origins(s, X, n, g, m) ==
  /\ m \in [1..Len(g) -> 1..n]
  /\ \A p, q \in 1..Len(g) : p < q => m[p] <= m[q]
  /\ \A p \in 1..Len(g) : g[p] \in Stmts => s[m[p]] \in Stmts /\ g[p] = Fix(s[m[p]])
  /\ \A p, q \in 1..Len(g) : g[p] \in Stmts /\ g[q] \in Stmts /\ m[p] = m[q] => p = q
  /\ \A p \in 1..Len(g) : g[p] \in Stmts /\ m[p] \in X =>
       p + 1 <= Len(g) /\ g[p + 1] = "commit" /\ m[p + 1] = m[p]
  /\ \A k \in 1..n : Closes(s, X, k) => \E p \in 1..Len(g) : m[p] = k /\ g[p] = "commit"

\* What a piece is made of.
PieceOf(s, k, X, e) ==
  /\ \A p \in 1..Len(e) : e[p] \in Stmts => s[k] \in Stmts /\ e[p] = Fix(s[k])
  /\ \A p, q \in 1..Len(e) : e[p] \in Stmts /\ e[q] \in Stmts => p = q
  /\ k \in X => \A p \in 1..Len(e) : e[p] \in Stmts => p + 1 <= Len(e) /\ e[p + 1] = "commit"
  /\ Closes(s, X, k) => \E p \in 1..Len(e) : e[p] = "commit"

\* The cases of Rewritten.
LEMMA PieceIs ==
  ASSUME NEW s \in Seq(Kinds), NEW k \in DOMAIN s, NEW X, NEW e, e = Rewritten(s, k, X)
  PROVE  e \in Seq(Kinds) /\ PieceOf(s, k, X, e)
<1>1. s[k] \in Kinds /\ Fix(s[k]) \in Kinds
  BY SaidType
<1>2. CASE s[k] = "note" \/ (k \in X /\ s[k] \in Control)
  <2>1. e = <<>>
    BY <1>2 DEF Rewritten, Control
  <2>2. ~Closes(s, X, k)
    BY <1>2 DEF Closes, Stmts, Control
  <2>3. QED
    BY <2>1, <2>2 DEF PieceOf
<1>3. CASE s[k] # "note" /\ k \in X /\ s[k] \notin Control
  <2>1. e = <<"begin", Fix(s[k]), "commit">>
    BY <1>3 DEF Rewritten
  <2>2. s[k] \in Stmts
    BY <1>1, <1>3 DEF Stmts
  <2>3. "begin" \notin Stmts /\ "commit" \notin Stmts /\ "begin" \in Kinds /\ "commit" \in Kinds
    BY DEF Stmts, Kinds, Control
  <2>4. Len(e) = 3 /\ e[1] = "begin" /\ e[2] = Fix(s[k]) /\ e[3] = "commit"
    BY <2>1
  <2>5. e \in Seq(Kinds)
    BY <1>1, <2>1, <2>3
  <2>6. \A p \in 1..Len(e) : p = 1 \/ p = 2 \/ p = 3
    BY <2>4
  <2>7. \A p \in 1..Len(e) : e[p] \in Stmts => p = 2
    BY <2>3, <2>4, <2>6
  <2>8. QED
    BY <1>3, <2>2, <2>4, <2>5, <2>7 DEF PieceOf
<1>4. CASE s[k] # "note" /\ k \notin X
  <2>1. e = <<Fix(s[k])>>
    BY <1>4 DEF Rewritten
  <2>2. Len(e) = 1 /\ e[1] = Fix(s[k]) /\ e \in Seq(Kinds)
    BY <1>1, <2>1
  <2>3. Fix(s[k]) \in Stmts => s[k] \in Stmts
    BY <1>1, <1>4 DEF Stmts, Fix, Fixes, Control
  <2>4. s[k] = "commit" => Fix(s[k]) = "commit"
    BY DEF Fix, Fixes
  <2>5. \A p \in 1..Len(e) : p = 1
    BY <2>2
  <2>6. 1 \in 1..Len(e)
    BY <2>2
  <2>7. QED
    BY <1>4, <2>2, <2>3, <2>4, <2>5, <2>6 DEF PieceOf, Closes
<1>5. QED
  BY <1>2, <1>3, <1>4

\* One more piece.
LEMMA OneMorePiece ==
  ASSUME NEW s \in Seq(Kinds), NEW X, NEW n \in Nat, NEW g \in Seq(Kinds), NEW m, Origins(s, X, n, g, m),
         NEW e \in Seq(Kinds), NEW h \in Seq(Kinds), NEW k, k = n + 1,
         h = g \o e, PieceOf(s, k, X, e)
  PROVE  \E w : Origins(s, X, k, h, w)
<1> DEFINE w == [p \in 1..Len(h) |-> IF p <= Len(g) THEN m[p] ELSE k]
<1>0. /\ Len(g) \in Nat /\ Len(e) \in Nat /\ Len(h) \in Nat /\ k \in Nat
      /\ Len(h) = Len(g) + Len(e)
      /\ \A p \in 1..Len(h) : h[p] = IF p <= Len(g) THEN g[p] ELSE e[p - Len(g)]
  OBVIOUS
<1>1. \A p \in 1..Len(g) : p \in 1..Len(h) /\ h[p] = g[p] /\ w[p] = m[p]
  BY <1>0
<1>2. \A p \in 1..Len(e) : /\ p + Len(g) \in 1..Len(h) /\ h[p + Len(g)] = e[p] /\ w[p + Len(g)] = k
                           /\ p + Len(g) > Len(g)
  BY <1>0
<1>3. \A p \in 1..Len(h) : p \in 1..Len(g) \/ \E q \in 1..Len(e) : p = q + Len(g)
  <2>1. SUFFICES ASSUME NEW p \in 1..Len(h), p \notin 1..Len(g) PROVE \E q \in 1..Len(e) : p = q + Len(g)
    OBVIOUS
  <2>2. p - Len(g) \in 1..Len(e) /\ p = (p - Len(g)) + Len(g)
    BY <1>0, <2>1
  <2>3. QED
    BY <2>2
<1>4. \A p \in 1..Len(g) : m[p] \in 1..n
  BY DEF Origins
<1> HIDE DEF w
<1>5. w \in [1..Len(h) -> 1..k]
  <2>1. w = [p \in 1..Len(h) |-> IF p <= Len(g) THEN m[p] ELSE k]
    BY DEF w
  <2>2. \A p \in 1..Len(h) : (IF p <= Len(g) THEN m[p] ELSE k) \in 1..k
    BY <1>0, <1>4
  <2>3. QED
    BY <2>1, <2>2
<1>6. ASSUME NEW p \in 1..Len(h), NEW q \in 1..Len(h), p < q
      PROVE  w[p] <= w[q]
  <2>1. CASE q \in 1..Len(g)
    <3>1. p \in 1..Len(g)
      BY <1>0, <1>6, <2>1
    <3>2. QED
      BY <1>1, <1>6, <2>1, <3>1 DEF Origins
  <2>2. CASE q \notin 1..Len(g)
    <3>1. w[q] = k
      BY <1>2, <1>3, <2>2
    <3>2. w[p] \in 1..k
      BY <1>5
    <3>3. QED
      BY <1>0, <3>1, <3>2
  <2>3. QED
    BY <2>1, <2>2
<1>7. ASSUME NEW p \in 1..Len(h), h[p] \in Stmts
      PROVE  s[w[p]] \in Stmts /\ h[p] = Fix(s[w[p]])
  <2>1. CASE p \in 1..Len(g)
    BY <1>1, <1>7, <2>1 DEF Origins
  <2>2. CASE \E q \in 1..Len(e) : p = q + Len(g)
    <3>1. PICK q \in 1..Len(e) : p = q + Len(g)
      BY <2>2
    <3>2. e[q] \in Stmts /\ w[p] = k /\ h[p] = e[q]
      BY <1>2, <1>7, <3>1
    <3>3. QED
      BY <3>2 DEF PieceOf
  <2>3. QED
    BY <1>3, <2>1, <2>2
<1>8. ASSUME NEW p \in 1..Len(h), NEW q \in 1..Len(h), h[p] \in Stmts, h[q] \in Stmts, w[p] = w[q]
      PROVE  p = q
  <2>1. CASE p \in 1..Len(g) /\ q \in 1..Len(g)
    BY <1>1, <1>8, <2>1 DEF Origins
  <2>2. CASE (\E a \in 1..Len(e) : p = a + Len(g)) /\ (\E b \in 1..Len(e) : q = b + Len(g))
    <3>1. PICK a \in 1..Len(e), b \in 1..Len(e) : p = a + Len(g) /\ q = b + Len(g)
      BY <2>2
    <3>2. e[a] \in Stmts /\ e[b] \in Stmts
      BY <1>2, <1>8, <3>1
    <3>3. a = b
      BY <3>2 DEF PieceOf
    <3>4. QED
      BY <3>1, <3>3
  <2>3. CASE p \in 1..Len(g) /\ (\E b \in 1..Len(e) : q = b + Len(g))
    <3>1. w[p] \in 1..n /\ w[q] = k
      BY <1>1, <1>2, <1>4, <2>3
    <3>2. QED
      BY <1>8, <3>1
  <2>4. CASE q \in 1..Len(g) /\ (\E b \in 1..Len(e) : p = b + Len(g))
    <3>1. w[q] \in 1..n /\ w[p] = k
      BY <1>1, <1>2, <1>4, <2>4
    <3>2. QED
      BY <1>8, <3>1
  <2>5. QED
    BY <1>3, <2>1, <2>2, <2>3, <2>4
<1>9. ASSUME NEW p \in 1..Len(h), h[p] \in Stmts, w[p] \in X
      PROVE  p + 1 <= Len(h) /\ h[p + 1] = "commit" /\ w[p + 1] = w[p]
  <2>1. CASE p \in 1..Len(g)
    <3>1. p + 1 <= Len(g) /\ g[p + 1] = "commit" /\ m[p + 1] = m[p]
      BY <1>1, <1>9, <2>1 DEF Origins
    <3>2. p + 1 \in 1..Len(g)
      BY <1>0, <2>1, <3>1
    <3>3. QED
      BY <1>0, <1>1, <2>1, <3>1, <3>2
  <2>2. ASSUME NEW a \in 1..Len(e), p = a + Len(g)
        PROVE  p + 1 <= Len(h) /\ h[p + 1] = "commit" /\ w[p + 1] = w[p]
    <3>1. e[a] \in Stmts /\ k \in X /\ w[p] = k
      BY <1>2, <1>9, <2>2
    <3>2. a + 1 <= Len(e) /\ e[a + 1] = "commit"
      BY <3>1 DEF PieceOf
    <3>3. a + 1 \in 1..Len(e) /\ p + 1 = (a + 1) + Len(g)
      BY <1>0, <2>2, <3>2
    <3>4. QED
      BY <1>0, <1>2, <3>1, <3>2, <3>3
  <2>3. QED
    BY <1>3, <2>1, <2>2
<1>10. ASSUME NEW j \in 1..k, Closes(s, X, j)
       PROVE  \E p \in 1..Len(h) : w[p] = j /\ h[p] = "commit"
  <2>1. CASE j = k
    <3>1. PICK p \in 1..Len(e) : e[p] = "commit"
      BY <1>10, <2>1 DEF PieceOf
    <3>2. p + Len(g) \in 1..Len(h) /\ w[p + Len(g)] = j /\ h[p + Len(g)] = "commit"
      BY <1>2, <2>1, <3>1
    <3>3. QED
      BY <3>2
  <2>2. CASE j # k
    <3>1. j \in 1..n
      BY <1>0, <2>2
    <3>2. PICK p \in 1..Len(g) : m[p] = j /\ g[p] = "commit"
      BY <1>10, <3>1 DEF Origins
    <3>3. QED
      BY <1>1, <3>2
  <2>3. QED
    BY <2>1, <2>2
<1>11. Origins(s, X, k, h, w)
  BY <1>5, <1>6, <1>7, <1>8, <1>9, <1>10 DEF Origins
<1>12. QED
  BY <1>11

\* All the pieces.
LEMMA FixedSqlOrigins ==
  ASSUME NEW s \in Seq(Kinds), NEW r
  PROVE  \E m : Origins(s, SplitIn(r, s), Len(s), FixedSql(r, s), m)
<1> DEFINE X == SplitIn(r, s)
           e == Pieces(r, s)
<1>1. e \in Seq(Seq(Kinds)) /\ Len(e) = Len(s) /\ Len(s) \in Nat
  BY FixedSqlType DEF Pieces
<1>2. \A k \in 1..Len(s) : e[k] = Rewritten(s, k, X)
  BY DEF Pieces
<1>3. FixedSql(r, s) = FlattenSeq(e)
  BY FixedSqlIs
<1> HIDE DEF X, e
<1>4. PICK F : Joins(F, e, Kinds) /\ F[Len(e)] = FlattenSeq(e)
  BY <1>1, FlattenSteps
<1>5. \A n \in 0..Len(s) : F[n] \in Seq(Kinds)
  BY <1>1, <1>4 DEF Joins
<1>6. F[0] = <<>> /\ \A n \in 1..Len(s) : F[n] = F[n - 1] \o e[n]
  BY <1>1, <1>4 DEF Joins
<1> DEFINE Bad == {n \in 0..Len(s) : ~ \E m : Origins(s, X, n, F[n], m)}
<1>7. Bad = {}
  <2>1. SUFFICES ASSUME Bad # {} PROVE FALSE
    OBVIOUS
  <2>2. PICK n \in Bad : \A k \in Nat : k < n => k \notin Bad
    <3>1. Bad \subseteq Nat
      BY <1>1
    <3>2. QED
      BY <2>1, <3>1, MinimalNumber
  <2>3. n \in 0..Len(s) /\ ~ \E m : Origins(s, X, n, F[n], m)
    OBVIOUS
  <2>4. CASE n = 0
    <3> DEFINE m == [p \in 1..0 |-> 0]
    <3>1. Len(<<>>) = 0 /\ m \in [1..0 -> 1..0] /\ 1..0 = {}
      OBVIOUS
    <3>2. Origins(s, X, 0, <<>>, m)
      BY <3>1 DEF Origins
    <3>3. QED
      BY <1>6, <2>3, <2>4, <3>2
  <2>5. CASE n # 0
    <3>1. n - 1 \in Nat /\ n - 1 < n /\ n - 1 \in 0..Len(s) /\ n = (n - 1) + 1 /\ n \in 1..Len(s)
      BY <1>1, <2>3, <2>5
    <3>2. n - 1 \notin Bad
      BY <2>2, <3>1
    <3>3. PICK m : Origins(s, X, n - 1, F[n - 1], m)
      BY <3>1, <3>2
    <3> DEFINE g == F[n - 1]
               h == F[n]
               d == e[n]
    <3>4. g \in Seq(Kinds) /\ h \in Seq(Kinds) /\ d \in Seq(Kinds) /\ h = g \o d
      <4>1. g \in Seq(Kinds) /\ h \in Seq(Kinds)
        BY <1>5, <2>3, <3>1
      <4>2. d \in Seq(Kinds)
        BY <1>1, <3>1
      <4>3. h = g \o d
        BY <1>6, <3>1, Zenon
      <4>4. QED
        BY <4>1, <4>2, <4>3, Zenon
    <3>5. Origins(s, X, n - 1, g, m) /\ d = Rewritten(s, n, X)
      BY <1>2, <3>1, <3>3
    <3>6. ~ \E w : Origins(s, X, n, h, w)
      BY <2>3
    <3> HIDE DEF g, h, d
    <3>8. n \in DOMAIN s
      BY <3>1
    <3>9. PieceOf(s, n, X, d)
      BY <3>5, <3>8, PieceIs, Zenon
    <3>10. \E w : Origins(s, X, n, h, w)
      BY <3>1, <3>4, <3>5, <3>9, OneMorePiece, Zenon
    <3>11. QED
      BY <3>6, <3>10
  <2>6. QED
    BY <2>4, <2>5
<1>8. Len(s) \in 0..Len(s)
  BY <1>1
<1>9. \E m : Origins(s, X, Len(s), F[Len(s)], m)
  BY <1>7, <1>8
<1>10. QED
  BY <1>1, <1>3, <1>4, <1>9 DEF X

-----------------------------------------------------------------------------
(* One DDL statement per transaction.                                      *)

\* What a transaction may hold no two of, one being DDL.
Work == Ddl \cup {"insert"}

\* No transaction does; what is not split off counts or not.
Counted(s, all) == {j \in DOMAIN s : s[j] \notin Unsplit \/ all}

OneDdl(s, all) ==
  \A i \in DOMAIN s : ~TooMuch(s, {j \in DOMAIN s : SameTx(s, i, j) /\ (s[j] \notin Unsplit \/ all)})

\* Two positions are in one transaction when no commit is between them.
LEMMA SameTxMeans ==
  ASSUME NEW s, NEW p \in Nat \ {0}, NEW q \in Nat, p < q
  PROVE  SameTx(s, p, q) <=> \A k \in p..(q - 1) : s[k] # "commit"
<1>1. Ends(s, p) \subseteq Ends(s, q)
  BY DEF Ends
<1>2. \A k : k \in Ends(s, q) /\ k \notin Ends(s, p) <=> k \in p..(q - 1) /\ s[k] = "commit"
  BY DEF Ends
<1>3. QED
  BY <1>1, <1>2 DEF SameTx

\* A fix is work, and DDL, only when the statement was;
LEMMA FixIsWork ==
  ASSUME NEW k \in Kinds
  PROVE  /\ Fix(k) \in Work => k \in Work /\ (Fix(k) \in Ddl => k \in Ddl)
         /\ Fix(k) \in Unsplit <=> k \in Unsplit
BY DEF Fix, Fixes, Work, Ddl, Unsplit, Kinds, Control

\* and work is no bracket.
LEMMA WorkIsStmts == Work \subseteq Stmts /\ "commit" \notin Work
BY DEF Work, Ddl, Stmts, Kinds, Control

\* The statements of one block are split all or none.
LEMMA BlockIsSplitWhole ==
  ASSUME NEW s, NEW i, NEW j, InBlock(s, i), InBlock(s, j), SameTx(s, i, j), NeedsSplit(s, j)
  PROVE  NeedsSplit(s, i)
<1>1. \A l : SameTx(s, i, l) <=> SameTx(s, j, l)
  BY DEF SameTx
<1>2. {l \in DOMAIN s : InBlock(s, l) /\ SameTx(s, i, l)} = {l \in DOMAIN s : InBlock(s, l) /\ SameTx(s, j, l)}
  BY <1>1
<1>3. QED
  BY <1>2 DEF NeedsSplit

\* Two statements of work that are in blocks end up in different transactions:
\* either the first got its own, or the commit between them is still there.
LEMMA SplitSeparates ==
  ASSUME NEW s \in Seq(Kinds), NEW r, r # "cannot",
         \A i \in DOMAIN s : s[i] \in Work => InBlock(s, i),
         NEW g \in Seq(Kinds), NEW m, Origins(s, SplitIn(r, s), Len(s), g, m),
         NEW p \in 1..Len(g), NEW q \in 1..Len(g), p < q,
         g[p] \in Work, g[q] \in Work, g[p] \in Ddl \/ g[q] \in Ddl,
         g[p] \in Unsplit \/ g[q] \in Unsplit => GrantsAlone(s)
  PROVE  ~SameTx(g, p, q)
<1> DEFINE X == SplitIn(r, s)
           a == m[p]
           b == m[q]
<1>0. Len(s) \in Nat /\ Len(g) \in Nat
  OBVIOUS
<1>1. a \in 1..Len(s) /\ b \in 1..Len(s) /\ a <= b /\ a # b
  BY WorkIsStmts DEF Origins
<1>2. /\ g[p] = Fix(s[a]) /\ g[q] = Fix(s[b])
      /\ s[a] \in Stmts /\ s[b] \in Stmts
  BY WorkIsStmts DEF Origins
<1>3. /\ s[a] \in Work /\ s[b] \in Work /\ (s[a] \in Ddl \/ s[b] \in Ddl)
      /\ s[a] \in Unsplit \/ s[b] \in Unsplit => GrantsAlone(s)
  BY <1>2, FixIsWork DEF Stmts
<1>4. InBlock(s, a) /\ InBlock(s, b)
  BY <1>1, <1>3
<1>5. SUFFICES ASSUME SameTx(g, p, q) PROVE FALSE
  OBVIOUS
<1>6. \A k \in p..(q - 1) : g[k] # "commit"
  BY <1>0, <1>5, SameTxMeans
<1>7. CASE a \in X
  <2>1. p + 1 <= Len(g) /\ g[p + 1] = "commit" /\ m[p + 1] = m[p]
    BY <1>7, WorkIsStmts DEF Origins
  <2>2. p + 1 # q
    BY <1>1, <2>1
  <2>3. p + 1 \in p..(q - 1)
    BY <1>0, <2>2
  <2>4. QED
    BY <1>6, <2>1, <2>3
<1>8. CASE a \notin X
  <2>1. ~NeedsSplit(s, a)
    <3>1. CASE s[a] \notin Unsplit
      BY <1>1, <1>8, <3>1 DEF SplitIn
    <3>2. CASE s[a] \in Unsplit
      BY <1>1, <1>3, <3>2 DEF NeedsSplit, ToSplit, TooMuch, GrantsAlone
    <3>3. QED
      BY <3>1, <3>2
  <2>2. ~SameTx(s, a, b)
    <3>1. SUFFICES ASSUME SameTx(s, a, b) PROVE FALSE
      OBVIOUS
    <3>2. CASE s[a] \in Unsplit \/ s[b] \in Unsplit
      <4>1. SameTx(s, b, a) /\ GrantsAlone(s)
        BY <1>3, <3>1, <3>2 DEF SameTx
      <4>2. QED
        BY <1>1, <1>3, <3>1, <3>2, <4>1 DEF GrantsAlone, Work
    <3>3. CASE s[a] \notin Unsplit /\ s[b] \notin Unsplit
      <4> DEFINE P == {j \in DOMAIN s : InBlock(s, j) /\ SameTx(s, a, j)}
      <4>1. a \in P /\ b \in P
        BY <1>1, <1>4, <3>1 DEF SameTx
      <4> HIDE DEF P
      <4>2. ToSplit(s, P)
        <5>1. \E i, j \in {i \in P : s[i] \notin Unsplit} :
                i # j /\ s[i] \in Ddl /\ s[j] \in Ddl \cup {"insert"}
          BY <1>1, <1>3, <3>3, <4>1 DEF Work
        <5>2. QED
          BY <5>1 DEF ToSplit, TooMuch
      <4>3. QED
        BY <1>4, <2>1, <4>2 DEF NeedsSplit, P
    <3>4. QED
      BY <3>2, <3>3
  <2> DEFINE C == {k \in a..(b - 1) : s[k] = "commit"}
  <2>3. C # {} /\ C \subseteq Nat
    <3>1. a \in Nat \ {0} /\ b \in Nat /\ a < b
      BY <1>0, <1>1
    <3> HIDE DEF a, b
    <3>2. ~ \A k \in a..(b - 1) : s[k] # "commit"
      BY <2>2, <3>1, SameTxMeans
    <3>3. QED
      BY <3>1, <3>2
  <2>4. PICK k \in C : \A j \in Nat : j < k => j \notin C
    BY <2>3, MinimalNumber
  <2>5. k \in a..(b - 1) /\ s[k] = "commit" /\ k \in 1..Len(s) /\ a # k
    BY <1>0, <1>1, <1>3, WorkIsStmts
  <2>6. SameTx(s, a, k)
    <3>1. \A j \in a..(k - 1) : s[j] # "commit"
      BY <1>0, <1>1, <2>4, <2>5
    <3>2. QED
      BY <1>0, <1>1, <2>5, <3>1, SameTxMeans
  <2>7. InBlock(s, k)
    <3>1. PICK j \in 1..a : s[j] = "begin" /\ SameTx(s, a, j)
      BY <1>4 DEF InBlock
    <3>2. j \in 1..k /\ SameTx(s, k, j)
      BY <1>0, <1>1, <2>5, <2>6, <3>1 DEF SameTx
    <3>3. QED
      BY <3>1, <3>2 DEF InBlock
  <2>8. k \notin X
    <3>1. ~NeedsSplit(s, k)
      BY <1>4, <2>1, <2>6, <2>7, BlockIsSplitWhole
    <3>2. QED
      BY <3>1 DEF SplitIn
  <2>9. PICK x \in 1..Len(g) : m[x] = k /\ g[x] = "commit"
    BY <2>5, <2>8 DEF Origins, Closes
  <2>10. p < x /\ x < q
    <3>1. \A y, z \in 1..Len(g) : y < z => m[y] <= m[z]
      BY DEF Origins
    <3>2. a < k /\ k < b /\ a \in Nat /\ b \in Nat /\ k \in Nat
      BY <1>0, <1>1, <2>5
    <3>3. x # p /\ x # q
      BY <2>9, <3>2
    <3>4. ~(x < p)
      BY <2>9, <3>1, <3>2
    <3>5. ~(q < x)
      BY <2>9, <3>1, <3>2
    <3>6. QED
      BY <1>0, <3>3, <3>4, <3>5
  <2>11. x \in p..(q - 1)
    BY <1>0, <2>10
  <2>12. QED
    BY <1>6, <2>9, <2>11
<1>9. QED
  BY <1>7, <1>8

\* A script whose work is all in blocks can be sent as one query after the fix.
LEMMA SplitIsOneDdl ==
  ASSUME NEW s \in Seq(Kinds), NEW r, r # "cannot",
         \A i \in DOMAIN s : s[i] \in Work => InBlock(s, i),
         NEW all, all => GrantsAlone(s)
  PROVE  OneDdl(FixedSql(r, s), all)
<1> DEFINE g == FixedSql(r, s)
<1>1. g \in Seq(Kinds)
  BY FixedSqlType
<1>2. PICK m : Origins(s, SplitIn(r, s), Len(s), g, m)
  BY FixedSqlOrigins
<1> HIDE DEF g
<1>3. SUFFICES ASSUME NEW i \in DOMAIN g, NEW p \in DOMAIN g, NEW q \in DOMAIN g, p # q,
                      SameTx(g, i, p), SameTx(g, i, q), g[p] \in Ddl, g[q] \in Work,
                      g[p] \in Unsplit \/ g[q] \in Unsplit => all
               PROVE  FALSE
  BY DEF OneDdl, TooMuch, Work, g
<1>4. SameTx(g, p, q) /\ SameTx(g, q, p) /\ g[p] \in Work
  BY <1>3 DEF SameTx, Work
<1>5. p \in 1..Len(g) /\ q \in 1..Len(g) /\ (p < q \/ q < p)
  BY <1>1, <1>3
<1>6. QED
  BY <1>1, <1>2, <1>3, <1>4, <1>5, SplitSeparates

\* A script that holds no more than one transaction may holds no more after.
LEMMA FewStaysFew ==
  ASSUME NEW s \in Seq(Kinds), NEW r, NEW all, ~TooMuch(s, Counted(s, all))
  PROVE  OneDdl(FixedSql(r, s), all)
<1> DEFINE g == FixedSql(r, s)
<1>1. g \in Seq(Kinds)
  BY FixedSqlType
<1>2. PICK m : Origins(s, SplitIn(r, s), Len(s), g, m)
  BY FixedSqlOrigins
<1> HIDE DEF g
<1>3. SUFFICES ASSUME NEW p \in 1..Len(g), NEW q \in 1..Len(g), p # q, g[p] \in Ddl, g[q] \in Work,
                      g[p] \in Unsplit \/ g[q] \in Unsplit => all
               PROVE  FALSE
  BY <1>1 DEF OneDdl, TooMuch, Work, g
<1>4. g[p] \in Work /\ g[p] \in Stmts /\ g[q] \in Stmts
  BY <1>3, WorkIsStmts DEF Work
<1>5. /\ m[p] \in DOMAIN s /\ m[q] \in DOMAIN s /\ m[p] # m[q]
      /\ g[p] = Fix(s[m[p]]) /\ g[q] = Fix(s[m[q]]) /\ s[m[p]] \in Stmts /\ s[m[q]] \in Stmts
  BY <1>2, <1>3, <1>4 DEF Origins
<1>6. /\ s[m[p]] \in Ddl /\ s[m[q]] \in Work
      /\ s[m[p]] \in Unsplit \/ s[m[q]] \in Unsplit => all
  BY <1>3, <1>4, <1>5, FixIsWork DEF Stmts
<1>7. QED
  BY <1>5, <1>6 DEF TooMuch, Work, Counted

\* What is alone in its transaction stays alone: the commit between it and any
\* other work stays, or goes with a block whose statements get commits instead.
LEMMA GrantsSeparate ==
  ASSUME NEW s \in Seq(Kinds), NEW r, GrantsAlone(s),
         NEW g \in Seq(Kinds), NEW m, Origins(s, SplitIn(r, s), Len(s), g, m),
         NEW p \in 1..Len(g), NEW q \in 1..Len(g), p < q,
         g[p] \in Work, g[q] \in Work, g[p] \in Unsplit \/ g[q] \in Unsplit
  PROVE  ~SameTx(g, p, q)
<1> DEFINE X == SplitIn(r, s)
           a == m[p]
           b == m[q]
<1>0. Len(s) \in Nat /\ Len(g) \in Nat
  OBVIOUS
<1>1. a \in 1..Len(s) /\ b \in 1..Len(s) /\ a < b
  BY <1>0, WorkIsStmts DEF Origins
<1>2. /\ g[p] = Fix(s[a]) /\ g[q] = Fix(s[b])
      /\ s[a] \in Stmts /\ s[b] \in Stmts
  BY WorkIsStmts DEF Origins
<1>3. s[a] \in Work /\ s[b] \in Work /\ (s[a] \in Unsplit \/ s[b] \in Unsplit)
  BY <1>2, FixIsWork DEF Stmts
<1>4. SUFFICES ASSUME SameTx(g, p, q) PROVE FALSE
  OBVIOUS
<1>5. \A k \in p..(q - 1) : g[k] # "commit"
  BY <1>0, <1>4, SameTxMeans
<1>6. a \notin X
  <2>1. SUFFICES ASSUME a \in X PROVE FALSE
    OBVIOUS
  <2>2. p + 1 <= Len(g) /\ g[p + 1] = "commit" /\ m[p + 1] = m[p]
    BY <2>1, WorkIsStmts DEF Origins
  <2>3. p + 1 # q
    BY <1>1, <2>2
  <2>4. p + 1 \in p..(q - 1)
    BY <1>0, <2>3
  <2>5. QED
    BY <1>5, <2>2, <2>4
<1>7. ASSUME NEW k \in 1..Len(s), a < k, k < b, Closes(s, X, k)
      PROVE  FALSE
  <2>1. PICK x \in 1..Len(g) : m[x] = k /\ g[x] = "commit"
    BY <1>7 DEF Origins
  <2>2. \A y, z \in 1..Len(g) : y < z => m[y] <= m[z]
    BY DEF Origins
  <2>3. x # p /\ x # q /\ ~(x < p) /\ ~(q < x)
    BY <1>1, <1>7, <2>1, <2>2
  <2>4. x \in p..(q - 1)
    BY <1>0, <2>3
  <2>5. QED
    BY <1>5, <2>1, <2>4
<1>8. \A i \in DOMAIN s : SameTx(s, a, i) /\ s[i] \in Work /\ s[a] \in Unsplit => i = a
  BY <1>1 DEF GrantsAlone, Work
<1>9. ~SameTx(s, a, b)
  <2>1. SameTx(s, a, b) => SameTx(s, b, a)
    BY DEF SameTx
  <2>2. QED
    BY <1>1, <1>3, <2>1 DEF GrantsAlone, Work
<1> HIDE DEF a, b, X
<1> DEFINE C == {k \in a..(b - 1) : s[k] = "commit"}
<1>10. C # {} /\ C \subseteq Nat
  <2>1. a \in Nat \ {0} /\ b \in Nat
    BY <1>0, <1>1
  <2>2. ~ \A k \in a..(b - 1) : s[k] # "commit"
    BY <1>1, <1>9, <2>1, SameTxMeans
  <2>3. QED
    BY <2>1, <2>2
<1>11. PICK k \in C : \A j \in Nat : j < k => j \notin C
  BY <1>10, MinimalNumber
<1>12. k \in a..(b - 1) /\ s[k] = "commit" /\ k \in 1..Len(s) /\ a < k /\ k < b
  BY <1>0, <1>1, <1>3, WorkIsStmts
<1>13. SameTx(s, a, k)
  <2>1. \A j \in a..(k - 1) : s[j] # "commit"
    BY <1>0, <1>1, <1>11, <1>12
  <2>2. QED
    BY <1>0, <1>1, <1>12, <2>1, SameTxMeans
<1>14. k \in X
  BY <1>7, <1>12 DEF Closes
<1>15. NeedsSplit(s, k) /\ InBlock(s, k) /\ r # "cannot"
  BY <1>14 DEF X, SplitIn, NeedsSplit
<1>16. PICK i \in DOMAIN s : InBlock(s, i) /\ SameTx(s, k, i) /\ s[i] \in Ddl /\ s[i] \notin Unsplit
  BY <1>15 DEF NeedsSplit, ToSplit, TooMuch
<1>17. SameTx(s, a, i) /\ SameTx(s, i, k) /\ SameTx(s, a, k) /\ s[i] \in Work /\ s[i] \in Stmts /\ s[i] # "commit"
  BY <1>13, <1>16, WorkIsStmts DEF SameTx, Work
<1>18. NeedsSplit(s, i) /\ i \in X
  BY <1>15, <1>16, <1>17, BlockIsSplitWhole DEF X, SplitIn
<1>19. s[a] \notin Unsplit
  BY <1>8, <1>16, <1>17
<1>20. ~InBlock(s, a)
  <2>1. ~NeedsSplit(s, a)
    BY <1>1, <1>6, <1>15, <1>19 DEF X, SplitIn
  <2>2. QED
    BY <1>13, <1>15, <2>1, BlockIsSplitWhole
<1>21. a < i
  <2>1. i # a /\ i \in Nat \ {0} /\ a \in Nat
    BY <1>1, <1>16, <1>20
  <2>2. ASSUME i < a PROVE FALSE
    <3>1. PICK l \in 1..i : s[l] = "begin" /\ SameTx(s, i, l)
      BY <1>16 DEF InBlock
    <3>2. l \in 1..a /\ SameTx(s, a, l)
      BY <1>17, <2>1, <2>2, <3>1 DEF SameTx
    <3>3. QED
      BY <1>20, <3>1, <3>2 DEF InBlock
  <2>3. QED
    BY <2>1, <2>2
<1>22. i < k
  <2>1. i # k /\ i \in Nat \ {0} /\ k \in Nat \ {0}
    BY <1>12, <1>17
  <2>2. ASSUME k < i PROVE FALSE
    <3>1. \A l \in k..(i - 1) : s[l] # "commit"
      BY <1>16, <2>1, <2>2, SameTxMeans
    <3>2. k \in k..(i - 1)
      BY <2>1, <2>2
    <3>3. QED
      BY <1>12, <3>1, <3>2
  <2>3. QED
    BY <2>1, <2>2
<1>23. i \in 1..Len(s) /\ i < b
  BY <1>0, <1>1, <1>12, <1>22
<1>24. QED
  BY <1>7, <1>17, <1>18, <1>21, <1>23 DEF Closes

\* In whatever script, and however it is fixed.
LEMMA GrantsStayAlone ==
  ASSUME NEW s \in Seq(Kinds), NEW r, GrantsAlone(s)
  PROVE  GrantsAlone(FixedSql(r, s))
<1> DEFINE g == FixedSql(r, s)
<1>1. g \in Seq(Kinds)
  BY FixedSqlType
<1>2. PICK m : Origins(s, SplitIn(r, s), Len(s), g, m)
  BY FixedSqlOrigins
<1> HIDE DEF g
<1>3. SUFFICES ASSUME NEW p \in DOMAIN g, NEW q \in DOMAIN g, p # q, SameTx(g, p, q),
                      g[p] \in Unsplit, g[q] \in Work
               PROVE  FALSE
  BY DEF GrantsAlone, Work, g
<1>4. SameTx(g, q, p) /\ g[p] \in Work
  BY <1>3 DEF SameTx, Work, Ddl, Unsplit
<1>5. p \in 1..Len(g) /\ q \in 1..Len(g) /\ (p < q \/ q < p)
  BY <1>1, <1>3
<1>6. QED
  BY <1>1, <1>2, <1>3, <1>4, <1>5, GrantsSeparate

-----------------------------------------------------------------------------
(* What a setting holds for.                                               *)

\* What of its transaction is said by position n after i, and whether the
\* transaction goes on.
FollowsUpTo(s, i, n) == [j \in 1..n |-> IF j > i /\ SameTx(s, i, j) THEN Said(s[j]) ELSE <<>>]
GovernedUpTo(s, i, n) == FlattenSeq(FollowsUpTo(s, i, n))
IsOpen(s, i, n) == \A k \in i..n : s[k] # "commit"

\* Their types.
LEMMA FollowsType ==
  ASSUME NEW s \in Seq(Kinds), NEW i, NEW n \in 0..Len(s)
  PROVE  /\ FollowsUpTo(s, i, n) \in Seq(Seq(Kinds)) /\ Len(FollowsUpTo(s, i, n)) = n
         /\ GovernedUpTo(s, i, n) \in Seq(Kinds)
<1>1. n \in Nat
  OBVIOUS
<1>2. \A j \in 1..n : s[j] \in Kinds
  OBVIOUS
<1>3. <<>> \in Seq(Kinds)
  OBVIOUS
<1>4. \A j \in 1..n : (IF j > i /\ SameTx(s, i, j) THEN Said(s[j]) ELSE <<>>) \in Seq(Kinds)
  BY <1>2, <1>3, SaidType
<1>5. FollowsUpTo(s, i, n) \in [1..n -> Seq(Kinds)]
  BY <1>4 DEF FollowsUpTo
<1>6. FollowsUpTo(s, i, n) \in Seq(Seq(Kinds)) /\ Len(FollowsUpTo(s, i, n)) = n
  BY <1>1, <1>5
<1>7. QED
  BY <1>6, FlattenType DEF GovernedUpTo

\* At the end of the script it is all that the setting holds for.
LEMMA GovernedIs ==
  ASSUME NEW s \in Seq(Kinds), NEW i
  PROVE  Governed(s, i) = GovernedUpTo(s, i, Len(s))
<1>1. DOMAIN s = 1..Len(s)
  OBVIOUS
<1>2. QED
  BY <1>1 DEF Governed, GovernedUpTo, FollowsUpTo

\* One statement more.
LEMMA GovernedMore ==
  ASSUME NEW s \in Seq(Kinds), NEW i \in Nat \ {0}, NEW n \in Nat, n + 1 <= Len(s), i <= n
  PROVE  /\ IsOpen(s, i, n) => GovernedUpTo(s, i, n + 1) = GovernedUpTo(s, i, n) \o Said(s[n + 1])
         /\ ~IsOpen(s, i, n) => GovernedUpTo(s, i, n + 1) = GovernedUpTo(s, i, n)
         /\ IsOpen(s, i, n + 1) <=> IsOpen(s, i, n) /\ s[n + 1] # "commit"
         /\ IsOpen(s, i, n) <=> SameTx(s, i, n + 1)
<1>1. n \in 0..Len(s) /\ n + 1 \in 0..Len(s) /\ n + 1 \in DOMAIN s /\ i < n + 1 /\ (n + 1) - 1 = n
  OBVIOUS
<1>2. IsOpen(s, i, n) <=> SameTx(s, i, n + 1)
  BY <1>1, SameTxMeans DEF IsOpen
<1>3. IsOpen(s, i, n + 1) <=> IsOpen(s, i, n) /\ s[n + 1] # "commit"
  <2>1. \A k : k \in i..(n + 1) <=> k \in i..n \/ k = n + 1
    OBVIOUS
  <2>2. QED
    BY <2>1 DEF IsOpen
<1> DEFINE a == FollowsUpTo(s, i, n)
           b == FollowsUpTo(s, i, n + 1)
           c == IF IsOpen(s, i, n) THEN Said(s[n + 1]) ELSE <<>>
<1>4. a \in Seq(Seq(Kinds)) /\ b \in Seq(Seq(Kinds)) /\ c \in Seq(Kinds)
  <2>1. s[n + 1] \in Kinds /\ <<>> \in Seq(Kinds)
    BY <1>1
  <2>2. c \in Seq(Kinds)
    BY <2>1, SaidType
  <2>3. QED
    BY <1>1, <2>2, FollowsType
<1>5. b = a \o <<c>>
  <2>1. Len(a) = n /\ Len(b) = n + 1
    BY <1>1, FollowsType
  <2>2. \A j \in 1..n : b[j] = a[j]
    BY DEF FollowsUpTo
  <2>3. b[n + 1] = c
    BY <1>1, <1>2 DEF FollowsUpTo
  <2> HIDE DEF a, b, c
  <2>4. QED
    <3> DEFINE z == a \o <<c>>
    <3>1. /\ z \in Seq(Seq(Kinds)) /\ Len(z) = n + 1 /\ z[n + 1] = c
          /\ \A j \in 1..n : z[j] = a[j]
      <4> DEFINE d == <<c>>
      <4>1. d \in Seq(Seq(Kinds)) /\ Len(d) = 1 /\ d[1] = c
        BY <1>4
      <4>2. z = a \o d
        BY Zenon
      <4> HIDE DEF d, z
      <4>3. a \o d \in Seq(Seq(Kinds)) /\ Len(a \o d) = Len(a) + Len(d)
              /\ \A j \in 1..(Len(a) + Len(d)) : (a \o d)[j] = IF j <= Len(a) THEN a[j] ELSE d[j - Len(a)]
        BY <1>4, <4>1, ConcatProperties
      <4>4. n + 1 \in 1..(Len(a) + Len(d)) /\ (n + 1) - Len(a) = 1 /\ ~(n + 1 <= Len(a))
        BY <2>1, <4>1
      <4>5. z[n + 1] = d[1]
        BY <4>2, <4>3, <4>4
      <4>6. \A j \in 1..n : j \in 1..(Len(a) + Len(d)) /\ j <= Len(a)
        BY <2>1, <4>1
      <4>7. \A j \in 1..n : z[j] = a[j]
        BY <4>2, <4>3, <4>6
      <4>8. Len(z) = n + 1
        BY <2>1, <4>1, <4>2, <4>3
      <4>9. QED
        BY <4>1, <4>2, <4>3, <4>5, <4>7, <4>8
    <3> HIDE DEF z
    <3>2. \A j \in 1..(n + 1) : b[j] = z[j]
      <4>1. \A j \in 1..(n + 1) : j \in 1..n \/ j = n + 1
        OBVIOUS
      <4>2. QED
        BY <2>2, <2>3, <3>1, <4>1
    <3>3. b = z
      BY <1>4, <2>1, <3>1, <3>2, SeqEqual
    <3>4. QED
      BY <3>3 DEF z
<1>6. FlattenSeq(b) = FlattenSeq(a) \o c
  <2> HIDE DEF a, b, c
  <2>1. <<c>> \in Seq(Seq(Kinds)) /\ FlattenSeq(<<c>>) = c
    BY <1>4, FlattenOne
  <2>2. FlattenSeq(a \o <<c>>) = FlattenSeq(a) \o FlattenSeq(<<c>>)
    BY <1>4, <2>1, FlattenConcat
  <2>3. QED
    BY <1>5, <2>1, <2>2, Zenon
<1>7. ASSUME ~IsOpen(s, i, n)
      PROVE  GovernedUpTo(s, i, n + 1) = GovernedUpTo(s, i, n)
  <2>1. c = <<>>
    BY <1>7
  <2>2. FlattenSeq(a) \in Seq(Kinds)
    BY <1>4, FlattenType
  <2> HIDE DEF a, b, c
  <2>3. FlattenSeq(a) \o <<>> = FlattenSeq(a)
    BY <2>2, ConcatEmptySeq, Zenon
  <2>4. FlattenSeq(b) = FlattenSeq(a)
    BY <1>6, <2>1, <2>3, Zenon
  <2>5. QED
    BY <2>4, Zenon DEF GovernedUpTo, a, b
<1>8. ASSUME IsOpen(s, i, n)
      PROVE  GovernedUpTo(s, i, n + 1) = GovernedUpTo(s, i, n) \o Said(s[n + 1])
  <2>1. c = Said(s[n + 1])
    BY <1>8
  <2>2. QED
    BY <1>6, <2>1, Zenon DEF GovernedUpTo
<1>9. QED
  BY <1>2, <1>3, <1>7, <1>8

\* A script that goes on with e.
GoesOn(g, e, h) ==
  /\ h \in Seq(Kinds) /\ Len(h) = Len(g) + Len(e)
  /\ \A j \in 1..Len(g) : h[j] = g[j]
  /\ \A j \in 1..Len(e) : h[Len(g) + j] = e[j]

\* A concatenation does.
LEMMA ConcatGoesOn ==
  ASSUME NEW g \in Seq(Kinds), NEW e \in Seq(Kinds), NEW h, h = g \o e
  PROVE  GoesOn(g, e, h)
BY DEF GoesOn

\* What comes later changes nothing of it.
LEMMA GovernedPrefix ==
  ASSUME NEW g \in Seq(Kinds), NEW e \in Seq(Kinds), NEW h, GoesOn(g, e, h), NEW i \in Nat \ {0}, i <= Len(g)
  PROVE  /\ GovernedUpTo(h, i, Len(g)) = GovernedUpTo(g, i, Len(g))
         /\ IsOpen(h, i, Len(g)) <=> IsOpen(g, i, Len(g))
         /\ \A j \in 1..Len(g) : SameTx(h, i, j) <=> SameTx(g, i, j)
<1>1. Len(g) \in Nat /\ \A j \in 1..Len(g) : h[j] = g[j]
  BY DEF GoesOn
<1>2. \A j \in 1..Len(g) : Ends(h, j) = Ends(g, j)
  <2>1. TAKE j \in 1..Len(g)
  <2>2. \A k \in 1..(j - 1) : k \in 1..Len(g)
    BY <1>1
  <2>3. QED
    BY <1>1, <2>2 DEF Ends
<1>3. \A j \in 1..Len(g) : SameTx(h, i, j) <=> SameTx(g, i, j)
  <2>1. i \in 1..Len(g)
    BY <1>1
  <2>2. QED
    BY <1>2, <2>1 DEF SameTx
<1>4. IsOpen(h, i, Len(g)) <=> IsOpen(g, i, Len(g))
  <2>1. \A k \in i..Len(g) : k \in 1..Len(g)
    BY <1>1
  <2>2. QED
    BY <1>1, <2>1 DEF IsOpen
<1>5. \A j \in 1..Len(g) : (IF j > i /\ SameTx(h, i, j) THEN Said(h[j]) ELSE <<>>)
                             = (IF j > i /\ SameTx(g, i, j) THEN Said(g[j]) ELSE <<>>)
  BY <1>1, <1>3
<1>6. FollowsUpTo(h, i, Len(g)) = FollowsUpTo(g, i, Len(g))
  BY <1>5 DEF FollowsUpTo
<1>7. GovernedUpTo(h, i, Len(g)) = GovernedUpTo(g, i, Len(g))
  BY <1>6 DEF GovernedUpTo
<1>8. QED
  BY <1>3, <1>4, <1>7

\* Nothing is said of a transaction that has ended (a piece has three
\* statements at the most).
LEMMA GovernedStays ==
  ASSUME NEW s \in Seq(Kinds), NEW i \in Nat \ {0}, NEW n \in Nat, NEW d \in 0..3, n + d <= Len(s), i <= n,
         ~IsOpen(s, i, n)
  PROVE  GovernedUpTo(s, i, n + d) = GovernedUpTo(s, i, n) /\ ~IsOpen(s, i, n + d)
<1>1. Len(s) \in Nat
  OBVIOUS
<1>2. ASSUME n + 1 <= Len(s)
      PROVE  GovernedUpTo(s, i, n + 1) = GovernedUpTo(s, i, n) /\ ~IsOpen(s, i, n + 1)
  BY <1>2, GovernedMore
<1>3. ASSUME n + 2 <= Len(s)
      PROVE  GovernedUpTo(s, i, n + 2) = GovernedUpTo(s, i, n) /\ ~IsOpen(s, i, n + 2)
  <2>1. n + 1 \in Nat /\ (n + 1) + 1 = n + 2 /\ n + 1 <= Len(s) /\ i <= n + 1
    BY <1>1, <1>3
  <2>2. GovernedUpTo(s, i, n + 1) = GovernedUpTo(s, i, n) /\ ~IsOpen(s, i, n + 1)
    BY <1>2, <2>1
  <2>3. GovernedUpTo(s, i, (n + 1) + 1) = GovernedUpTo(s, i, n + 1) /\ ~IsOpen(s, i, (n + 1) + 1)
    BY <1>3, <2>1, <2>2, GovernedMore
  <2>4. QED
    BY <2>1, <2>2, <2>3
<1>4. ASSUME n + 3 <= Len(s)
      PROVE  GovernedUpTo(s, i, n + 3) = GovernedUpTo(s, i, n) /\ ~IsOpen(s, i, n + 3)
  <2>1. n + 2 \in Nat /\ (n + 2) + 1 = n + 3 /\ n + 2 <= Len(s) /\ i <= n + 2
    BY <1>1, <1>4
  <2>2. GovernedUpTo(s, i, n + 2) = GovernedUpTo(s, i, n) /\ ~IsOpen(s, i, n + 2)
    BY <1>3, <2>1
  <2>3. GovernedUpTo(s, i, (n + 2) + 1) = GovernedUpTo(s, i, n + 2) /\ ~IsOpen(s, i, (n + 2) + 1)
    BY <1>4, <2>1, <2>2, GovernedMore
  <2>4. QED
    BY <2>1, <2>2, <2>3
<1>5. d = 0 \/ d = 1 \/ d = 2 \/ d = 3
  OBVIOUS
<1>6. n + 0 = n
  OBVIOUS
<1>7. QED
  BY <1>2, <1>3, <1>4, <1>5, <1>6

-----------------------------------------------------------------------------
\* Position x of the fixed script g stands for the setting at i among the
\* first n statements of s.
Tracks(s, i, n, g, x) ==
  /\ x \in 1..Len(g) /\ g[x] = "setLocal"
  /\ GovernedUpTo(g, x, Len(g)) = GovernedUpTo(s, i, n)
  /\ IsOpen(g, x, Len(g)) <=> IsOpen(s, i, n)
  /\ \A y \in 1..Len(g) : SameTx(g, x, y) => g[y] # "begin"

\* A piece is empty, the statement, or a block that ends.
LEMMA PieceShape ==
  ASSUME NEW s \in Seq(Kinds), NEW k \in DOMAIN s, NEW X, NEW e, e = Rewritten(s, k, X)
  PROVE  /\ e \in Seq(Kinds) /\ Len(e) \in 0..3
         /\ k \notin X /\ s[k] = "note" => e = <<>>
         /\ k \notin X /\ s[k] # "note" => e = <<Fix(s[k])>>
         /\ k \in X => e = <<>> \/ (Len(e) = 3 /\ e[3] = "commit")
<1>1. s[k] \in Kinds /\ Fix(s[k]) \in Kinds
  BY SaidType
<1>2. CASE e = <<>>
  BY <1>1, <1>2 DEF Rewritten
<1>3. CASE s[k] # "note" /\ k \in X /\ s[k] \notin Control
  <2>1. e = <<"begin", Fix(s[k]), "commit">>
    BY <1>3 DEF Rewritten
  <2>2. "begin" \in Kinds /\ "commit" \in Kinds
    BY DEF Kinds, Control
  <2>3. QED
    BY <1>1, <1>3, <2>1, <2>2
<1>4. CASE s[k] # "note" /\ k \notin X
  <2>1. e = <<Fix(s[k])>>
    BY <1>4 DEF Rewritten
  <2>2. QED
    BY <1>1, <1>4, <2>1
<1>5. (s[k] = "note" \/ (k \in X /\ s[k] \in Control)) => e = <<>>
  BY DEF Rewritten, Control
<1>6. (s[k] = "note" \/ (k \in X /\ s[k] \in Control)) \/ (s[k] # "note" /\ k \in X /\ s[k] \notin Control)
        \/ (s[k] # "note" /\ k \notin X)
  OBVIOUS
<1>7. QED
  BY <1>2, <1>3, <1>4, <1>5, <1>6, Zenon

\* A transaction the author did not begin is not split.
LEMMA ImplicitIsWhole ==
  ASSUME NEW s \in Seq(Kinds), NEW r, NEW i \in DOMAIN s, IsImplicit(s, i),
         NEW k \in DOMAIN s, SameTx(s, i, k)
  PROVE  k \notin SplitIn(r, s) /\ s[k] # "begin"
<1>1. \A j \in 1..k : j \in DOMAIN s
  OBVIOUS
<1>2. ~InBlock(s, k)
  BY <1>1 DEF InBlock, IsImplicit, SameTx
<1>3. QED
  BY <1>2 DEF IsImplicit, SplitIn, NeedsSplit

\* A fix says the same, and is a bracket or a setting only of one.
LEMMA FixKeeps ==
  ASSUME NEW k \in Kinds
  PROVE  /\ Said(Fix(k)) = Said(k) /\ Fix(k) \in Kinds
         /\ Fix(k) = "commit" <=> k = "commit"
         /\ Fix(k) = "begin" <=> k = "begin"
         /\ Fix(k) = "setLocal" <=> k = "setLocal"
<1>1. Fix(k) = IF k = "typed" THEN "typedFixed" ELSE IF k = "index" THEN "indexAsync" ELSE k
  BY DEF Fix, Fixes
<1>2. Raw(Fix(k)) = Raw(k)
  BY <1>1 DEF Raw
<1>3. Fix(k) \in Control \cup {"note"} <=> k \in Control \cup {"note"}
  BY <1>1 DEF Control
<1>4. QED
  BY <1>1, <1>2, <1>3 DEF Said, Kinds, Ddl

\* One more statement: while the transaction is open its piece is the statement,
\* and afterwards nothing can open it again.
LEMMA TrackMore ==
  ASSUME NEW s \in Seq(Kinds), NEW r, NEW i \in DOMAIN s, IsImplicit(s, i),
         NEW n \in Nat, i <= n, n + 1 <= Len(s),
         NEW g \in Seq(Kinds), NEW x, Tracks(s, i, n, g, x),
         NEW e, e = Rewritten(s, n + 1, SplitIn(r, s)), NEW h, GoesOn(g, e, h)
  PROVE  Tracks(s, i, n + 1, h, x)
<1> DEFINE k == n + 1
           X == SplitIn(r, s)
<1>1. /\ k \in DOMAIN s /\ k \in Nat /\ i < k /\ i \in Nat \ {0} /\ Len(s) \in Nat /\ s[k] \in Kinds
      /\ Len(g) \in Nat
  OBVIOUS
<1>2. /\ e \in Seq(Kinds) /\ Len(e) \in 0..3
      /\ k \notin X /\ s[k] = "note" => e = <<>>
      /\ k \notin X /\ s[k] # "note" => e = <<Fix(s[k])>>
  <2>1. e = Rewritten(s, k, X)
    OBVIOUS
  <2> HIDE DEF k, X
  <2>2. QED
    BY <1>1, <2>1, PieceShape
<1>3. /\ h \in Seq(Kinds) /\ Len(h) = Len(g) + Len(e) /\ x \in 1..Len(g) /\ x \in 1..Len(h)
      /\ h[x] = "setLocal" /\ x \in Nat \ {0} /\ x <= Len(g)
      /\ \A y \in 1..Len(g) : h[y] = g[y]
      /\ \A q \in 1..Len(e) : h[Len(g) + q] = e[q]
  BY <1>2 DEF Tracks, GoesOn
<1>4. /\ GovernedUpTo(h, x, Len(g)) = GovernedUpTo(s, i, n)
      /\ IsOpen(h, x, Len(g)) <=> IsOpen(s, i, n)
      /\ \A y \in 1..Len(g) : SameTx(h, x, y) => h[y] # "begin"
  <2>1. /\ GovernedUpTo(h, x, Len(g)) = GovernedUpTo(g, x, Len(g))
        /\ IsOpen(h, x, Len(g)) <=> IsOpen(g, x, Len(g))
        /\ \A j \in 1..Len(g) : SameTx(h, x, j) <=> SameTx(g, x, j)
    BY <1>2, <1>3, GovernedPrefix
  <2>2. QED
    BY <1>3, <2>1 DEF Tracks
<1>5. /\ IsOpen(s, i, n) => GovernedUpTo(s, i, k) = GovernedUpTo(s, i, n) \o Said(s[k])
      /\ ~IsOpen(s, i, n) => GovernedUpTo(s, i, k) = GovernedUpTo(s, i, n)
      /\ IsOpen(s, i, k) <=> IsOpen(s, i, n) /\ s[k] # "commit"
      /\ IsOpen(s, i, n) <=> SameTx(s, i, k)
  BY <1>1, GovernedMore
<1>6. GovernedUpTo(s, i, n) \in Seq(Kinds)
  BY <1>1, FollowsType
<1> HIDE DEF k, X
<1>7. CASE IsOpen(s, i, n)
  <2>1. k \notin X /\ s[k] # "begin"
    BY <1>1, <1>5, <1>7, ImplicitIsWhole DEF X
  <2>2. CASE s[k] = "note"
    <3>1. e = <<>> /\ Said(s[k]) = <<>>
      BY <1>2, <2>1, <2>2 DEF Said
    <3>2. GovernedUpTo(s, i, n) \o <<>> = GovernedUpTo(s, i, n)
      BY <1>6, ConcatEmptySeq, Zenon
    <3>3. Len(h) = Len(g)
      BY <1>1, <1>3, <3>1
    <3>4. GovernedUpTo(h, x, Len(h)) = GovernedUpTo(s, i, k)
      BY <1>4, <1>5, <1>7, <3>1, <3>2, <3>3, Zenon
    <3>5. IsOpen(s, i, k)
      BY <1>5, <1>7, <2>2
    <3>6. IsOpen(h, x, Len(h))
      BY <1>4, <1>7, <3>3
    <3>7. \A y \in 1..Len(h) : SameTx(h, x, y) => h[y] # "begin"
      BY <1>4, <3>3
    <3>8. QED
      BY <1>3, <3>4, <3>5, <3>6, <3>7, Zenon DEF Tracks, k
  <2>3. CASE s[k] # "note"
    <3>1. e = <<Fix(s[k])>>
      BY <1>2, <2>1, <2>3
    <3>2. Len(e) = 1 /\ e[1] = Fix(s[k])
      BY <3>1
    <3>3. Len(h) = Len(g) + 1 /\ h[Len(g) + 1] = Fix(s[k])
      <4>1. Len(h) = Len(g) + 1
        BY <1>1, <1>3, <3>2
      <4>2. h[Len(g) + 1] = e[1]
        <5>1. 1 \in 1..Len(e)
          BY <3>2
        <5>2. QED
          BY <1>3, <5>1
      <4>3. QED
        BY <3>2, <4>1, <4>2
    <3>4. IsOpen(h, x, Len(g))
      BY <1>4, <1>7
    <3>5. /\ GovernedUpTo(h, x, Len(g) + 1) = GovernedUpTo(h, x, Len(g)) \o Said(h[Len(g) + 1])
          /\ IsOpen(h, x, Len(g) + 1) <=> h[Len(g) + 1] # "commit"
      <4>1. Len(g) + 1 <= Len(h)
        BY <1>1, <3>3
      <4>2. QED
        <5>1. x \in Nat \ {0} /\ h \in Seq(Kinds) /\ Len(g) \in Nat /\ x <= Len(g)
          BY <1>1, <1>3
        <5>2. IsOpen(h, x, Len(g) + 1) <=> IsOpen(h, x, Len(g)) /\ h[Len(g) + 1] # "commit"
          BY <4>1, <5>1, GovernedMore
        <5>3. IsOpen(h, x, Len(g)) =>
                GovernedUpTo(h, x, Len(g) + 1) = GovernedUpTo(h, x, Len(g)) \o Said(h[Len(g) + 1])
          BY <4>1, <5>1, GovernedMore
        <5>4. QED
          BY <3>4, <5>2, <5>3
    <3>6. /\ Said(Fix(s[k])) = Said(s[k])
          /\ Fix(s[k]) = "commit" <=> s[k] = "commit"
          /\ Fix(s[k]) # "begin"
      BY <1>1, <2>1, FixKeeps
    <3>7. GovernedUpTo(h, x, Len(h)) = GovernedUpTo(s, i, k)
      BY <1>4, <1>5, <1>7, <3>3, <3>5, <3>6, Zenon
    <3>8. IsOpen(h, x, Len(h)) <=> IsOpen(s, i, k)
      BY <1>5, <1>7, <3>3, <3>5, <3>6, Zenon
    <3>9. \A y \in 1..Len(h) : y \in 1..Len(g) \/ y = Len(g) + 1
      BY <1>1, <3>3
    <3>10. \A y \in 1..Len(h) : SameTx(h, x, y) => h[y] # "begin"
      BY <1>4, <3>3, <3>6, <3>9
    <3>11. QED
      BY <1>3, <3>7, <3>8, <3>10, Zenon DEF Tracks, k
  <2>4. QED
    BY <2>2, <2>3
<1>8. CASE ~IsOpen(s, i, n)
  <2>1. ~IsOpen(h, x, Len(g))
    BY <1>4, <1>8
  <2>2. GovernedUpTo(h, x, Len(g) + Len(e)) = GovernedUpTo(h, x, Len(g)) /\ ~IsOpen(h, x, Len(g) + Len(e))
    <3>1. Len(g) + Len(e) <= Len(h)
      BY <1>1, <1>2, <1>3
    <3>2. QED
      <4>1. x \in Nat \ {0} /\ h \in Seq(Kinds) /\ Len(g) \in Nat /\ x <= Len(g) /\ Len(e) \in 0..3
        BY <1>1, <1>2, <1>3
      <4>2. QED
        BY <2>1, <3>1, <4>1, GovernedStays
  <2>3. GovernedUpTo(h, x, Len(h)) = GovernedUpTo(s, i, k)
    BY <1>3, <1>4, <1>5, <1>8, <2>2, Zenon
  <2>4. ~IsOpen(h, x, Len(h)) /\ ~IsOpen(s, i, k)
    BY <1>3, <1>5, <1>8, <2>2, Zenon
  <2>5. PICK c \in x..Len(g) : h[c] = "commit"
    BY <2>1 DEF IsOpen
  <2>6. ASSUME NEW y \in 1..Len(h), SameTx(h, x, y)
        PROVE  h[y] # "begin"
    <3>1. CASE y \in 1..Len(g)
      BY <1>4, <2>6, <3>1
    <3>2. CASE y \notin 1..Len(g)
      <4>1. y \in Nat /\ x < y /\ c \in x..(y - 1)
        BY <1>1, <1>3, <2>5, <3>2
      <4>2. QED
        BY <1>3, <2>5, <2>6, <4>1, SameTxMeans
    <3>3. QED
      BY <3>1, <3>2
  <2>7. QED
    BY <1>3, <2>3, <2>4, <2>6, Zenon DEF Tracks, k
<1>9. QED
  BY <1>7, <1>8

-----------------------------------------------------------------------------
\* A BEGIN that is open at the end of the fixed statements is one of the script.
Begins(s, X, n, g) ==
  \A y \in 1..Len(g) : g[y] = "begin" /\ IsOpen(g, y, Len(g)) =>
    \E k \in 1..n : s[k] = "begin" /\ k \notin X /\ IsOpen(s, k, n)

\* One more statement: an open BEGIN stays, goes with its whole block, or is
\* closed by a commit that stays.
LEMMA BeginsMore ==
  ASSUME NEW s \in Seq(Kinds), NEW r, NEW n \in Nat, n + 1 <= Len(s),
         NEW g \in Seq(Kinds), Begins(s, SplitIn(r, s), n, g),
         NEW e, e = Rewritten(s, n + 1, SplitIn(r, s)), NEW h, GoesOn(g, e, h)
  PROVE  Begins(s, SplitIn(r, s), n + 1, h)
<1> DEFINE k == n + 1
           X == SplitIn(r, s)
<1>1. k \in DOMAIN s /\ k \in Nat /\ k \in 1..k /\ Len(s) \in Nat /\ s[k] \in Kinds /\ Len(g) \in Nat /\ n < k
  OBVIOUS
<1>2. /\ e \in Seq(Kinds) /\ Len(e) \in 0..3
      /\ k \notin X /\ s[k] = "note" => e = <<>>
      /\ k \notin X /\ s[k] # "note" => e = <<Fix(s[k])>>
      /\ k \in X => e = <<>> \/ (Len(e) = 3 /\ e[3] = "commit")
  <2>1. e = Rewritten(s, k, X)
    OBVIOUS
  <2> HIDE DEF k, X
  <2>2. QED
    BY <1>1, <2>1, PieceShape
<1>3. /\ h \in Seq(Kinds) /\ Len(h) = Len(g) + Len(e) /\ Len(h) \in Nat
      /\ \A y \in 1..Len(g) : h[y] = g[y]
      /\ \A q \in 1..Len(e) : h[Len(g) + q] = e[q]
  BY <1>2 DEF GoesOn
<1> SUFFICES ASSUME NEW y \in 1..Len(h), h[y] = "begin", IsOpen(h, y, Len(h))
             PROVE  \E j \in 1..k : s[j] = "begin" /\ j \notin X /\ IsOpen(s, j, k)
  BY DEF Begins
<1>4. \A q \in 1..Len(e) : y <= Len(g) + q => e[q] # "commit"
  <2>1. TAKE q \in 1..Len(e)
  <2>2. HAVE y <= Len(g) + q
  <2>3. Len(g) + q \in y..Len(h)
    BY <1>1, <1>2, <1>3, <2>2
  <2>4. QED
    BY <1>3, <2>3 DEF IsOpen
<1>5. CASE y \in 1..Len(g)
  <2>1. g[y] = "begin" /\ IsOpen(g, y, Len(g))
    <3>1. \A j \in y..Len(g) : j \in 1..Len(g) /\ j \in y..Len(h)
      BY <1>1, <1>2, <1>3, <1>5
    <3>2. QED
      BY <1>3, <1>5, <3>1 DEF IsOpen
  <2>2. PICK j \in 1..n : s[j] = "begin" /\ j \notin X /\ IsOpen(s, j, n)
    BY <1>5, <2>1 DEF Begins
  <2>3. j \in 1..k /\ j \in DOMAIN s /\ j \in Nat \ {0} /\ j < k /\ k - 1 = n
    BY <1>1
  <2>4. s[k] # "commit"
    <3>1. SUFFICES ASSUME s[k] = "commit" PROVE FALSE
      OBVIOUS
    <3>2. CASE k \notin X
      <4>1. e = <<"commit">>
        BY <1>1, <1>2, <3>1, <3>2, FixKeeps
      <4>2. Len(e) = 1 /\ e[1] = "commit"
        BY <4>1
      <4>3. y <= Len(g) + 1
        BY <1>1, <1>5
      <4>4. QED
        BY <1>4, <4>2, <4>3
    <3>3. CASE k \in X
      <4>1. SameTx(s, j, k)
        BY <1>1, <2>2, <2>3, SameTxMeans DEF IsOpen
      <4>2. InBlock(s, j)
        BY <2>2, <2>3 DEF InBlock, SameTx
      <4>3. InBlock(s, k) /\ NeedsSplit(s, k) /\ r # "cannot"
        BY <3>3 DEF SplitIn, NeedsSplit
      <4>4. NeedsSplit(s, j)
        BY <4>1, <4>2, <4>3, BlockIsSplitWhole
      <4>5. QED
        BY <2>2, <2>3, <4>3, <4>4 DEF SplitIn, Unsplit
    <3>4. QED
      BY <3>2, <3>3
  <2>5. IsOpen(s, j, k)
    <3>1. \A l \in j..k : l \in j..n \/ l = k
      BY <1>1, <2>3
    <3>2. QED
      BY <2>2, <2>4, <3>1 DEF IsOpen
  <2>6. QED
    BY <2>2, <2>3, <2>5
<1>6. CASE y \notin 1..Len(g)
  <2>1. y - Len(g) \in 1..Len(e) /\ y = Len(g) + (y - Len(g)) /\ Len(e) # 0
    BY <1>1, <1>2, <1>3, <1>6
  <2>2. e[y - Len(g)] = "begin"
    BY <1>3, <2>1
  <2>3. k \notin X
    <3>1. SUFFICES ASSUME Len(e) = 3, e[3] = "commit" PROVE FALSE
      BY <1>2, <2>1
    <3>2. 3 \in 1..Len(e)
      BY <3>1
    <3>3. Len(h) = Len(g) + 3
      BY <1>3, <3>1, Zenon
    <3>4. y <= Len(g) + 3
      BY <1>1, <3>3
    <3>5. e[3] # "commit"
      BY <1>4, <3>2, <3>4
    <3>6. QED
      BY <3>1, <3>5
  <2>4. e = <<Fix(s[k])>>
    BY <1>2, <2>1, <2>3
  <2>5. Fix(s[k]) = "begin"
    <3>1. Len(e) = 1 /\ e[1] = Fix(s[k])
      BY <2>4
    <3>2. y - Len(g) = 1
      <4>1. y - Len(g) \in 1..1
        BY <2>1, <3>1
      <4>2. QED
        BY <4>1
    <3>3. QED
      BY <2>2, <3>1, <3>2
  <2>6. s[k] = "begin"
    BY <1>1, <2>5, FixKeeps
  <2>7. IsOpen(s, k, k)
    BY <1>1, <2>6 DEF IsOpen
  <2>8. QED
    BY <1>1, <2>3, <2>6, <2>7
<1>7. QED
  BY <1>5, <1>6

\* Nothing follows the last statement: the empty sequence is the only one over {}.
LEMMA NothingFollows ==
  ASSUME NEW s, NEW i \in Nat
  PROVE  GovernedUpTo(s, i, i) = <<>>
<1>1. \A j \in 1..i : ~(j > i)
  OBVIOUS
<1>2. FollowsUpTo(s, i, i) = [j \in 1..i |-> <<>>]
  BY <1>1 DEF FollowsUpTo
<1>3. <<>> \in Seq({})
  OBVIOUS
<1>4. [j \in 1..i |-> <<>>] \in Seq(Seq({}))
  BY <1>3
<1>5. FlattenSeq([j \in 1..i |-> <<>>]) \in Seq({})
  BY <1>4, FlattenType, Zenon
<1>6. \A t \in Seq({}) : t = <<>>
  <2>1. TAKE t \in Seq({})
  <2>2. \A j \in 1..Len(t) : t[j] \in {}
    OBVIOUS
  <2>3. Len(t) \in Nat /\ 1..Len(t) = {}
    BY <2>2
  <2>4. Len(t) = 0
    BY <2>3
  <2>5. QED
    BY <2>4
<1>7. QED
  BY <1>2, <1>5, <1>6, Zenon DEF GovernedUpTo

\* The setting itself: no BEGIN of the script is open there, so none of the fixed
\* one is.
LEMMA TrackStart ==
  ASSUME NEW s \in Seq(Kinds), NEW r, NEW i \in DOMAIN s, s[i] = "setLocal", IsImplicit(s, i),
         NEW n \in Nat, i = n + 1,
         NEW g \in Seq(Kinds), Begins(s, SplitIn(r, s), n, g),
         NEW e, e = Rewritten(s, i, SplitIn(r, s)), NEW h, GoesOn(g, e, h)
  PROVE  \E x : Tracks(s, i, i, h, x)
<1> DEFINE x == Len(g) + 1
<1>1. i \notin SplitIn(r, s)
  BY ImplicitIsWhole DEF SameTx
<1>2. e = <<"setLocal">>
  BY <1>1 DEF Rewritten, Fix, Fixes
<1>3. Len(e) = 1 /\ e[1] = "setLocal" /\ 1 \in 1..Len(e)
  BY <1>2
<1>4. Len(g) \in Nat /\ x \in Nat /\ i \in Nat
  OBVIOUS
<1>5. /\ h \in Seq(Kinds) /\ Len(h) = x /\ h[x] = "setLocal"
      /\ \A y \in 1..Len(g) : h[y] = g[y]
  BY <1>3 DEF GoesOn
<1>6. GovernedUpTo(h, x, x) = GovernedUpTo(s, i, i)
  BY <1>4, NothingFollows, Zenon
<1>7. IsOpen(h, x, x) /\ IsOpen(s, i, i)
  BY <1>4, <1>5 DEF IsOpen
<1>8. ASSUME NEW y \in 1..x, SameTx(h, x, y), h[y] = "begin"
      PROVE  FALSE
  <2>1. y \in 1..Len(g) /\ y \in Nat \ {0} /\ y < x /\ x - 1 = Len(g)
    BY <1>4, <1>5, <1>8
  <2>2. SameTx(h, y, x)
    BY <1>8 DEF SameTx
  <2>3. \A k \in y..(x - 1) : h[k] # "commit"
    BY <1>4, <2>1, <2>2, SameTxMeans
  <2>4. \A k \in y..Len(g) : k \in 1..Len(g)
    BY <1>4, <2>1
  <2>5. g[y] = "begin" /\ IsOpen(g, y, Len(g))
    BY <1>5, <1>8, <2>1, <2>3, <2>4 DEF IsOpen
  <2>6. PICK k \in 1..n : s[k] = "begin" /\ IsOpen(s, k, n)
    BY <2>1, <2>5 DEF Begins
  <2>7. k \in Nat \ {0} /\ k < i /\ i - 1 = n /\ k \in DOMAIN s
    OBVIOUS
  <2>8. SameTx(s, k, i)
    BY <1>4, <2>6, <2>7, SameTxMeans DEF IsOpen
  <2>9. QED
    BY <2>6, <2>7, <2>8 DEF IsImplicit, SameTx
<1>9. Tracks(s, i, i, h, x)
  <2>1. x \in 1..Len(h)
    BY <1>4, <1>5
  <2> HIDE DEF x
  <2>2. QED
    BY <1>5, <1>6, <1>7, <1>8, <2>1 DEF Tracks
<1>10. QED
  BY <1>9

\* Every setting of an implicit transaction is there after the fix, and holds
\* for the same.
LEMMA FixedSqlTracks ==
  ASSUME NEW s \in Seq(Kinds), NEW r, NEW i \in DOMAIN s, s[i] = "setLocal", IsImplicit(s, i)
  PROVE  \E x : Tracks(s, i, Len(s), FixedSql(r, s), x)
<1> DEFINE X == SplitIn(r, s)
           e == Pieces(r, s)
<1>1. e \in Seq(Seq(Kinds)) /\ Len(e) = Len(s) /\ Len(s) \in Nat
  BY FixedSqlType DEF Pieces
<1>2. \A k \in 1..Len(s) : e[k] = Rewritten(s, k, X)
  BY DEF Pieces
<1>3. FixedSql(r, s) = FlattenSeq(e)
  BY FixedSqlIs
<1> HIDE DEF e
<1>4. PICK F : Joins(F, e, Kinds) /\ F[Len(e)] = FlattenSeq(e)
  BY <1>1, FlattenSteps
<1>5. \A n \in 0..Len(s) : F[n] \in Seq(Kinds)
  BY <1>1, <1>4 DEF Joins
<1>6. F[0] = <<>> /\ \A n \in 1..Len(s) : F[n] = F[n - 1] \o e[n]
  BY <1>1, <1>4 DEF Joins
<1>7. \A n \in 1..Len(s) : GoesOn(F[n - 1], e[n], F[n])
  <2>1. TAKE n \in 1..Len(s)
  <2>2. n \in 0..Len(s) /\ n - 1 \in 0..Len(s)
    BY <1>1
  <2>3. F[n - 1] \in Seq(Kinds) /\ e[n] \in Seq(Kinds)
    BY <1>1, <1>5, <2>2
  <2>4. F[n] = F[n - 1] \o e[n]
    BY <1>6, Zenon
  <2>5. QED
    BY <2>3, <2>4, ConcatGoesOn, Zenon
<1>8. \A n \in 0..Len(s) : Begins(s, X, n, F[n])
  <2> DEFINE Bad == {n \in 0..Len(s) : ~Begins(s, X, n, F[n])}
  <2>1. SUFFICES ASSUME Bad # {} PROVE FALSE
    OBVIOUS
  <2>2. PICK n \in Bad : \A k \in Nat : k < n => k \notin Bad
    <3>1. Bad \subseteq Nat
      BY <1>1
    <3>2. QED
      BY <2>1, <3>1, MinimalNumber
  <2>3. n \in 0..Len(s) /\ ~Begins(s, X, n, F[n])
    OBVIOUS
  <2>4. n # 0
    <3>1. Len(<<>>) = 0 /\ 1..0 = {}
      OBVIOUS
    <3>2. Begins(s, X, 0, <<>>)
      BY <3>1 DEF Begins
    <3>3. QED
      BY <1>6, <2>3, <3>2
  <2>5. n - 1 \in Nat /\ n - 1 < n /\ n - 1 \in 0..Len(s) /\ n = (n - 1) + 1 /\ n \in 1..Len(s) /\ n <= Len(s)
    BY <1>1, <2>3, <2>4
  <2>6. Begins(s, X, n - 1, F[n - 1])
    BY <2>2, <2>5
  <2> DEFINE m == n - 1
             g == F[m]
             h == F[n]
             d == e[n]
  <2>7. g \in Seq(Kinds) /\ GoesOn(g, d, h) /\ d = Rewritten(s, n, X) /\ Begins(s, X, m, g)
    BY <1>2, <1>5, <1>7, <2>5, <2>6
  <2>8. m \in Nat /\ m + 1 = n /\ m + 1 <= Len(s)
    BY <2>5
  <2>9. ~Begins(s, X, n, h)
    BY <2>3
  <2> HIDE DEF g, h, d, m
  <2>10. d = Rewritten(s, m + 1, X)
    BY <2>7, <2>8
  <2>11. Begins(s, X, m + 1, h)
    BY <2>7, <2>8, <2>10, BeginsMore
  <2>12. QED
    BY <2>8, <2>9, <2>11
<1>9. i \in 1..Len(s) /\ i \in Nat
  OBVIOUS
<1> DEFINE Good(n) == \E x : Tracks(s, i, n, F[n], x)
<1>10. Good(i)
  <2> DEFINE m == i - 1
             g == F[m]
             h == F[i]
             d == e[i]
  <2>1. m \in Nat /\ i = m + 1 /\ m \in 0..Len(s)
    BY <1>1, <1>9
  <2>2. g \in Seq(Kinds) /\ GoesOn(g, d, h) /\ d = Rewritten(s, i, X) /\ Begins(s, X, m, g)
    BY <1>2, <1>5, <1>7, <1>8, <1>9, <2>1
  <2> HIDE DEF g, d, m
  <2>3. QED
    BY <2>1, <2>2, TrackStart
<1>11. \A n \in i..Len(s) : Good(n)
  <2> DEFINE Bad == {n \in i..Len(s) : ~Good(n)}
  <2> HIDE DEF Good
  <2>1. SUFFICES ASSUME Bad # {} PROVE FALSE
    OBVIOUS
  <2>2. PICK n \in Bad : \A k \in Nat : k < n => k \notin Bad
    <3>1. Bad \subseteq Nat
      BY <1>1, <1>9
    <3>2. QED
      BY <2>1, <3>1, MinimalNumber
  <2>3. n \in i..Len(s) /\ ~Good(n)
    OBVIOUS
  <2>4. n # i
    BY <1>10, <2>3
  <2> DEFINE m == n - 1
             g == F[m]
             h == F[n]
             d == e[n]
  <2>5. /\ m \in Nat /\ m < n /\ m \in i..Len(s) /\ m \in 0..Len(s) /\ n = m + 1 /\ n \in 1..Len(s)
        /\ m + 1 <= Len(s) /\ i <= m
    BY <1>1, <1>9, <2>3, <2>4
  <2>6. Good(m)
    BY <2>2, <2>5
  <2>7. PICK x : Tracks(s, i, m, g, x)
    BY <2>6 DEF Good
  <2>8. g \in Seq(Kinds) /\ GoesOn(g, d, h) /\ d = Rewritten(s, n, X)
    BY <1>2, <1>5, <1>7, <2>5
  <2>9. ~Tracks(s, i, n, h, x)
    BY <2>3 DEF Good
  <2> HIDE DEF g, h, d, m
  <2>10. d = Rewritten(s, m + 1, X)
    BY <2>5, <2>8
  <2>11. Tracks(s, i, m + 1, h, x)
    BY <2>5, <2>7, <2>8, <2>10, TrackMore
  <2>12. QED
    BY <2>5, <2>9, <2>11
<1>12. Good(Len(s))
  BY <1>9, <1>11
<1>13. QED
  BY <1>1, <1>3, <1>4, <1>12

-----------------------------------------------------------------------------
(* Settings keep holding for what they held for.                           *)

\* Every setting of an implicit transaction of s holds in w for the same.
Keeps(s, w) ==
  \A i \in DOMAIN s : s[i] = "setLocal" /\ IsImplicit(s, i) =>
    \E j \in DOMAIN w : w[j] = "setLocal" /\ IsImplicit(w, j) /\ Governed(w, j) = Governed(s, i)

\* The linter's fix does,
LEMMA FixedSqlKeeps ==
  ASSUME NEW s \in Seq(Kinds), NEW r
  PROVE  Keeps(s, FixedSql(r, s))
<1> DEFINE w == FixedSql(r, s)
<1>1. w \in Seq(Kinds)
  BY FixedSqlType
<1>2. SUFFICES ASSUME NEW i \in DOMAIN s, s[i] = "setLocal", IsImplicit(s, i)
               PROVE  \E j \in DOMAIN w : w[j] = "setLocal" /\ IsImplicit(w, j) /\ Governed(w, j) = Governed(s, i)
  BY DEF Keeps
<1>3. PICK x : Tracks(s, i, Len(s), w, x)
  BY <1>2, FixedSqlTracks
<1> HIDE DEF w
<1>4. DOMAIN w = 1..Len(w)
  BY <1>1
<1>5. Governed(w, x) = Governed(s, i)
  BY <1>1, <1>3, GovernedIs DEF Tracks
<1>6. IsImplicit(w, x)
  BY <1>3, <1>4 DEF Tracks, IsImplicit
<1>7. QED
  BY <1>3, <1>4, <1>5, <1>6 DEF Tracks

\* and one fix after another.
LEMMA KeepsTransitive ==
  ASSUME NEW a, NEW b, NEW c, Keeps(a, b), Keeps(b, c)
  PROVE  Keeps(a, c)
<1>1. SUFFICES ASSUME NEW i \in DOMAIN a, a[i] = "setLocal", IsImplicit(a, i)
               PROVE  \E j \in DOMAIN c : c[j] = "setLocal" /\ IsImplicit(c, j) /\ Governed(c, j) = Governed(a, i)
  BY DEF Keeps
<1>2. PICK k \in DOMAIN b : b[k] = "setLocal" /\ IsImplicit(b, k) /\ Governed(b, k) = Governed(a, i)
  BY <1>1, Zenon DEF Keeps
<1>3. PICK j \in DOMAIN c : c[j] = "setLocal" /\ IsImplicit(c, j) /\ Governed(c, j) = Governed(b, k)
  BY <1>2, Zenon DEF Keeps
<1>4. QED
  BY <1>2, <1>3, Zenon
=============================================================================
