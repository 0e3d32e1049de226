----------------------------- MODULE GramsProofs -----------------------------
(***************************************************************************)
(* Theorems about Grams and Preview for every alphabet, any documents,      *)
(* patterns and limits: whatever the regex finds, the prefilter lets        *)
(* through, and what is shown of it is a part of its text.                  *)
(***************************************************************************)
EXTENDS Preview, NaturalSets, SequenceTheorems

(* Joining sequences *)

\* f[k] is s[1] \o ... \o s[k].
Joins(f, s, T) ==
  /\ f \in [0..Len(s) -> Seq(T)] /\ f[0] = << >>
  /\ \A k \in 1..Len(s) : f[k] = f[k - 1] \o s[k]

\* c is a and b, one after the other.
Glued(c, a, b) ==
  /\ Len(a) \in Nat /\ Len(b) \in Nat /\ Len(c) = Len(a) + Len(b)
  /\ \A x \in 1..Len(a) : c[x] = a[x]
  /\ \A x \in 1..Len(b) : c[Len(a) + x] = b[x]

LEMMA Concat == \A T : \A a, b \in Seq(T) : Glued(a \o b, a, b)
BY DEF Glued

LEMMA FlattenFacts ==
  ASSUME NEW T, NEW s \in Seq(Seq(T))
  PROVE  \E f : Joins(f, s, T) /\ FlattenSeq(s) = f[Len(s)]
<1> DEFINE n == Len(s)
           step == [k \in 1..n |-> [x \in Seq(T) |-> x \o s[k]]]
           Is(g) == g = [i \in 1..n |-> IF i = 1 THEN s[i] ELSE g[i - 1] \o s[i]]
           g == CHOOSE h : Is(h)
<1>1. n \in Nat /\ \A k \in 1..n : s[k] \in Seq(T)
  OBVIOUS
<1>2. step \in [1..n -> [Seq(T) -> Seq(T)]] /\ << >> \in Seq(T)
  BY <1>1
<1>3. PICK f \in [0..n -> Seq(T)] : Goes(f, << >>, step, n)
  <2> HIDE DEF step, n
  <2> QED
    BY <1>1, <1>2, Iterates
<1>4. \A k \in 1..n : f[k] = f[k - 1] \o s[k]
  <2> TAKE k \in 1..n
  <2>1. f[k] = step[k][f[k - 1]]
    BY <1>3 DEF Goes
  <2>2. k - 1 \in 0..n
    BY <1>1
  <2>3. f[k - 1] \in Seq(T)
    BY <1>3, <2>2
  <2> QED
    BY <2>1, <2>3
<1>5. Joins(f, s, T)
  BY <1>3, <1>4 DEF Joins, Goes
<1>6. CASE n = 0
  <2>1. FlattenSeq(s) = s /\ s = << >>
    BY <1>6 DEF FlattenSeq
  <2> QED
    BY <1>5, <1>6, <2>1 DEF Joins
<1>7. CASE n # 0
  <2> DEFINE h == [i \in 1..n |-> f[i]]
             S == {k \in 0..n : k # 0 => g[k] = f[k]}
  <2>1. FlattenSeq(s) = g[n]
    BY <1>7 DEF FlattenSeq
  <2>2. Is(h)
    <3>1. ASSUME NEW i \in 1..n PROVE f[i] = IF i = 1 THEN s[i] ELSE h[i - 1] \o s[i]
      <4>1. CASE i = 1
        <5>1. f[1] = << >> \o s[1] /\ s[1] \in Seq(T)
          <6>1. 1 \in 1..n /\ 1 - 1 = 0 /\ f[0] = << >>
            BY <1>1, <1>5, <4>1 DEF Joins
          <6>2. f[1] = f[1 - 1] \o s[1]
            BY <1>4, <6>1
          <6> QED
            BY <1>1, <6>1, <6>2
        <5>2. f[1] = s[1]
          BY <5>1
        <5> QED
          BY <4>1, <5>2
      <4>2. CASE i # 1
        <5>1. i - 1 \in 1..n
          BY <1>1, <4>2
        <5> QED
          BY <1>4, <4>2, <5>1
      <4> QED
        BY <4>1, <4>2
    <3> QED
      BY <3>1
  <2>3. Is(g)
    BY <2>2
  <2> HIDE DEF g, h
  <2>4. \A i \in 1..n : g[i] = IF i = 1 THEN s[i] ELSE g[i - 1] \o s[i]
    BY <2>3, Zenon
  <2>5. 0 \in S
    BY <1>1
  <2>6. ASSUME NEW k \in 0..(n - 1), k \in S PROVE k + 1 \in S
    <3>1. k + 1 \in 1..n /\ (k + 1) - 1 = k
      BY <1>1
    <3>2. g[k + 1] = IF k + 1 = 1 THEN s[k + 1] ELSE g[k] \o s[k + 1]
      BY <2>4, <3>1
    <3>3. f[k + 1] = f[k] \o s[k + 1] /\ s[k + 1] \in Seq(T)
      BY <1>1, <1>4, <3>1
    <3>4. CASE k = 0
      <4>1. f[0] = << >> /\ << >> \o s[k + 1] = s[k + 1]
        BY <1>5, <3>3 DEF Joins
      <4> QED
        BY <3>1, <3>2, <3>3, <3>4, <4>1
    <3>5. CASE k # 0
      <4>1. g[k] = f[k]
        BY <2>6, <3>5
      <4>2. g[k + 1] = g[k] \o s[k + 1]
        <5>1. k + 1 # 1
          BY <1>1, <3>1, <3>5
        <5> QED
          BY <3>2, <5>1, Zenon
      <4>3. g[k + 1] = f[k + 1]
        BY <3>3, <4>1, <4>2
      <4> QED
        BY <1>1, <3>1, <4>3
    <3> QED
      BY <3>4, <3>5
  <2>7. n \in S
    <3> HIDE DEF S, n
    <3>1. 0..n \subseteq S
      BY <1>1, <2>5, <2>6, InductionUpTo
    <3> QED
      BY <1>1, <3>1
  <2> QED
    BY <1>5, <1>7, <2>1, <2>7
<1> QED
  BY <1>6, <1>7

\* r is s[1] \o s[2] \o ..., and the first k of them end at offset P[k].
Pieces(P, s, r) ==
  /\ P \in [0..Len(s) -> Nat] /\ P[0] = 0 /\ Len(r) = P[Len(s)]
  /\ \A k \in 1..Len(s) : Len(s[k]) \in Nat /\ P[k] = P[k - 1] + Len(s[k])
  /\ \A j, k \in 0..Len(s) : j <= k => P[j] <= P[k]
  /\ \A k \in 1..Len(s) : \A x \in 1..Len(s[k]) : r[P[k - 1] + x] = s[k][x]

LEMMA Climbs ==
  ASSUME NEW n \in Nat, NEW P \in [0..n -> Nat], \A k \in 1..n : P[k - 1] <= P[k]
  PROVE  \A j, k \in 0..n : j <= k => P[j] <= P[k]
<1> DEFINE S == {k \in 0..n : \A j \in 0..k : P[j] <= P[k]}
<1>1. 0 \in S
  BY P[0] \in Nat
<1>2. ASSUME NEW k \in 0..(n - 1), k \in S PROVE k + 1 \in S
  <2>1. k + 1 \in 1..n /\ k + 1 \in 0..n /\ (k + 1) - 1 = k /\ k \in 0..n
    OBVIOUS
  <2>2. P[k] <= P[k + 1] /\ P[k] \in Nat /\ P[k + 1] \in Nat
    BY <2>1
  <2>3. ASSUME NEW j \in 0..(k + 1) PROVE P[j] <= P[k + 1]
    <3>1. CASE j = k + 1
      BY <2>2, <3>1
    <3>2. CASE j # k + 1
      <4>1. j \in 0..k /\ j \in 0..n
        BY <3>2
      <4>2. P[j] <= P[k] /\ P[j] \in Nat
        BY <1>2, <4>1
      <4> QED
        BY <2>2, <4>2
    <3> QED
      BY <3>1, <3>2
  <2> QED
    BY <2>1, <2>3
<1>3. 0..n \subseteq S
  <2> HIDE DEF S
  <2> QED
    BY <1>1, <1>2, InductionUpTo
<1> QED
  BY <1>3

LEMMA FlattenPieces ==
  ASSUME NEW T, NEW s \in Seq(Seq(T))
  PROVE  FlattenSeq(s) \in Seq(T) /\ \E P : Pieces(P, s, FlattenSeq(s))
<1> DEFINE n == Len(s)
<1>1. PICK f : Joins(f, s, T) /\ FlattenSeq(s) = f[n]
  BY FlattenFacts
<1> DEFINE P == [k \in 0..n |-> Len(f[k])]
           S == {m \in 0..n : \A k \in 1..m : \A x \in 1..Len(s[k]) : f[m][P[k - 1] + x] = s[k][x]}
<1>2. n \in Nat /\ \A k \in 1..n : s[k] \in Seq(T) /\ k \in 0..n /\ k - 1 \in 0..n
  OBVIOUS
<1>3. f[0] = << >> /\ \A k \in 0..n : f[k] \in Seq(T)
  BY <1>1 DEF Joins
<1>4. \A k \in 1..n : Glued(f[k], f[k - 1], s[k])
  <2>1. \A k \in 1..n : f[k] = f[k - 1] \o s[k]
    BY <1>1 DEF Joins
  <2> HIDE DEF n
  <2> QED
    BY <1>2, <1>3, <2>1, Concat
<1>5. P \in [0..n -> Nat] /\ P[0] = 0
  <2>1. \A e \in Seq(T) : Len(e) \in Nat
    OBVIOUS
  <2> HIDE DEF n
  <2>2. \A k \in 0..n : Len(f[k]) \in Nat
    BY <1>3, <2>1
  <2>3. Len(f[0]) = 0 /\ 0 \in 0..n
    BY <1>2, <1>3
  <2> QED
    BY <2>2, <2>3
<1>6. \A k \in 1..n : P[k] = P[k - 1] + Len(s[k]) /\ Len(s[k]) \in Nat
  <2> TAKE k \in 1..n
  <2>1. P[k] = Len(f[k]) /\ P[k - 1] = Len(f[k - 1])
    BY <1>2
  <2> QED
    BY <1>4, <2>1 DEF Glued
<1> HIDE DEF n
<1>7. \A j, k \in 0..n : j <= k => P[j] <= P[k]
  <2> HIDE DEF P
  <2>1. \A k \in 1..n : P[k - 1] <= P[k]
    <3> TAKE k \in 1..n
    <3>1. P[k - 1] \in Nat
      BY <1>2, <1>5
    <3> QED
      BY <1>6, <3>1
  <2> QED
    BY <1>2, <1>5, <2>1, Climbs
<1>8. 0 \in S
  BY <1>2
<1>9. ASSUME NEW m \in 0..(n - 1), m \in S PROVE m + 1 \in S
  <2>1. m + 1 \in 1..n /\ (m + 1) - 1 = m /\ m + 1 \in 0..n /\ m \in 0..n
    BY <1>2
  <2>2. Glued(f[m + 1], f[m], s[m + 1]) /\ Len(f[m]) = P[m]
    <3>1. Glued(f[m + 1], f[(m + 1) - 1], s[m + 1])
      BY <1>4, <2>1
    <3> QED
      BY <2>1, <3>1
  <2>3. ASSUME NEW k \in 1..(m + 1), NEW x \in 1..Len(s[k])
        PROVE  f[m + 1][P[k - 1] + x] = s[k][x]
    <3>1. CASE k = m + 1
      <4>1. P[k - 1] = Len(f[m])
        BY <2>1, <2>2, <3>1
      <4> HIDE DEF P
      <4> QED
        BY <2>2, <3>1, <4>1 DEF Glued
    <3>2. CASE k # m + 1
      <4>1. k \in 1..m /\ k \in 1..n /\ k \in 0..n /\ k <= m
        BY <1>2, <2>1, <3>2
      <4>2. f[m][P[k - 1] + x] = s[k][x]
        BY <1>9, <4>1
      <4> HIDE DEF P
      <4>3. P[k] = P[k - 1] + Len(s[k]) /\ Len(s[k]) \in Nat
        BY <1>6, <4>1
      <4>a. P[k - 1] \in Nat /\ P[k] \in Nat /\ P[m] \in Nat /\ P[k] <= P[m]
        BY <1>2, <1>5, <1>7, <2>1, <4>1
      <4>4. P[k - 1] + x \in 1..Len(f[m])
        <5> DEFINE pa == P[k - 1]
                   pk == P[k]
                   pm == P[m]
                   z == Len(s[k])
        <5>1. /\ pa \in Nat /\ pk \in Nat /\ pm \in Nat /\ z \in Nat
              /\ pk = pa + z /\ pk <= pm /\ x \in 1..z /\ Len(f[m]) = pm
          BY <2>2, <4>3, <4>a
        <5> HIDE DEF pa, pk, pm, z
        <5>2. pa + x \in 1..pm
          BY <5>1
        <5> QED
          BY <5>1, <5>2 DEF pa
      <4> QED
        BY <2>2, <4>2, <4>4 DEF Glued
    <3> QED
      BY <3>1, <3>2
  <2> HIDE DEF P
  <2> QED
    BY <2>1, <2>3
<1>10. n \in S
  <2> HIDE DEF S
  <2>1. 0..n \subseteq S
    BY <1>2, <1>8, <1>9, InductionUpTo
  <2> QED
    BY <1>2, <2>1
<1>11. Len(f[n]) = P[n] /\ f[n] \in Seq(T)
  BY <1>2, <1>3
<1>12. Pieces(P, s, f[n])
  <2> HIDE DEF P
  <2> QED
    BY <1>5, <1>6, <1>7, <1>10, <1>11 DEF Pieces, n
<1> HIDE DEF P
<1> QED
  BY <1>1, <1>11, <1>12

\* What comes in s after its first a is, for d places, what comes in u after its
\* first j.
Alike(s, u, a, j, d) ==
  /\ Len(s) \in Nat /\ Len(u) \in Nat /\ a \in Nat /\ j \in Nat /\ d \in Nat
  /\ a + d <= Len(s) /\ j + d <= Len(u)
  /\ \A k \in 1..d : s[a + k] = u[j + k]

\* r and q are alike where s and u are.
Moved(P, Q, r, q, a, j, d) ==
  /\ P[a + d] - P[a] = Q[j + d] - Q[j]
  /\ \A x \in 1..(P[a + d] - P[a]) : r[P[a] + x] = q[Q[j] + x]

\* Equal pieces of two sequences are joined to equal pieces.
LEMMA Shifted ==
  ASSUME NEW s, NEW u, NEW P, NEW Q, NEW r, NEW q, Pieces(P, s, r), Pieces(Q, u, q),
         NEW a, NEW j, NEW d, Alike(s, u, a, j, d)
  PROVE  Moved(P, Q, r, q, a, j, d)
<1>0. /\ Len(s) \in Nat /\ Len(u) \in Nat /\ a \in Nat /\ j \in Nat /\ d \in Nat
      /\ a + d <= Len(s) /\ j + d <= Len(u) /\ \A k \in 1..d : s[a + k] = u[j + k]
  BY DEF Alike
<1> USE <1>0
<1> DEFINE S == {k \in 0..d : P[a + k] - P[a] = Q[j + k] - Q[j]}
<1>1. /\ P \in [0..Len(s) -> Nat] /\ Q \in [0..Len(u) -> Nat]
      /\ \A k \in 1..Len(s) : Len(s[k]) \in Nat /\ P[k] = P[k - 1] + Len(s[k])
      /\ \A k \in 1..Len(u) : Q[k] = Q[k - 1] + Len(u[k])
  BY DEF Pieces
<1>2. \A k \in 0..d : a + k \in 0..Len(s) /\ j + k \in 0..Len(u)
  OBVIOUS
<1>3. \A k \in 1..d : /\ a + k \in 1..Len(s) /\ j + k \in 1..Len(u)
                       /\ (a + k) - 1 = a + (k - 1) /\ (j + k) - 1 = j + (k - 1)
                       /\ k \in 0..d /\ k - 1 \in 0..d
  OBVIOUS
<1>4. \A k \in 1..d : /\ P[a + k] = P[a + (k - 1)] + Len(s[a + k])
                       /\ Q[j + k] = Q[j + (k - 1)] + Len(s[a + k]) /\ Len(s[a + k]) \in Nat
  BY <1>1, <1>3
<1>5. \A k \in 0..d : P[a + k] \in Nat /\ Q[j + k] \in Nat
  BY <1>1, <1>2
<1>6. P[a] \in Nat /\ Q[j] \in Nat /\ a + 0 = a /\ j + 0 = j
  <2>1. a \in 0..Len(s) /\ j \in 0..Len(u) /\ a + 0 = a /\ j + 0 = j
    OBVIOUS
  <2> QED
    BY <1>1, <2>1
<1>7. 0..d \subseteq S
  <2>1. 0 \in S
    BY <1>6
  <2>2. ASSUME NEW k \in 0..(d - 1), k \in S PROVE k + 1 \in S
    <3>1. k + 1 \in 1..d /\ (k + 1) - 1 = k /\ k \in 0..d /\ k + 1 \in 0..d
      OBVIOUS
    <3> DEFINE z == Len(s[a + (k + 1)])
    <3>2. P[a + (k + 1)] = P[a + k] + z /\ Q[j + (k + 1)] = Q[j + k] + z /\ z \in Nat
      BY <1>4, <3>1
    <3>3. /\ P[a + k] \in Nat /\ Q[j + k] \in Nat /\ P[a + (k + 1)] \in Nat /\ Q[j + (k + 1)] \in Nat
          /\ P[a + k] - P[a] = Q[j + k] - Q[j]
      BY <1>5, <2>2, <3>1
    <3> HIDE DEF z
    <3>4. P[a + (k + 1)] - P[a] = Q[j + (k + 1)] - Q[j]
      <4> DEFINE pa == P[a]
                 qj == Q[j]
                 pk == P[a + k]
                 qk == Q[j + k]
                 pn == P[a + (k + 1)]
                 qn == Q[j + (k + 1)]
      <4>1. /\ pa \in Nat /\ qj \in Nat /\ pk \in Nat /\ qk \in Nat /\ pn \in Nat /\ qn \in Nat
            /\ z \in Nat /\ pn = pk + z /\ qn = qk + z /\ pk - pa = qk - qj
        BY <1>6, <3>2, <3>3
      <4> HIDE DEF pa, qj, pk, qk, pn, qn
      <4>2. pn - pa = qn - qj
        BY <4>1
      <4> QED
        BY <4>2 DEF pa, qj, pn, qn
    <3> QED
      BY <3>1, <3>4
  <2> HIDE DEF S
  <2> QED
    BY <2>1, <2>2, InductionUpTo
<1>8. ASSUME NEW x \in 1..(P[a + d] - P[a])
      PROVE  r[P[a] + x] = q[Q[j] + x]
  <2> DEFINE B == {k \in 0..d : P[a] + x <= P[a + k]}
  <2>1. d \in B /\ B \in SUBSET Nat /\ 0 \notin B /\ x \in Nat /\ x > 0
    BY <1>5, <1>6
  <2>2. PICK k \in B : \A l \in B : k <= l
    <3> HIDE DEF B
    <3> QED
      BY <2>1, LeastNatural
  <2>3. k \in 1..d /\ k - 1 \in 0..d /\ k \in 0..d
    BY <2>1, <2>2
  <2>4. k - 1 \notin B
    <3>1. ~ (k <= k - 1)
      BY <2>3
    <3> QED
      BY <2>2, <3>1
  <2>5. P[a + (k - 1)] < P[a] + x /\ P[a] + x <= P[a + k]
    <3>1. P[a + (k - 1)] \in Nat
      BY <1>5, <2>3
    <3> QED
      BY <1>6, <2>1, <2>2, <2>3, <2>4, <3>1
  <2> HIDE DEF B
  <2> DEFINE y == (P[a] + x) - P[a + (k - 1)]
             e == s[a + k]
  <2>6. /\ P[a + k] = P[a + (k - 1)] + Len(e) /\ Len(e) \in Nat
        /\ P[a + (k - 1)] \in Nat /\ P[a + k] \in Nat /\ Q[j + (k - 1)] \in Nat
    BY <1>4, <1>5, <2>3
  <2>7. P[a + (k - 1)] - P[a] = Q[j + (k - 1)] - Q[j]
    BY <1>7, <2>3
  <2>8. y \in 1..Len(e) /\ P[a] + x = P[a + (k - 1)] + y /\ Q[j] + x = Q[j + (k - 1)] + y
    <3> HIDE DEF e
    <3> DEFINE pa == P[a]
               qj == Q[j]
               pk == P[a + (k - 1)]
               qk == Q[j + (k - 1)]
               z == Len(e)
    <3>1. /\ pa \in Nat /\ qj \in Nat /\ pk \in Nat /\ qk \in Nat /\ z \in Nat
          /\ pk < pa + x /\ pa + x <= pk + z /\ pk - pa = qk - qj /\ y = (pa + x) - pk
      BY <1>6, <2>5, <2>6, <2>7
    <3> HIDE DEF pa, qj, pk, qk, z, y
    <3>2. y \in 1..z /\ pa + x = pk + y /\ qj + x = qk + y
      BY <2>1, <3>1
    <3> QED
      BY <3>2 DEF pa, qj, pk, qk, z
  <2> HIDE DEF y
  <2>9. a + k \in 1..Len(s) /\ j + k \in 1..Len(u) /\ e = u[j + k]
        /\ (a + k) - 1 = a + (k - 1) /\ (j + k) - 1 = j + (k - 1)
    BY <1>3, <2>3
  <2>a. e = s[a + k]
    OBVIOUS
  <2> HIDE DEF e
  <2>10. r[P[(a + k) - 1] + y] = e[y]
    <3>1. \A l \in 1..Len(s) : \A v \in 1..Len(s[l]) : r[P[l - 1] + v] = s[l][v]
      BY DEF Pieces
    <3>2. a + k \in 1..Len(s) /\ y \in 1..Len(s[a + k])
      BY <2>8, <2>9, <2>a
    <3> QED
      BY <2>a, <3>1, <3>2
  <2>11. q[Q[(j + k) - 1] + y] = e[y]
    BY <2>8, <2>9 DEF Pieces
  <2> QED
    BY <2>8, <2>9, <2>10, <2>11
<1>9. d \in S
  BY <1>7
<1> QED
  BY <1>8, <1>9 DEF Moved
-----------------------------------------------------------------------------
(* What a match leaves in the normalised text *)

Folded(t) == [i \in DOMAIN t |-> Fold[Lower[t[i]]]]

\* A text is cut into what each of its characters is normalised to.
LEMMA NormalFacts ==
  ASSUME NEW t \in Seq(Chars)
  PROVE  /\ Len(t) \in Nat /\ Normalize(t) \in Seq(Chars) /\ Len(Normalize(t)) \in Nat
         /\ Len(Folded(t)) = Len(t)
         /\ \A i \in 1..Len(t) : t[i] \in Chars /\ Folded(t)[i] = Fold[Lower[t[i]]]
         /\ \E P : Pieces(P, Folded(t), Normalize(t))
<1>1. Len(t) \in Nat /\ DOMAIN t = 1..Len(t) /\ \A i \in 1..Len(t) : t[i] \in Chars
  OBVIOUS
<1>2. \A c \in Chars : Fold[Lower[c]] \in Seq(Chars)
  BY GramsAssumption
<1>3. /\ Folded(t) \in Seq(Seq(Chars)) /\ Len(Folded(t)) = Len(t)
      /\ \A i \in 1..Len(t) : Folded(t)[i] = Fold[Lower[t[i]]]
  BY <1>1, <1>2 DEF Folded
<1>4. Normalize(t) = FlattenSeq(Folded(t))
  BY DEF Normalize, Folded
<1>5. Normalize(t) \in Seq(Chars) /\ \E P : Pieces(P, Folded(t), Normalize(t))
  BY <1>3, <1>4, FlattenPieces
<1>6. Len(Normalize(t)) \in Nat
  BY <1>5
<1> QED
  BY <1>1, <1>3, <1>5, <1>6

\* From a to b a pattern has no wildcard.
Run(p, a, b) == \A k \in a..b : p[k] \notin Wild

\* It matches the text from j on, character by character.
LiesAt(p, a, b, t, j) ==
  \A k \in 0..(b - a) : j + k \in 1..Len(t) /\ Same(p[a + k], t[j + k])

RunsIn(p, t) ==
  \A a, b \in 1..Len(p) : a <= b /\ Run(p, a, b) => \E j \in 1..Len(t) : LiesAt(p, a, b, t, j)

\* What r has from a to b is somewhere in q.
Inside(r, a, b, q) ==
  \E j \in 1..Len(q) : \A k \in 0..(b - a) : j + k \in 1..Len(q) /\ r[a + k] = q[j + k]

\* If the runs of a pattern are in a text, those of the normalised pattern are,
\* character by character, in the normalised text.
LEMMA Carry ==
  ASSUME NEW p \in Seq(Chars), NEW t \in Seq(Chars), RunsIn(p, t),
         NEW i \in 1..Len(Normalize(p)), NEW l \in 1..Len(Normalize(p)), i <= l,
         Run(Normalize(p), i, l)
  PROVE  Inside(Normalize(p), i, l, Normalize(t))
<1> DEFINE n == Len(p)
           m == Len(t)
           r == Normalize(p)
           q == Normalize(t)
           s == Folded(p)
           u == Folded(t)
<1>1. PICK P : Pieces(P, s, r)
  BY NormalFacts
<1>2. PICK Q : Pieces(Q, u, q)
  BY NormalFacts
<1>3. /\ n \in Nat /\ Len(s) = n /\ \A x \in 1..n : p[x] \in Chars /\ s[x] = Fold[Lower[p[x]]]
      /\ m \in Nat /\ Len(u) = m /\ \A x \in 1..m : t[x] \in Chars /\ u[x] = Fold[Lower[t[x]]]
      /\ Len(r) \in Nat /\ Len(q) \in Nat
  BY NormalFacts
<1> HIDE DEF n, m, r, q, s, u
<1>4. /\ P \in [0..n -> Nat] /\ P[0] = 0 /\ Len(r) = P[n]
      /\ Q \in [0..m -> Nat] /\ Q[0] = 0 /\ Len(q) = Q[m]
  BY <1>1, <1>2, <1>3 DEF Pieces
<1>5. /\ \A x, y \in 0..n : x <= y => P[x] <= P[y]
      /\ \A x, y \in 0..m : x <= y => Q[x] <= Q[y]
  BY <1>1, <1>2, <1>3 DEF Pieces
<1>6. i \in 1..P[n] /\ l \in 1..P[n] /\ Run(r, i, l) /\ i \in Nat /\ l \in Nat
  BY <1>4 DEF r
\* The characters the piece comes from.
<1>7. PICK a \in 1..n : i <= P[a] /\ P[a - 1] < i
  <2> DEFINE A == {k \in 0..n : i <= P[k]}
  <2>1. n \in A /\ A \in SUBSET Nat /\ 0 \notin A
    BY <1>3, <1>4, <1>6
  <2>2. PICK a \in A : \A k \in A : a <= k
    <3> HIDE DEF A
    <3> QED
      BY <2>1, LeastNatural
  <2>3. a \in 1..n /\ a - 1 \in 0..n /\ ~ (a <= a - 1)
    BY <1>3, <2>1, <2>2
  <2>4. a - 1 \notin A
    BY <2>2, <2>3
  <2>5. P[a - 1] \in Nat
    BY <1>4, <2>3
  <2> QED
    BY <1>6, <2>2, <2>3, <2>4, <2>5
<1>8. PICK b \in 1..n : l <= P[b] /\ P[b - 1] < l
  <2> DEFINE A == {k \in 0..n : l <= P[k]}
  <2>1. n \in A /\ A \in SUBSET Nat /\ 0 \notin A
    BY <1>3, <1>4, <1>6
  <2>2. PICK b \in A : \A k \in A : b <= k
    <3> HIDE DEF A
    <3> QED
      BY <2>1, LeastNatural
  <2>3. b \in 1..n /\ b - 1 \in 0..n /\ ~ (b <= b - 1)
    BY <1>3, <2>1, <2>2
  <2>4. b - 1 \notin A
    BY <2>2, <2>3
  <2>5. P[b - 1] \in Nat
    BY <1>4, <2>3
  <2> QED
    BY <1>6, <2>2, <2>3, <2>4, <2>5
<1>a. a \in Nat /\ b \in Nat /\ 1 <= a /\ 1 <= b /\ a <= n /\ b <= n
  BY <1>3
<1>9. /\ a - 1 \in 0..n /\ b - 1 \in 0..n /\ a \in 0..n /\ b \in 0..n
      /\ P[a - 1] \in Nat /\ P[b - 1] \in Nat /\ P[a] \in Nat /\ P[b] \in Nat
  BY <1>3, <1>4, <1>a
<1>10. a <= b
  <2>1. b < a => P[b] <= P[a - 1]
    BY <1>a, <1>5, <1>9
  <2> QED
    BY <1>6, <1>7, <1>8, <1>9, <1>a, <2>1
<1>11. Run(p, a, b)
  <2> SUFFICES ASSUME NEW k \in a..b, p[k] \in Wild PROVE FALSE
    BY DEF Run
  <2>1. k \in 1..n /\ k - 1 \in 0..n /\ k \in 0..n /\ k - 1 <= b - 1 /\ k \in Nat
    BY <1>3, <1>a
  <2>2. s[k] = <<p[k]>>
    <3>1. Lower[p[k]] = p[k] /\ Fold[p[k]] = <<p[k]>>
      BY GramsAssumption
    <3> QED
      BY <1>3, <2>1, <3>1
  <2>3. Len(s[k]) = 1 /\ s[k][1] = p[k]
    BY <2>2
  <2>4. P[k] = P[k - 1] + 1 /\ r[P[k - 1] + 1] = p[k]
    <3>1. k \in 1..Len(s) /\ 1 \in 1..Len(s[k])
      BY <1>3, <2>1, <2>3
    <3> QED
      BY <1>1, <2>3, <3>1 DEF Pieces
  <2>5. P[k - 1] \in Nat /\ P[k - 1] <= P[b - 1]
    BY <1>4, <1>5, <1>9, <2>1
  <2>6. i <= P[k - 1] + 1
    <3>1. CASE k = a
      BY <1>7, <2>4, <3>1
    <3>2. CASE k # a
      <4>1. P[a] <= P[k - 1]
        BY <1>5, <1>9, <1>a, <2>1, <3>2
      <4> QED
        BY <1>6, <1>7, <1>9, <2>5, <4>1
    <3> QED
      BY <3>1, <3>2
  <2>7. P[k - 1] + 1 \in i..l
    <3> DEFINE x == P[k - 1]
               y == P[b - 1]
    <3>1. x \in Nat /\ y \in Nat /\ x <= y /\ y < l /\ i <= x + 1 /\ i \in Nat /\ l \in Nat
      BY <1>6, <1>8, <1>9, <2>5, <2>6
    <3> HIDE DEF x, y
    <3> QED
      <4>1. x + 1 \in i..l
        BY <3>1
      <4> QED
        BY <4>1 DEF x
  <2> QED
    BY <1>6, <2>4, <2>7 DEF Run
<1>12. PICK j \in 1..m : LiesAt(p, a, b, t, j)
  BY <1>10, <1>11 DEF RunsIn, n, m
<1> DEFINE d == (b - a) + 1
           v == (i - P[a - 1]) + Q[j - 1]
<1>13. /\ d \in Nat /\ (a - 1) + d = b /\ a - 1 \in Nat /\ j - 1 \in Nat /\ (j - 1) + d <= m
       /\ (j - 1) + d \in 0..m /\ j - 1 \in 0..m
  <2>1. b - a \in 0..(b - a) /\ j \in Nat
    BY <1>3, <1>a, <1>10
  <2>2. j + (b - a) \in 1..m
    BY <1>12, <2>1 DEF LiesAt, m
  <2>3. d \in Nat /\ (a - 1) + d = b /\ a - 1 \in Nat
    BY <1>a, <1>10
  <2>4. j - 1 \in Nat /\ j - 1 \in 0..m /\ (j - 1) + d = j + (b - a)
    <3>1. j - 1 \in Nat /\ j - 1 \in 0..m
      BY <1>3
    <3>2. (j - 1) + ((b - a) + 1) = j + (b - a)
      BY <1>a, <2>1
    <3> QED
      BY <3>1, <3>2
  <2>5. (j - 1) + d <= m /\ (j - 1) + d \in 0..m
    BY <1>3, <2>2, <2>4
  <2> QED
    BY <2>3, <2>4, <2>5
<1>14. \A k \in 1..d : s[(a - 1) + k] = u[(j - 1) + k]
  <2> TAKE k \in 1..d
  <2>1. /\ k - 1 \in 0..(b - a) /\ (a - 1) + k = a + (k - 1) /\ (j - 1) + k = j + (k - 1)
        /\ a + (k - 1) \in 1..n
    BY <1>3, <1>a, <1>10, <1>13
  <2>2. j + (k - 1) \in 1..m /\ Lower[p[a + (k - 1)]] = Lower[t[j + (k - 1)]]
    BY <1>12, <2>1 DEF LiesAt, Same, m
  <2> DEFINE x == a + (k - 1)
             y == j + (k - 1)
  <2>3. x \in 1..n /\ y \in 1..m /\ Lower[p[x]] = Lower[t[y]]
    BY <2>1, <2>2
  <2>4. x = (a - 1) + k /\ y = (j - 1) + k
    BY <2>1
  <2> HIDE DEF x, y
  <2>5. s[x] = u[y]
    BY <1>3, <2>3
  <2> QED
    BY <2>4, <2>5
<1>15. /\ P[b] - P[a - 1] = Q[(j - 1) + d] - Q[j - 1]
       /\ \A x \in 1..(P[b] - P[a - 1]) : r[P[a - 1] + x] = q[Q[j - 1] + x]
  <2>1. (a - 1) + d <= Len(s) /\ (j - 1) + d <= Len(u) /\ Len(s) \in Nat /\ Len(u) \in Nat
    BY <1>3, <1>13
  <2> DEFINE x0 == a - 1
             y0 == j - 1
  <2>2. x0 \in Nat /\ y0 \in Nat /\ d \in Nat /\ x0 + d <= Len(s) /\ y0 + d <= Len(u)
    BY <1>13, <2>1
  <2>3. \A k \in 1..d : s[x0 + k] = u[y0 + k]
    BY <1>14
  <2>4. Pieces(P, s, r) /\ Pieces(Q, u, q)
    BY <1>1, <1>2
  <2> HIDE DEF d, x0, y0
  <2>5. Moved(P, Q, r, q, x0, y0, d)
    <3>1. Alike(s, u, x0, y0, d)
      BY <2>1, <2>2, <2>3 DEF Alike
    <3> QED
      BY <2>4, <3>1, Shifted
  <2>6. x0 = a - 1 /\ y0 = j - 1
    BY DEF x0, y0
  <2> QED
    BY <1>13, <2>5, <2>6 DEF Moved
<1>16. Q[j - 1] \in Nat /\ Q[(j - 1) + d] \in Nat /\ Q[(j - 1) + d] <= Len(q)
  <2>1. m \in 0..m /\ (j - 1) + d <= m
    BY <1>3, <1>13
  <2> QED
    BY <1>4, <1>5, <1>13, <2>1
<1>17. ASSUME NEW k \in 0..(l - i)
       PROVE  v + k \in 1..Len(q) /\ r[i + k] = q[v + k]
  <2> DEFINE x == (i + k) - P[a - 1]
             pa == P[a - 1]
             pb == P[b]
             qj == Q[j - 1]
             qd == Q[(j - 1) + d]
  <2>1. /\ pa \in Nat /\ pb \in Nat /\ qj \in Nat /\ qd \in Nat /\ Len(q) \in Nat
        /\ pb - pa = qd - qj /\ qd <= Len(q) /\ pa < i /\ l <= pb
        /\ x = (i + k) - pa /\ v = (i - pa) + qj
    BY <1>3, <1>7, <1>8, <1>9, <1>15, <1>16
  <2>2. \A y \in 1..(pb - pa) : r[pa + y] = q[qj + y]
    BY <1>15
  <2> HIDE DEF x, pa, pb, qj, qd, v
  <2>3. /\ x \in 1..(pb - pa) /\ pa + x = i + k /\ qj + x = v + k /\ v + k \in 1..Len(q)
    BY <1>6, <2>1
  <2> QED
    BY <2>2, <2>3
<1>18. v \in 1..Len(q)
  <2>1. 0 \in 0..(l - i)
    BY <1>6
  <2>2. v \in Int
    <3> DEFINE pa == P[a - 1]
               qj == Q[j - 1]
    <3>1. pa \in Nat /\ qj \in Nat /\ i \in Nat /\ v = (i - pa) + qj
      BY <1>6, <1>9, <1>16
    <3> HIDE DEF pa, qj, v
    <3> QED
      BY <3>1
  <2> HIDE DEF v
  <2>3. v + 0 = v
    BY <2>2
  <2> QED
    BY <1>17, <2>1, <2>3
<1> HIDE DEF v
<1> QED
  BY <1>17, <1>18 DEF Inside, r, q
-----------------------------------------------------------------------------
(* What a match is *)

\* f[k] is where the last k characters of p can begin to match.
Tails(f, p, t, ends) ==
  /\ f \in [0..Len(p) -> SUBSET (1..(Len(t) + 1))] /\ f[0] = ends
  /\ \A k \in 1..Len(p) : f[k] = Before(p[Len(p) + 1 - k], t, f[k - 1])

LEMMA StartsFacts ==
  ASSUME NEW p \in Seq(Chars), NEW t, NEW ends \in SUBSET (1..(Len(t) + 1))
  PROVE  \E f : Tails(f, p, t, ends) /\ Starts(p, t, ends) = f[Len(p)]
<1> DEFINE n == Len(p)
           T == SUBSET (1..(Len(t) + 1))
           step == [k \in 1..n |-> [e \in T |-> Before(p[n + 1 - k], t, e)]]
           Is(g) == g = [k \in 0..n |-> IF k = 0 THEN ends ELSE Before(p[n + 1 - k], t, g[k - 1])]
           g == CHOOSE h : Is(h)
<1>1. n \in Nat /\ ends \in T
  OBVIOUS
<1>2. step \in [1..n -> [T -> T]]
  <2>1. \A c, e : Before(c, t, e) \in T
    BY DEF Before
  <2> QED
    BY <2>1
<1>3. PICK f \in [0..n -> T] : Goes(f, ends, step, n)
  <2> HIDE DEF step, n, T
  <2> QED
    BY <1>1, <1>2, Iterates
<1>4. ASSUME NEW k \in 1..n PROVE f[k] = Before(p[n + 1 - k], t, f[k - 1])
  <2>1. f[k] = step[k][f[k - 1]]
    BY <1>3 DEF Goes
  <2>2. k - 1 \in 0..n
    BY <1>1
  <2>3. f[k - 1] \in T
    BY <1>3, <2>2
  <2> HIDE DEF T
  <2> QED
    BY <2>1, <2>3
<1>5. f[0] = ends
  BY <1>3 DEF Goes
<1>6. Tails(f, p, t, ends)
  <2> HIDE DEF step
  <2> QED
    BY <1>3, <1>4, <1>5 DEF Tails
<1>7. Is(g)
  <2> DEFINE h == [k \in 0..n |-> f[k]]
  <2>1. ASSUME NEW k \in 0..n
        PROVE  f[k] = IF k = 0 THEN ends ELSE Before(p[n + 1 - k], t, h[k - 1])
    <3>1. CASE k = 0
      BY <1>5, <3>1
    <3>2. CASE k # 0
      <4>1. k \in 1..n /\ k - 1 \in 0..n
        BY <1>1, <3>2
      <4>2. h[k - 1] = f[k - 1]
        BY <4>1
      <4> QED
        BY <1>4, <3>2, <4>1, <4>2
    <3> QED
      BY <3>1, <3>2
  <2>2. Is(h)
    BY <2>1
  <2> QED
    BY <2>2
<1> HIDE DEF g, step
<1>8. \A k \in 0..n : g[k] = IF k = 0 THEN ends ELSE Before(p[n + 1 - k], t, g[k - 1])
  BY <1>7, Zenon
<1> DEFINE S == {k \in 0..n : g[k] = f[k]}
<1>9. 0 \in S
  BY <1>1, <1>5, <1>8
<1>10. ASSUME NEW k \in 0..(n - 1), k \in S PROVE k + 1 \in S
  <2>1. k + 1 \in 1..n /\ (k + 1) - 1 = k /\ k + 1 \in 0..n /\ k + 1 # 0
    BY <1>1
  <2>2. g[k + 1] = Before(p[n + 1 - (k + 1)], t, g[k])
    <3>1. g[k + 1] = Before(p[n + 1 - (k + 1)], t, g[(k + 1) - 1])
      BY <1>8, <2>1, Zenon
    <3> QED
      BY <2>1, <3>1
  <2>3. f[k + 1] = Before(p[n + 1 - (k + 1)], t, f[k])
    <3>1. f[k + 1] = Before(p[n + 1 - (k + 1)], t, f[(k + 1) - 1])
      BY <1>4, <2>1
    <3> QED
      BY <2>1, <3>1
  <2>4. g[k] = f[k]
    BY <1>10
  <2> QED
    BY <2>1, <2>2, <2>3, <2>4
<1>11. n \in S
  <2> HIDE DEF S, n
  <2>1. 0..n \subseteq S
    BY <1>1, <1>9, <1>10, InductionUpTo
  <2> QED
    BY <1>1, <2>1
<1>12. Starts(p, t, ends) = g[n]
  BY DEF Starts, g
<1> QED
  BY <1>6, <1>11, <1>12

\* A text that matches has the runs of the pattern.
LEMMA MatchRuns ==
  ASSUME NEW p \in Seq(Chars), NEW t \in Seq(Chars), Matches(p, t)
  PROVE  RunsIn(p, t)
<1> DEFINE n == Len(p)
           m == Len(t)
<1>1. n \in Nat /\ m \in Nat
  OBVIOUS
<1>2. PICK f : Tails(f, p, t, 1..(m + 1)) /\ Starts(p, t, 1..(m + 1)) = f[n]
  BY StartsFacts
<1>3. f[n] # {}
  BY <1>2 DEF Matches
<1>4. \A k \in 1..n : f[k] = Before(p[n + 1 - k], t, f[k - 1])
  BY <1>2 DEF Tails
<1> HIDE DEF n, m
<1> DEFINE S == {k \in 0..n : f[n - k] # {}}
<1>5. 0..n \subseteq S
  <2>1. 0 \in S
    BY <1>1, <1>3
  <2>2. ASSUME NEW k \in 0..(n - 1), k \in S PROVE k + 1 \in S
    <3>1. n - k \in 1..n /\ (n - k) - 1 = n - (k + 1) /\ k + 1 \in 0..n
      BY <1>1
    <3>2. f[n - k] = Before(p[n + 1 - (n - k)], t, f[n - (k + 1)]) /\ f[n - k] # {}
      BY <1>4, <2>2, <3>1
    <3>3. f[n - (k + 1)] # {}
      BY <3>2 DEF Before
    <3> QED
      BY <3>1, <3>3
  <2> HIDE DEF S
  <2> QED
    BY <1>1, <2>1, <2>2, InductionUpTo
<1>6. SUFFICES ASSUME NEW a \in 1..n, NEW b \in 1..n, a <= b, Run(p, a, b)
               PROVE  \E j \in 1..m : LiesAt(p, a, b, t, j)
  BY DEF RunsIn, n, m
<1>7. PICK j \in f[(n + 1) - a] : TRUE
  <2>1. a - 1 \in 0..n /\ n - (a - 1) = (n + 1) - a
    BY <1>1
  <2>2. a - 1 \in S
    BY <1>5, <2>1
  <2> QED
    BY <2>1, <2>2
<1> DEFINE E == {e \in 0..(b - a) : j + e \in f[(n + 1) - (a + e)]}
<1>8. ASSUME NEW e \in 0..(b - a), e \in E
      PROVE  /\ j \in Int /\ j + e \in 1..m /\ Same(p[a + e], t[j + e])
             /\ (j + e) + 1 \in f[(n + 1) - (a + e) - 1]
  <2> DEFINE k == (n + 1) - (a + e)
             y == j + e
  <2>1. k \in 1..n /\ (n + 1) - k = a + e /\ a + e \in a..b
    BY <1>1
  <2>2. y \in f[k]
    BY <1>8
  <2> HIDE DEF k, y
  <2>3. y \in Before(p[a + e], t, f[k - 1])
    <3>1. f[k] = Before(p[n + 1 - k], t, f[k - 1])
      BY <1>4, <2>1
    <3>2. n + 1 - k = a + e
      BY <1>1, <2>1
    <3> QED
      BY <2>2, <3>1, <3>2
  <2>4. p[a + e] \notin Wild
    BY <1>6, <2>1 DEF Run
  <2>5. y \in 1..(m + 1) /\ y <= m /\ Same(p[a + e], t[y]) /\ y + 1 \in f[k - 1]
    BY <2>3, <2>4 DEF Before, Wild, m
  <2>6. y \in 1..m
    BY <1>1, <2>5
  <2>7. j \in Int
    <3>1. (n + 1) - a \in 1..n
      BY <1>1
    <3>2. f[(n + 1) - a] \subseteq Int
      BY <1>4, <3>1 DEF Before
    <3> QED
      BY <1>7, <3>2
  <2> QED
    BY <2>5, <2>6, <2>7 DEF y, k
<1>9. 0..(b - a) \subseteq E
  <2>1. 0 \in E
    <3>1. (n + 1) - a \in 1..n /\ a + 0 = a /\ 0 \in 0..(b - a)
      BY <1>1, <1>6
    <3>2. f[(n + 1) - a] \subseteq Int
      BY <1>4, <3>1 DEF Before
    <3>3. j + 0 = j
      BY <1>7, <3>2
    <3> QED
      BY <1>7, <3>1, <3>3
  <2>2. ASSUME NEW e \in 0..((b - a) - 1), e \in E PROVE e + 1 \in E
    <3>1. e \in 0..(b - a) /\ e + 1 \in 0..(b - a)
      BY <1>1
    <3>2. j \in Int /\ (j + e) + 1 \in f[(n + 1) - (a + e) - 1]
      BY <1>8, <2>2, <3>1
    <3>3. (j + e) + 1 = j + (e + 1)
      BY <3>2
    <3>4. (n + 1) - (a + e) - 1 = (n + 1) - (a + (e + 1))
      BY <1>1
    <3> QED
      BY <3>1, <3>2, <3>3, <3>4
  <2>3. b - a \in Nat
    BY <1>6
  <2> HIDE DEF E
  <2> QED
    BY <2>1, <2>2, <2>3, InductionUpTo
<1> HIDE DEF E
<1>10. LiesAt(p, a, b, t, j)
  BY <1>8, <1>9 DEF LiesAt, m
<1>11. j \in 1..m
  <2>1. 0 \in 0..(b - a)
    BY <1>6
  <2>2. j \in Int /\ j + 0 \in 1..m
    BY <1>8, <1>9, <2>1
  <2> QED
    BY <2>2
<1> QED
  BY <1>10, <1>11
-----------------------------------------------------------------------------
(* The grams of a pattern *)

LEMMA NoWildInRange ==
  ASSUME NEW r, NEW i \in Nat
  PROVE  LET g == SubSeq(r, i, i + 2)
         IN  /\ Len(g) = 3 /\ g[1] = r[i] /\ g[2] = r[i + 1] /\ g[3] = r[i + 2]
             /\ Range(g) = {r[i], r[i + 1], r[i + 2]}
             /\ g = [x \in 1..3 |-> r[i + x - 1]]
<1> DEFINE g == SubSeq(r, i, i + 2)
<1>1. g = [x \in 1..3 |-> r[i + x - 1]]
  OBVIOUS
<1> QED
  BY <1>1 DEF Range

\* A gram between the wildcards of the normalised pattern is in the normalised
\* text, if the runs of the pattern are in the text.
LEMMA GramsOfRuns ==
  ASSUME NEW p \in Seq(Chars), NEW t \in Seq(Chars), RunsIn(p, t),
         NEW g \in Trigrams(Normalize(p)), Range(g) \cap Wild = {}
  PROVE  g \in Trigrams(Normalize(t))
<1> DEFINE r == Normalize(p)
           q == Normalize(t)
<1>1. Len(r) \in Nat /\ Len(q) \in Nat
  BY NormalFacts
<1>2. PICK i \in 1..(Len(r) - 2) : g = SubSeq(r, i, i + 2)
  BY DEF Trigrams
<1> HIDE DEF r, q
<1>3. i \in Nat /\ i \in 1..Len(r) /\ i + 2 \in 1..Len(r) /\ i <= i + 2 /\ (i + 2) - i = 2
  BY <1>1
<1>4. /\ g = [x \in 1..3 |-> r[i + x - 1]]
      /\ Range(g) = {r[i], r[i + 1], r[i + 2]}
  BY <1>2, <1>3, NoWildInRange
<1>5. Run(r, i, i + 2)
  <2>1. \A k \in i..(i + 2) : k = i \/ k = i + 1 \/ k = i + 2
    BY <1>3
  <2> QED
    BY <1>4, <2>1 DEF Run
<1>6. PICK j \in 1..Len(q) : \A k \in 0..2 : j + k \in 1..Len(q) /\ r[i + k] = q[j + k]
  <2> DEFINE l == i + 2
  <2>1. l \in 1..Len(r) /\ i <= l /\ Run(r, i, l) /\ l - i = 2
    BY <1>3, <1>5
  <2> HIDE DEF l
  <2>2. Inside(r, i, l, q)
    BY <1>3, <2>1, Carry DEF r, q
  <2> QED
    BY <2>1, <2>2 DEF Inside
<1>7. j \in Nat /\ j \in 1..(Len(q) - 2)
  <2>1. j + 2 \in 1..Len(q)
    BY <1>6
  <2> QED
    BY <1>1, <2>1
<1>8. SubSeq(q, j, j + 2) = [x \in 1..3 |-> q[j + x - 1]]
  BY <1>7, NoWildInRange
<1>9. \A x \in 1..3 : r[i + x - 1] = q[j + x - 1]
  <2> TAKE x \in 1..3
  <2>1. x - 1 \in 0..2 /\ i + x - 1 = i + (x - 1) /\ j + x - 1 = j + (x - 1)
    BY <1>3, <1>7
  <2>2. r[i + (x - 1)] = q[j + (x - 1)]
    BY <1>6, <2>1
  <2> QED
    BY <2>1, <2>2
<1>10. g = SubSeq(q, j, j + 2)
  BY <1>4, <1>8, <1>9
<1> QED
  BY <1>7, <1>10 DEF Trigrams, q

\* The command line: the regex is that of the normalised pattern.
LEMMA GramsOfNormalised ==
  ASSUME NEW w \in Seq(Chars), NEW t \in Seq(Chars), Stable(t), RunsIn(Normalize(w), t)
  PROVE  Required(w) \subseteq Trigrams(t)
<1>1. Normalize(w) \in Seq(Chars) /\ Normalize(t) = t
  BY NormalFacts DEF Stable
<1> QED
  BY <1>1, GramsOfRuns DEF Required

\* The broker: the regex is that of the pattern as it was asked.
LEMMA GramsOfAsked ==
  ASSUME NEW w \in Seq(Chars), NEW t \in Seq(Chars), Stable(t), RunsIn(w, t)
  PROVE  Required(w) \subseteq Trigrams(t)
<1> DEFINE r == Normalize(w)
<1>1. Normalize(t) = t
  BY DEF Stable
<1> HIDE DEF r
<1>2. ASSUME NEW a \in 1..Len(r), NEW b \in 1..Len(r), a <= b, Run(r, a, b)
      PROVE  \E j \in 1..Len(t) : LiesAt(r, a, b, t, j)
  <2>1. PICK j \in 1..Len(t) : \A k \in 0..(b - a) :
          j + k \in 1..Len(t) /\ r[a + k] = t[j + k]
    <3>1. Inside(r, a, b, t)
      BY <1>1, <1>2, Carry DEF r
    <3> QED
      BY <3>1 DEF Inside
  <2>2. LiesAt(r, a, b, t, j)
    BY <2>1 DEF LiesAt, Same
  <2> QED
    BY <2>2
<1>3. RunsIn(r, t)
  BY <1>2 DEF RunsIn
<1> QED
  BY <1>3, GramsOfNormalised DEF r

\* Case makes no difference: to the places of a match,
LEMMA CaseOfStarts ==
  ASSUME NEW w \in Seq(Chars), NEW t
  PROVE  Matches(LowerText(w), t) <=> Matches(w, t)
<1> DEFINE n == Len(w)
           v == LowerText(w)
           ends == 1..(Len(t) + 1)
<1>1. /\ n \in Nat /\ v \in Seq(Chars) /\ Len(v) = n
      /\ \A i \in 1..n : w[i] \in Chars /\ v[i] = Lower[w[i]]
  <2>1. \A c \in Chars : Lower[c] \in Chars
    BY GramsAssumption
  <2> QED
    BY <2>1 DEF LowerText
<1>2. \A c \in Chars : \A e : Before(Lower[c], t, e) = Before(c, t, e)
  <2> TAKE c \in Chars
  <2> TAKE e
  <2>1. (Lower[c] = "*" <=> c = "*") /\ (Lower[c] = "?" <=> c = "?")
    <3>1. /\ Lower["*"] = "*" /\ Lower["?"] = "?"
          /\ Lower[c] \in Wild => Lower[c] = c
      BY GramsAssumption DEF Wild
    <3> QED
      BY <3>1 DEF Wild
  <2>2. \A d : Same(Lower[c], d) <=> Same(c, d)
    BY GramsAssumption DEF Same
  <2> QED
    BY <2>1, <2>2 DEF Before
<1> HIDE DEF n, v, ends
<1>3. PICK f : Tails(f, w, t, ends) /\ Starts(w, t, ends) = f[n]
  BY StartsFacts DEF ends, n
<1>4. PICK h : Tails(h, v, t, ends) /\ Starts(v, t, ends) = h[n]
  BY <1>1, StartsFacts DEF ends
<1> DEFINE S == {k \in 0..n : f[k] = h[k]}
<1>5. 0 \in S
  BY <1>1, <1>3, <1>4 DEF Tails
<1>6. ASSUME NEW k \in 0..(n - 1), k \in S PROVE k + 1 \in S
  <2>1. k + 1 \in 1..n /\ (k + 1) - 1 = k /\ n + 1 - (k + 1) \in 1..n /\ k + 1 \in 0..n
    BY <1>1
  <2> DEFINE z == n + 1 - (k + 1)
  <2>2. f[k + 1] = Before(w[z], t, f[(k + 1) - 1])
    BY <1>3, <2>1 DEF Tails, n
  <2>3. h[k + 1] = Before(v[z], t, h[(k + 1) - 1])
    BY <1>1, <1>4, <2>1 DEF Tails
  <2>4. z \in 1..n
    BY <2>1
  <2> HIDE DEF z
  <2>5. Before(v[z], t, f[k]) = Before(w[z], t, f[k])
    BY <1>1, <1>2, <2>4
  <2> QED
    BY <1>6, <2>1, <2>2, <2>3, <2>5
<1>7. 0..n \subseteq S
  <2> HIDE DEF S
  <2> QED
    BY <1>1, <1>5, <1>6, InductionUpTo
<1>8. f[n] = h[n]
  BY <1>1, <1>7
<1> QED
  BY <1>3, <1>4, <1>8 DEF Matches, ends, v

\* nor to the grams.
LEMMA CaseOfGrams ==
  ASSUME NEW w \in Seq(Chars)
  PROVE  LowerText(w) \in Seq(Chars) /\ Required(LowerText(w)) = Required(w)
<1>1. \A c \in Chars : Lower[c] \in Chars /\ Lower[Lower[c]] = Lower[c]
  BY GramsAssumption
<1>2. /\ LowerText(w) \in Seq(Chars) /\ DOMAIN LowerText(w) = DOMAIN w
      /\ \A i \in DOMAIN w : w[i] \in Chars /\ LowerText(w)[i] = Lower[w[i]]
  BY <1>1 DEF LowerText
<1>3. \A i \in DOMAIN w : Fold[Lower[LowerText(w)[i]]] = Fold[Lower[w[i]]]
  BY <1>1, <1>2
<1>4. Normalize(LowerText(w)) = Normalize(w)
  BY <1>2, <1>3 DEF Normalize
<1> QED
  BY <1>2, <1>4 DEF Required
-----------------------------------------------------------------------------
(* Pages *)

\* The hits after the first off candidates come no sooner than these.
LEMMA HitsAreCandidates ==
  ASSUME NEW C \in SUBSET Nat, IsFiniteSet(C), NEW off \in Nat, NEW H \in SUBSET C,
         \A d \in H : Upto(C, d) > off
  PROVE  \A d \in H : Upto(H, d) + off <= Upto(C, d)
<1>1. IsFiniteSet(H) /\ H \in SUBSET Nat
  BY FS_Subset
<1>2. \A d \in Int : /\ Upto(C, d) \in Nat /\ Upto(H, d) \in Nat
                      /\ Upto(C, d) = Upto(C, d - 1) + (IF d \in C THEN 1 ELSE 0)
                      /\ Upto(H, d) = Upto(H, d - 1) + (IF d \in H THEN 1 ELSE 0)
  BY <1>1, UptoFacts, UptoStep
<1>3. SUFFICES ASSUME NEW n \in H PROVE Upto(H, n) + off <= Upto(C, n)
  OBVIOUS
<1> DEFINE S == {k \in 0..n : Upto(H, k - 1) = 0 \/ Upto(H, k - 1) + off <= Upto(C, k - 1)}
           Fits(d) == Upto(H, d - 1) = 0 \/ Upto(H, d - 1) + off <= Upto(C, d - 1)
<1>4. 0 \in S
  <2>1. {x \in H : x <= 0 - 1} = {}
    <3>1. \A x \in H : x \in Nat
      BY <1>1
    <3>2. \A x \in H : ~ (x <= 0 - 1)
      BY <3>1
    <3> QED
      BY <3>2
  <2>2. Upto(H, 0 - 1) = 0
    BY <2>1, FS_EmptySet DEF Upto
  <2> QED
    BY <2>2
<1>5. ASSUME NEW d \in Nat, Fits(d)
      PROVE  Upto(H, d) = 0 \/ Upto(H, d) + off <= Upto(C, d)
  <2> DEFINE x == Upto(H, d)
             y == Upto(C, d)
             x0 == Upto(H, d - 1)
             y0 == Upto(C, d - 1)
  <2>1. /\ x \in Nat /\ y \in Nat /\ x0 \in Nat /\ y0 \in Nat
        /\ y = y0 + (IF d \in C THEN 1 ELSE 0) /\ x = x0 + (IF d \in H THEN 1 ELSE 0)
    BY <1>2
  <2>2. x0 = 0 \/ x0 + off <= y0
    BY <1>5
  <2>3. d \in H => d \in C /\ y > off
    OBVIOUS
  <2> HIDE DEF x, y, x0, y0
  <2>4. x = 0 \/ x + off <= y
    BY <2>1, <2>2, <2>3
  <2> QED
    BY <2>4 DEF x, y
<1>6. 0..n \subseteq S
  <2>1. ASSUME NEW k \in 0..(n - 1), k \in S PROVE k + 1 \in S
    <3>1. Fits(k) /\ k \in Nat /\ (k + 1) - 1 = k /\ k + 1 \in 0..n
      BY <2>1
    <3>2. Upto(H, k) = 0 \/ Upto(H, k) + off <= Upto(C, k)
      BY <1>5, <3>1
    <3> QED
      BY <3>1, <3>2
  <2> HIDE DEF S
  <2> QED
    BY <1>4, <2>1, InductionUpTo
<1>7. Fits(n)
  BY <1>6
<1>8. Upto(H, n) = 0 \/ Upto(H, n) + off <= Upto(C, n)
  BY <1>5, <1>7
<1>9. Upto(H, n) # 0
  <2> DEFINE x == Upto(H, n)
             x0 == Upto(H, n - 1)
  <2>1. x = x0 + 1 /\ x0 \in Nat
    BY <1>2
  <2> HIDE DEF x, x0
  <2>2. x # 0
    BY <2>1
  <2> QED
    BY <2>2 DEF x
<1> QED
  BY <1>8, <1>9

\* A page that is not full has all that was left.
LEMMA ShortPage ==
  ASSUME NEW H \in SUBSET Nat, IsFiniteSet(H), NEW lim \in Nat,
         Cardinality({d \in H : Upto(H, d) <= lim}) < lim
  PROVE  \A d \in H : Upto(H, d) <= lim
<1> DEFINE Page == {d \in H : Upto(H, d) <= lim}
           Out == H \ Page
<1>1. SUFFICES ASSUME Out # {} PROVE FALSE
  OBVIOUS
<1>2. PICK d \in Out : \A e \in Out : d <= e
  <2>1. Out \in SUBSET Nat
    OBVIOUS
  <2> HIDE DEF Out
  <2> QED
    BY <1>1, <2>1, LeastNatural
<1>3. d \in H /\ d \in Nat /\ ~ (Upto(H, d) <= lim)
  BY <1>2
<1>4. {x \in H : x <= d} \subseteq Page \cup {d}
  <2> SUFFICES ASSUME NEW x \in H, x <= d, x # d, x \notin Page PROVE FALSE
    OBVIOUS
  <2>1. x \in Out
    OBVIOUS
  <2>2. d <= x
    BY <1>2, <2>1
  <2> QED
    BY <1>3, <2>2
<1>5. IsFiniteSet(Page) /\ Cardinality(Page) \in Nat
  <2>1. Page \subseteq H
    OBVIOUS
  <2> QED
    BY <2>1, FS_Subset, FS_CardinalityType
<1>6. IsFiniteSet(Page \cup {d}) /\ Cardinality(Page \cup {d}) <= Cardinality(Page) + 1
  <2> HIDE DEF Page
  <2>1. Cardinality(Page \cup {d}) \in {Cardinality(Page), Cardinality(Page) + 1}
    BY <1>5, FS_AddElement
  <2> QED
    BY <1>5, <2>1, FS_AddElement
<1>7. Upto(H, d) <= Cardinality(Page \cup {d}) /\ Cardinality(Page \cup {d}) \in Nat
  BY <1>4, <1>6, FS_Subset, FS_CardinalityType DEF Upto
<1>8. Upto(H, d) \in Nat
  BY <1>3, UptoFacts
<1>9. Cardinality(Page) < lim
  OBVIOUS
<1> HIDE DEF Page
<1> QED
  BY <1>3, <1>5, <1>6, <1>7, <1>8, <1>9
-----------------------------------------------------------------------------
(* The index *)

\* What is stored under a path is one of the line's texts, normalised.
LEMMA StoredFacts ==
  ASSUME NEW line \in Seq(STRING \X Seq(Chars)), NEW p \in DOMAIN Stored(line)
  PROVE  \E i \in DOMAIN line :
           line[i][1] = p /\ line[i][2] \in Seq(Chars) /\ Stored(line)[p] = Normalize(line[i][2])
<1> DEFINE T == {i \in DOMAIN line : line[i][1] = p}
           IsLast(i) == line[i][1] = p /\ \A j \in DOMAIN line : line[j][1] = p => j <= i
           c == CHOOSE i \in DOMAIN line : IsLast(i)
<1>1. p \in {line[i][1] : i \in DOMAIN line} /\ Stored(line)[p] = Normalize(line[c][2])
  <2> DEFINE Text(q) == Normalize(line[CHOOSE i \in DOMAIN line :
                          /\ line[i][1] = q
                          /\ \A j \in DOMAIN line : line[j][1] = q => j <= i][2])
             D == {line[i][1] : i \in DOMAIN line}
  <2>1. Stored(line) = [q \in D |-> Text(q)] /\ Text(p) = Normalize(line[c][2])
    BY DEF Stored
  <2> HIDE DEF Text
  <2>2. DOMAIN Stored(line) = D
    BY <2>1
  <2>3. Stored(line)[p] = Text(p)
    BY <2>1, <2>2
  <2> QED
    BY <2>1, <2>2, <2>3
<1>2. T \in SUBSET Nat /\ T # {} /\ Len(line) \in Nat /\ \A i \in T : i <= Len(line)
  <2>1. Len(line) \in Nat /\ DOMAIN line = 1..Len(line)
    OBVIOUS
  <2>2. T # {}
    BY <1>1
  <2> QED
    BY <2>1, <2>2
<1>3. Max(T) \in T /\ \A i \in T : i <= Max(T)
  <2> HIDE DEF T
  <2> QED
    BY <1>2, MaxFacts
<1>4. \E i \in DOMAIN line : IsLast(i)
  BY <1>3
<1>5. c \in DOMAIN line /\ line[c][1] = p
  BY <1>4
<1> HIDE DEF c
<1>6. line[c][2] \in Seq(Chars)
  <2>1. line[c] \in STRING \X Seq(Chars)
    BY <1>5
  <2> QED
    BY <2>1
<1> QED
  BY <1>1, <1>5, <1>6

\* The strings of a document are in the index, and it is stored as the hot
\* window would have it.
IndexComplete ==
  \A k \in 1..Len(docs) :
    /\ docs[k] = Stored(lines[k])
    /\ Indexed(lines[k], k - 1) \subseteq grams
    /\ \A i \in DOMAIN lines[k] : <<lines[k][i][1], k - 1>> \in masks

\* The candidates of a page of gzctl, and those of them that are hits.
Left(r, off) == {d \in Prefilter(r) : Upto(Prefilter(r), d) > off}
CliHits(r, off) == {d \in Left(r, off) : Verifies(docs[d + 1], Normalised(r))}

\* What earlier pages should have shown.
Passed(r, off) ==
  {d \in Prefilter(r) : Upto(Prefilter(r), d) <= off /\ Verifies(docs[d + 1], Normalised(r))}

SegmentInv ==
  /\ lines \in Seq(Lines) /\ docs \in Seq({Stored(l) : l \in Lines})
  /\ Len(lines) = Len(docs) /\ IndexComplete

SearchInv ==
  /\ request = NoRequest => limit = 0 /\ offset = 0 /\ page = {} /\ found = {}
  /\ ByBroker => found = SegmentHits(request)
  /\ ByCli =>
       /\ request \in Requests
       /\ page = CliPage(request, limit, offset)
       /\ Required(request.wildcard) # {} => Passed(request, offset) \subseteq found

\* The inductive invariant.
GramsInv == TypeOK /\ SegmentInv /\ SearchInv

LEMMA IdFacts ==
  ASSUME SegmentInv
  PROVE  /\ Len(docs) \in Nat /\ Ids \in SUBSET Nat /\ IsFiniteSet(Ids)
         /\ \A d \in Ids : d + 1 \in 1..Len(docs) /\ (d + 1) - 1 = d
<1>1. Len(docs) \in Nat
  BY DEF SegmentInv
<1>2. IsFiniteSet(0..(Len(docs) - 1))
  BY <1>1, FS_Interval
<1> QED
  BY <1>1, <1>2 DEF Ids

LEMMA TextFacts ==
  ASSUME SegmentInv, NEW d \in Ids
  PROVE  /\ docs[d + 1] = Stored(lines[d + 1])
         /\ \A p \in DOMAIN docs[d + 1] :
              /\ docs[d + 1][p] \in Seq(Chars)
              /\ \A g \in Trigrams(docs[d + 1][p]) : <<g, d>> \in grams
              /\ <<p, d>> \in masks
<1> DEFINE k == d + 1
<1>1. k \in 1..Len(docs) /\ k - 1 = d
  BY IdFacts
<1> HIDE DEF k
<1>2. /\ docs[k] = Stored(lines[k])
      /\ Indexed(lines[k], d) \subseteq grams
      /\ \A i \in DOMAIN lines[k] : <<lines[k][i][1], d>> \in masks
  BY <1>1 DEF SegmentInv, IndexComplete
<1>3. lines[k] \in Seq(STRING \X Seq(Chars))
  <2>1. lines \in Seq(Lines) /\ k \in 1..Len(lines)
    BY <1>1 DEF SegmentInv
  <2>2. lines[k] \in Lines
    BY <2>1
  <2> QED
    BY <2>2, GramsAssumption
<1>4. ASSUME NEW p \in DOMAIN docs[k]
      PROVE  /\ docs[k][p] \in Seq(Chars)
             /\ \A g \in Trigrams(docs[k][p]) : <<g, d>> \in grams
             /\ <<p, d>> \in masks
  <2>1. PICK i \in DOMAIN lines[k] : /\ lines[k][i][1] = p /\ lines[k][i][2] \in Seq(Chars)
                                      /\ docs[k][p] = Normalize(lines[k][i][2])
    BY <1>2, <1>3, <1>4, StoredFacts
  <2>2. docs[k][p] \in Seq(Chars)
    BY <2>1, NormalFacts
  <2>3. \A g \in Trigrams(docs[k][p]) : <<g, d>> \in Indexed(lines[k], d)
    BY <2>1 DEF Indexed
  <2> QED
    BY <1>2, <2>1, <2>2, <2>3
<1> QED
  BY <1>2, <1>4 DEF k

LEMMA Candidates ==
  ASSUME SegmentInv, NEW r
  PROVE  Prefilter(r) \in SUBSET Nat /\ Prefilter(r) \subseteq Ids /\ IsFiniteSet(Prefilter(r))
<1>1. Prefilter(r) \subseteq Ids
  BY DEF Prefilter
<1> QED
  BY <1>1, IdFacts, FS_Subset

\* A document with the grams in a text of the right field is a candidate.
LEMMA GramsMakeCandidates ==
  ASSUME SegmentInv, NEW r, NEW d \in Ids, NEW p \in DOMAIN docs[d + 1],
         r.field \in {NoField, p}, Required(r.wildcard) \subseteq Trigrams(docs[d + 1][p])
  PROVE  d \in Prefilter(r)
<1>1. \A g \in Required(r.wildcard) : <<g, d>> \in grams
  BY TextFacts
<1>2. r.field = NoField \/ <<r.field, d>> \in masks
  BY TextFacts
<1> QED
  BY <1>1, <1>2 DEF Prefilter

\* What is due to the broker is among its hits.
LEMMA BrokerFindsDue ==
  ASSUME SegmentInv, NEW r \in Requests, Required(r.wildcard) # {}
  PROVE  Due(r) \subseteq SegmentHits(r)
<1> SUFFICES ASSUME NEW d \in Due(r) PROVE d \in SegmentHits(r)
  OBVIOUS
<1>1. PICK p \in DOMAIN docs[d + 1] :
        /\ d \in Ids /\ Stable(docs[d + 1][p])
        /\ Verifies([q \in {p} |-> docs[d + 1][p]], r)
  BY DEF Due
<1>2. r.field \in {NoField, p} /\ Matches(r.wildcard, docs[d + 1][p])
  BY <1>1 DEF Verifies
<1>3. r.wildcard \in Seq(Chars) /\ docs[d + 1][p] \in Seq(Chars)
  BY <1>1, TextFacts, GramsAssumption
<1>4. RunsIn(r.wildcard, docs[d + 1][p])
  BY <1>2, <1>3, MatchRuns
<1>5. Required(r.wildcard) \subseteq Trigrams(docs[d + 1][p])
  BY <1>1, <1>3, <1>4, GramsOfAsked
<1>6. d \in Prefilter(r)
  BY <1>1, <1>2, <1>5, GramsMakeCandidates
<1>7. Verifies(docs[d + 1], r)
  BY <1>2 DEF Verifies
<1> QED
  BY <1>6, <1>7 DEF SegmentHits

\* What is due to gzctl is among its candidates and verifies.
LEMMA CliFindsDue ==
  ASSUME SegmentInv, NEW r \in Requests, NEW d \in Due(Normalised(r))
  PROVE  d \in Prefilter(r) /\ Verifies(docs[d + 1], Normalised(r))
<1> DEFINE n == Normalised(r)
<1>0. r.wildcard \in Seq(Chars) /\ n.wildcard = Normalize(r.wildcard) /\ n.field = r.field
  BY GramsAssumption DEF Normalised
<1> HIDE DEF n
<1>1. PICK p \in DOMAIN docs[d + 1] :
        /\ d \in Ids /\ Stable(docs[d + 1][p])
        /\ Verifies([q \in {p} |-> docs[d + 1][p]], n)
  BY DEF Due, n
<1>2. n.field \in {NoField, p} /\ Matches(n.wildcard, docs[d + 1][p])
  BY <1>1 DEF Verifies
<1>3. n.wildcard \in Seq(Chars) /\ docs[d + 1][p] \in Seq(Chars)
  BY <1>0, <1>1, TextFacts, NormalFacts
<1>4. RunsIn(n.wildcard, docs[d + 1][p])
  BY <1>2, <1>3, MatchRuns
<1>5. Required(r.wildcard) \subseteq Trigrams(docs[d + 1][p])
  BY <1>0, <1>1, <1>3, <1>4, GramsOfNormalised
<1>6. d \in Prefilter(r)
  BY <1>0, <1>1, <1>2, <1>5, GramsMakeCandidates
<1>7. Verifies(docs[d + 1], n)
  BY <1>2 DEF Verifies
<1> QED
  BY <1>6, <1>7 DEF n

\* A page, what the pages before it should have shown, and what it leaves.
LEMMA PageFacts ==
  ASSUME SegmentInv, NEW r, NEW lim \in Nat, NEW off \in Nat
  PROVE  /\ CliPage(r, lim, off) \subseteq Ids
         /\ Required(r.wildcard) # {} =>
              Passed(r, off + lim) \subseteq Passed(r, off) \cup CliPage(r, lim, off)
         /\ Required(r.wildcard) # {} /\ Cardinality(CliPage(r, lim, off)) < lim =>
              \A d \in Prefilter(r) : Verifies(docs[d + 1], Normalised(r)) =>
                d \in Passed(r, off) \cup CliPage(r, lim, off)
<1> DEFINE C == Prefilter(r)
           H == CliHits(r, off)
           Ok(d) == Verifies(docs[d + 1], Normalised(r))
<1>1. C \in SUBSET Nat /\ C \subseteq Ids /\ IsFiniteSet(C)
  BY Candidates
<1>2. H = {d \in C : Upto(C, d) > off /\ Ok(d)}
  BY DEF CliHits, Left
<1>3. CliPage(r, lim, off) =
        IF Required(r.wildcard) = {} THEN {} ELSE {d \in H : Upto(H, d) <= lim}
  BY DEF CliPage, CliHits, Left
<1>4. \A o : Passed(r, o) = {d \in C : Upto(C, d) <= o /\ Ok(d)}
  BY DEF Passed
<1> HIDE DEF C, H, Ok
<1>5. H \in SUBSET C /\ H \in SUBSET Nat /\ IsFiniteSet(H)
  BY <1>1, <1>2, FS_Subset
<1>6. \A d \in H : Upto(H, d) + off <= Upto(C, d)
  <2>1. \A d \in H : Upto(C, d) > off
    BY <1>2
  <2> QED
    BY <1>1, <1>5, <2>1, HitsAreCandidates
<1>7. \A d \in C : Upto(C, d) \in Nat
  BY <1>1, UptoFacts
<1>8. \A d \in H : Upto(H, d) \in Nat
  BY <1>5, UptoFacts
<1>9. \A d \in C : Ok(d) => d \in Passed(r, off) \/ d \in H
  BY <1>2, <1>4, <1>7
<1>10. CliPage(r, lim, off) \subseteq Ids
  BY <1>1, <1>3, <1>5
<1>11. ASSUME Required(r.wildcard) # {}, NEW d \in Passed(r, off + lim)
       PROVE  d \in Passed(r, off) \cup CliPage(r, lim, off)
  <2>1. d \in C /\ Ok(d) /\ Upto(C, d) <= off + lim
    BY <1>4, <1>11
  <2>2. d \in H => Upto(H, d) <= lim
    BY <1>6, <1>7, <1>8, <2>1
  <2> QED
    BY <1>3, <1>9, <1>11, <2>1, <2>2
<1>12. ASSUME Required(r.wildcard) # {}, Cardinality(CliPage(r, lim, off)) < lim,
              NEW d \in C, Ok(d)
       PROVE  d \in Passed(r, off) \cup CliPage(r, lim, off)
  <2>1. Cardinality({e \in H : Upto(H, e) <= lim}) < lim
    BY <1>3, <1>12
  <2>2. \A e \in H : Upto(H, e) <= lim
    BY <1>5, <2>1, ShortPage
  <2> QED
    BY <1>3, <1>9, <1>12, <2>2
<1> QED
  BY <1>10, <1>11, <1>12 DEF C, Ok

LEMMA HitsAreIds == \A r : SegmentHits(r) \subseteq Ids
BY DEF SegmentHits, Prefilter
-----------------------------------------------------------------------------
(* The inductive invariant *)

LEMMA InitInv == Init => GramsInv
<1> SUFFICES ASSUME Init PROVE GramsInv
  OBVIOUS
<1> USE DEF Init
<1>1. Len(docs) = 0 /\ Len(lines) = 0
  OBVIOUS
<1>2. TypeOK
  BY <1>1, GramsAssumption DEF TypeOK
<1>3. SegmentInv
  BY <1>1 DEF SegmentInv, IndexComplete
<1>4. SearchInv
  BY DEF SearchInv, ByBroker, ByCli
<1> QED
  BY <1>2, <1>3, <1>4 DEF GramsInv

LEMMA SegmentUnchanged ==
  ASSUME GramsInv, UNCHANGED segment
  PROVE  /\ SegmentInv' /\ Ids' = Ids
         /\ Len(lines') = Len(docs') /\ Len(docs') <= MaxDocs
         /\ \A x \in grams' : Len(x[1]) = 3 /\ x[2] \in Ids'
         /\ \A x \in masks' : x[2] \in Ids'
<1>1. lines' = lines /\ docs' = docs /\ grams' = grams /\ masks' = masks
  BY DEF segment
<1>2. SegmentInv'
  BY <1>1 DEF GramsInv, SegmentInv, IndexComplete
<1>3. Ids' = Ids
  BY <1>1 DEF Ids
<1> QED
  BY <1>1, <1>2, <1>3 DEF GramsInv, TypeOK

LEMMA WriteDocKeepsInv ==
  ASSUME GramsInv, NEW line \in Lines, WriteDoc(line)
  PROVE  GramsInv'
<1> DEFINE n == Len(docs)
<1>1. /\ request = NoRequest /\ n < MaxDocs
      /\ lines' = Append(lines, line) /\ docs' = Append(docs, Stored(line))
      /\ grams' = grams \cup Indexed(line, n)
      /\ masks' = masks \cup {<<line[i][1], n>> : i \in DOMAIN line}
      /\ request' = request /\ limit' = limit /\ offset' = offset /\ page' = page /\ found' = found
  BY DEF WriteDoc
<1>2. /\ lines \in Seq(Lines) /\ docs \in Seq({Stored(l) : l \in Lines})
      /\ Len(lines) = n /\ n \in Nat /\ IndexComplete /\ SearchInv
  BY DEF GramsInv, SegmentInv
<1>3. line \in Seq(STRING \X Seq(Chars))
  BY GramsAssumption
<1>4. /\ lines' \in Seq(Lines) /\ docs' \in Seq({Stored(l) : l \in Lines})
      /\ Len(docs') = n + 1 /\ Len(lines') = n + 1
      /\ lines'[n + 1] = line /\ docs'[n + 1] = Stored(line)
      /\ \A k \in 1..n : lines'[k] = lines[k] /\ docs'[k] = docs[k]
  <2>1. Stored(line) \in {Stored(l) : l \in Lines}
    OBVIOUS
  <2> QED
    BY <1>1, <1>2, <2>1
<1> HIDE DEF n
<1>5. Ids' = 0..n /\ Ids = 0..(n - 1) /\ Ids \subseteq Ids' /\ n \in Ids'
  <2>1. (n + 1) - 1 = n
    BY <1>2
  <2>2. Ids' = 0..n
    BY <1>4, <2>1 DEF Ids
  <2>3. Ids = 0..(n - 1)
    BY DEF Ids, n
  <2> QED
    BY <1>2, <2>2, <2>3
<1>6. ASSUME NEW x \in Indexed(line, n) PROVE Len(x[1]) = 3 /\ x[2] = n
  <2>1. PICK i \in DOMAIN line : x \in {<<g, n>> : g \in Trigrams(Normalize(line[i][2]))}
    BY DEF Indexed
  <2>2. PICK g \in Trigrams(Normalize(line[i][2])) : x = <<g, n>>
    BY <2>1
  <2>3. Len(g) = 3
    <3>1. PICK j \in 1..(Len(Normalize(line[i][2])) - 2) : g = SubSeq(Normalize(line[i][2]), j, j + 2)
      BY DEF Trigrams
    <3>2. line[i] \in STRING \X Seq(Chars)
      BY <1>3
    <3>3. Len(Normalize(line[i][2])) \in Nat
      BY <3>2, NormalFacts
    <3>4. j \in Nat
      BY <3>3
    <3> QED
      BY <3>1, <3>4, NoWildInRange
  <2> QED
    BY <2>2, <2>3
<1>7. TypeOK'
  <2> USE DEF GramsInv, TypeOK
  <2>1. \A x \in grams' : Len(x[1]) = 3 /\ x[2] \in Ids'
    BY <1>1, <1>5, <1>6
  <2>2. \A x \in masks' : x[2] \in Ids'
    BY <1>1, <1>5
  <2>3. Len(lines') = Len(docs') /\ Len(docs') <= MaxDocs
    BY <1>1, <1>2, <1>4, GramsAssumption
  <2>4. /\ request' \in Requests \cup {NoRequest} /\ limit' \in Limits \cup {0}
        /\ offset' \in Nat /\ page' \subseteq found' /\ found' \subseteq Ids'
    BY <1>1, <1>5
  <2> QED
    BY <2>1, <2>2, <2>3, <2>4
<1>8. IndexComplete'
  <2> SUFFICES ASSUME NEW k \in 1..(n + 1)
               PROVE  /\ docs'[k] = Stored(lines'[k])
                      /\ Indexed(lines'[k], k - 1) \subseteq grams'
                      /\ \A i \in DOMAIN lines'[k] : <<lines'[k][i][1], k - 1>> \in masks'
    BY <1>4 DEF IndexComplete
  <2>1. CASE k = n + 1
    <3>1. k - 1 = n
      BY <1>2, <2>1
    <3> QED
      BY <1>1, <1>4, <2>1, <3>1
  <2>2. CASE k # n + 1
    <3>1. k \in 1..n
      BY <1>2, <2>2
    <3> QED
      BY <1>1, <1>2, <1>4, <3>1 DEF IndexComplete, n
  <2> QED
    BY <2>1, <2>2
<1>9. SegmentInv'
  BY <1>4, <1>8 DEF SegmentInv
<1>10. SearchInv'
  <2>1. limit = 0 /\ offset = 0 /\ page = {} /\ found = {}
    BY <1>1, <1>2 DEF SearchInv
  <2> QED
    BY <1>1, <2>1 DEF SearchInv, ByBroker, ByCli
<1> QED
  BY <1>7, <1>9, <1>10 DEF GramsInv

\* Over the same segment the same searches find the same.
LEMMA SearchKeepsInv ==
  ASSUME GramsInv, NEW r \in Requests, Search(r)
  PROVE  GramsInv'
<1>1. /\ request = NoRequest /\ request' = r /\ found' = SegmentHits(r)
      /\ limit' = limit /\ offset' = offset /\ page' = page /\ UNCHANGED segment
  BY DEF Search
<1>2. limit = 0 /\ offset = 0 /\ page = {}
  BY <1>1 DEF GramsInv, SearchInv
<1>3. /\ lines' = lines /\ docs' = docs /\ grams' = grams /\ masks' = masks
  BY <1>1 DEF segment
<1>4. SegmentInv' /\ Ids' = Ids
  BY <1>1, SegmentUnchanged
<1>5. TypeOK'
  BY <1>1, <1>2, <1>4, SegmentUnchanged, HitsAreIds DEF GramsInv, TypeOK
<1>6. (SegmentHits(request))' = SegmentHits(r)
  BY <1>1, <1>3 DEF SegmentHits, Prefilter, Ids
<1>7. SearchInv'
  <2>1. request' # NoRequest /\ limit' = 0
    BY <1>1, <1>2, GramsAssumption
  <2> QED
    BY <1>1, <1>6, <2>1 DEF SearchInv, ByCli
<1> QED
  BY <1>4, <1>5, <1>7 DEF GramsInv

\* What holds of the page just asked for is what holds of the command line.
LEMMA PageKeepsInv ==
  ASSUME GramsInv, NEW r \in Requests, NEW lim \in Limits, NEW off \in Nat,
         UNCHANGED segment, request' = r, limit' = lim, offset' = off,
         page' = CliPage(r, lim, off), page' \subseteq found', found' \subseteq Ids,
         Required(r.wildcard) # {} => Passed(r, off) \subseteq found'
  PROVE  GramsInv'
<1>1. /\ lines' = lines /\ docs' = docs /\ grams' = grams /\ masks' = masks
  BY DEF segment
<1>2. SegmentInv' /\ Ids' = Ids
  BY SegmentUnchanged
<1>3. TypeOK'
  BY <1>2, SegmentUnchanged DEF TypeOK
<1>4. request' # NoRequest /\ lim > 0
  BY GramsAssumption
<1>5. (CliPage(request, limit, offset))' = CliPage(r, lim, off)
  BY <1>1 DEF CliPage, Prefilter, Ids
<1>6. (Passed(request, offset))' = Passed(r, off)
  BY <1>1 DEF Passed, Prefilter, Ids
<1>7. SearchInv'
  <2>1. ~ ByBroker' /\ request' \in Requests
    BY <1>4 DEF ByBroker
  <2> QED
    BY <1>4, <1>5, <1>6, <2>1 DEF SearchInv
<1> QED
  BY <1>2, <1>3, <1>7 DEF GramsInv

LEMMA CliKeepsInv ==
  ASSUME GramsInv, NEW r \in Requests, NEW lim \in Limits, Cli(r, lim)
  PROVE  GramsInv'
<1>1. /\ request = NoRequest /\ request' = r /\ limit' = lim /\ offset' = offset
      /\ page' = CliPage(r, lim, 0) /\ found' = page' /\ UNCHANGED segment
  BY DEF Cli
<1>2. offset = 0 /\ SegmentInv /\ lim \in Nat
  BY <1>1, GramsAssumption DEF GramsInv, SearchInv
<1>3. CliPage(r, lim, 0) \subseteq Ids
  BY <1>2, PageFacts
<1>4. Passed(r, 0) = {}
  <2> SUFFICES ASSUME NEW d \in Prefilter(r), Upto(Prefilter(r), d) <= 0 PROVE FALSE
    BY DEF Passed
  <2> DEFINE C == Prefilter(r)
  <2>1. C \in SUBSET Nat /\ IsFiniteSet(C) /\ d \in C /\ Upto(C, d) <= 0
    BY <1>2, Candidates
  <2> HIDE DEF C
  <2>2. Upto(C, d) = Upto(C, d - 1) + 1 /\ Upto(C, d - 1) \in Nat
    BY <2>1, UptoStep, UptoFacts
  <2> QED
    BY <2>1, <2>2
<1> QED
  BY <1>1, <1>2, <1>3, <1>4, PageKeepsInv

LEMMA CliNextKeepsInv ==
  ASSUME GramsInv, CliNext
  PROVE  GramsInv'
<1>1. /\ limit > 0 /\ offset' = offset + limit /\ page' = CliPage(request, limit, offset')
      /\ found' = found \cup page' /\ UNCHANGED segment /\ request' = request /\ limit' = limit
  BY DEF CliNext
<1>2. /\ request \in Requests /\ limit \in Limits /\ limit \in Nat /\ offset \in Nat
      /\ found \subseteq Ids /\ SegmentInv
  BY <1>1, GramsAssumption DEF GramsInv, TypeOK, SearchInv, ByCli
<1>3. /\ page = CliPage(request, limit, offset) /\ page \subseteq found
      /\ Required(request.wildcard) # {} => Passed(request, offset) \subseteq found
  BY <1>1 DEF GramsInv, TypeOK, SearchInv, ByCli
<1> DEFINE off == offset + limit
<1>4. off \in Nat /\ offset' = off /\ page' = CliPage(request, limit, off)
  BY <1>1, <1>2
<1>5. /\ CliPage(request, limit, off) \subseteq Ids
      /\ Required(request.wildcard) # {} =>
           Passed(request, off) \subseteq Passed(request, offset) \cup CliPage(request, limit, offset)
  <2>1. CliPage(request, limit, off) \subseteq Ids
    BY <1>2, <1>4, PageFacts
  <2> QED
    BY <1>2, <2>1, PageFacts
<1> HIDE DEF off
<1>6. Required(request.wildcard) # {} => Passed(request, off) \subseteq found'
  BY <1>1, <1>3, <1>5
<1>7. found' \subseteq Ids /\ page' \subseteq found'
  BY <1>1, <1>2, <1>4, <1>5
<1>8. PICK r \in Requests, lim \in Limits, o \in Nat : r = request /\ lim = limit /\ o = off
  BY <1>2, <1>4
<1> QED
  BY <1>1, <1>4, <1>6, <1>7, <1>8, PageKeepsInv

LEMMA StepKeepsInv == GramsInv /\ [Next]_vars => GramsInv'
<1> SUFFICES ASSUME GramsInv, [Next]_vars PROVE GramsInv'
  OBVIOUS
<1>1. ASSUME NEW line \in Lines, WriteDoc(line) PROVE GramsInv'
  BY <1>1, WriteDocKeepsInv
<1>2. ASSUME NEW r \in Requests, Search(r) PROVE GramsInv'
  BY <1>2, SearchKeepsInv
<1>3. ASSUME NEW r \in Requests, NEW lim \in Limits, Cli(r, lim) PROVE GramsInv'
  BY <1>3, CliKeepsInv
<1>4. CASE CliNext
  BY <1>4, CliNextKeepsInv
<1>5. CASE UNCHANGED vars
  <2>1. /\ UNCHANGED segment /\ request' = request /\ limit' = limit /\ offset' = offset
        /\ page' = page /\ found' = found
    BY <1>5 DEF vars
  <2>2. lines' = lines /\ docs' = docs /\ grams' = grams /\ masks' = masks
    BY <2>1 DEF segment
  <2>3. SegmentInv' /\ Ids' = Ids
    BY <2>1, SegmentUnchanged
  <2>4. TypeOK'
    BY <2>1, <2>3, SegmentUnchanged DEF GramsInv, TypeOK
  <2>5. /\ (SegmentHits(request))' = SegmentHits(request)
        /\ (CliPage(request, limit, offset))' = CliPage(request, limit, offset)
        /\ (Passed(request, offset))' = Passed(request, offset)
    BY <2>1, <2>2 DEF SegmentHits, CliPage, Passed, Prefilter, Ids
  <2>6. SearchInv'
    BY <2>1, <2>5 DEF GramsInv, SearchInv, ByBroker, ByCli
  <2> QED
    BY <2>3, <2>4, <2>6 DEF GramsInv
<1> QED
  BY <1>1, <1>2, <1>3, <1>4, <1>5 DEF Next

LEMMA InvHolds == Spec => []GramsInv
BY InitInv, StepKeepsInv, PTL DEF Spec
-----------------------------------------------------------------------------
(* Marks *)

Shown == Chars \cup Marks

LEMMA WithEmpty == \A T : \A a \in Seq(T) : a \o << >> = a /\ << >> \o a = a
BY ConcatEmptySeq

\* Joining the sequences of two sequences, one after the other.
LEMMA FlattenConcat ==
  ASSUME NEW T, NEW s \in Seq(Seq(T)), NEW u \in Seq(Seq(T))
  PROVE  /\ FlattenSeq(s) \in Seq(T) /\ FlattenSeq(u) \in Seq(T)
         /\ FlattenSeq(s \o u) = FlattenSeq(s) \o FlattenSeq(u)
<1> DEFINE n == Len(s)
           m == Len(u)
           w == s \o u
<1>1. /\ n \in Nat /\ m \in Nat /\ w \in Seq(Seq(T)) /\ Len(w) = n + m
      /\ \A k \in 1..n : w[k] = s[k]
      /\ \A k \in 1..m : w[n + k] = u[k] /\ u[k] \in Seq(T)
  OBVIOUS
<1>2. PICK f : Joins(f, s, T) /\ FlattenSeq(s) = f[n]
  BY FlattenFacts
<1>3. PICK g : Joins(g, u, T) /\ FlattenSeq(u) = g[m]
  BY FlattenFacts
<1>4. PICK h : Joins(h, w, T) /\ FlattenSeq(w) = h[n + m]
  BY <1>1, FlattenFacts
<1>5. /\ f[0] = << >> /\ f[n] \in Seq(T) /\ \A k \in 1..n : f[k] = f[k - 1] \o s[k]
      /\ g[0] = << >> /\ \A k \in 1..m : g[k] = g[k - 1] \o u[k]
      /\ \A k \in 0..m : g[k] \in Seq(T)
  <2>1. /\ f[0] = << >> /\ f \in [0..n -> Seq(T)] /\ \A k \in 1..n : f[k] = f[k - 1] \o s[k]
    BY <1>2 DEF Joins
  <2>2. /\ g[0] = << >> /\ g \in [0..m -> Seq(T)] /\ \A k \in 1..m : g[k] = g[k - 1] \o u[k]
    BY <1>3 DEF Joins
  <2>3. n \in 0..n
    BY <1>1
  <2> HIDE DEF n, m, w
  <2> QED
    BY <2>1, <2>2, <2>3
<1>6. h[0] = << >> /\ \A k \in 1..(n + m) : h[k] = h[k - 1] \o w[k]
  BY <1>1, <1>4 DEF Joins
<1> HIDE DEF n, m, w
<1> DEFINE A == {k \in 0..n : h[k] = f[k]}
           B == {k \in 0..m : h[n + k] = f[n] \o g[k]}
<1>7. n \in A
  <2>1. 0 \in A
    BY <1>1, <1>5, <1>6
  <2>2. ASSUME NEW k \in 0..(n - 1), k \in A PROVE k + 1 \in A
    <3>1. k + 1 \in 1..n /\ k + 1 \in 1..(n + m) /\ k + 1 \in 0..n /\ (k + 1) - 1 = k
      BY <1>1
    <3>2. h[k + 1] = h[(k + 1) - 1] \o w[k + 1] /\ f[k + 1] = f[(k + 1) - 1] \o s[k + 1]
      BY <1>5, <1>6, <3>1
    <3> QED
      BY <1>1, <2>2, <3>1, <3>2
  <2>3. 0..n \subseteq A
    <3> HIDE DEF A
    <3> QED
      BY <1>1, <2>1, <2>2, InductionUpTo
  <2> QED
    BY <1>1, <2>3
<1>8. m \in B
  <2>1. 0 \in B
    <3>1. n + 0 = n /\ 0 \in 0..m
      BY <1>1
    <3>2. f[n] \o g[0] = f[n] /\ h[n] = f[n]
      BY <1>5, <1>7, WithEmpty
    <3> QED
      BY <3>1, <3>2
  <2>2. ASSUME NEW k \in 0..(m - 1), k \in B PROVE k + 1 \in B
    <3> DEFINE x == n + (k + 1)
    <3>1. /\ k + 1 \in 1..m /\ x \in 1..(n + m) /\ k + 1 \in 0..m /\ k \in 0..m
          /\ (k + 1) - 1 = k /\ x - 1 = n + k
      BY <1>1
    <3>2. w[x] = u[k + 1] /\ u[k + 1] \in Seq(T)
      BY <1>1, <3>1
    <3> HIDE DEF x
    <3>3. h[x] = h[x - 1] \o w[x]
      BY <1>6, <3>1
    <3>4. h[x] = (f[n] \o g[k]) \o u[k + 1]
      BY <2>2, <3>1, <3>2, <3>3
    <3>5. g[k + 1] = g[(k + 1) - 1] \o u[k + 1]
      BY <1>5, <3>1
    <3>6. g[k] \in Seq(T)
      BY <1>5, <3>1
    <3>7. (f[n] \o g[k]) \o u[k + 1] = f[n] \o (g[k] \o u[k + 1])
      <4> DEFINE a1 == f[n]
                 b1 == g[k]
                 c1 == u[k + 1]
      <4>1. a1 \in Seq(T) /\ b1 \in Seq(T) /\ c1 \in Seq(T)
        BY <1>5, <3>2, <3>6
      <4> HIDE DEF a1, b1, c1
      <4>2. (a1 \o b1) \o c1 = a1 \o (b1 \o c1)
        BY <4>1, ConcatAssociative, SMTT(60)
      <4> QED
        BY <4>2 DEF a1, b1, c1
    <3> QED
      BY <3>1, <3>4, <3>5, <3>7 DEF x
  <2>3. 0..m \subseteq B
    <3> HIDE DEF B
    <3> QED
      BY <1>1, <2>1, <2>2, InductionUpTo
  <2> QED
    <3> HIDE DEF B
    <3>1. m \in 0..m
      BY <1>1
    <3> QED
      BY <2>3, <3>1
<1>9. g[m] \in Seq(T)
  BY <1>1, <1>5
<1> QED
  BY <1>2, <1>3, <1>4, <1>5, <1>7, <1>8, <1>9 DEF w

\* One after the other, what is not a mark.
Bare(p) == [i \in DOMAIN p |-> IF p[i] \in Marks THEN << >> ELSE <<p[i]>>]

LEMMA BareFacts ==
  ASSUME NEW p \in Seq(Shown)
  PROVE  /\ Bare(p) \in Seq(Seq(Chars)) /\ Len(Bare(p)) = Len(p)
         /\ \A i \in 1..Len(p) : Bare(p)[i] = IF p[i] \in Marks THEN << >> ELSE <<p[i]>>
         /\ Unmarked(p) = FlattenSeq(Bare(p))
<1>1. \A i \in DOMAIN p : p[i] \in Chars \/ p[i] \in Marks
  BY DEF Shown
<1>2. \A c \in Chars : <<c>> \in Seq(Chars)
  OBVIOUS
<1>3. \A i \in DOMAIN p : (IF p[i] \in Marks THEN << >> ELSE <<p[i]>>) \in Seq(Chars)
  BY <1>1, <1>2
<1>4. Len(p) \in Nat /\ DOMAIN p = 1..Len(p)
  OBVIOUS
<1> HIDE DEF Marks
<1>5. Bare(p) \in Seq(Seq(Chars)) /\ Len(Bare(p)) = Len(p)
  BY <1>3, <1>4 DEF Bare
<1> QED
  BY <1>4, <1>5 DEF Bare, Unmarked

\* Two parts of a line are read one after the other.
LEMMA UnmarkedConcat ==
  ASSUME NEW a \in Seq(Shown), NEW b \in Seq(Shown)
  PROVE  /\ a \o b \in Seq(Shown) /\ Unmarked(a) \in Seq(Chars) /\ Unmarked(b) \in Seq(Chars)
         /\ Unmarked(a \o b) = Unmarked(a) \o Unmarked(b)
<1>1. a \o b \in Seq(Shown) /\ Len(a \o b) = Len(a) + Len(b)
  OBVIOUS
<1>2. /\ Bare(a) \in Seq(Seq(Chars)) /\ Bare(b) \in Seq(Seq(Chars))
      /\ Unmarked(a) = FlattenSeq(Bare(a)) /\ Unmarked(b) = FlattenSeq(Bare(b))
      /\ Unmarked(a \o b) = FlattenSeq(Bare(a \o b))
  BY <1>1, BareFacts
<1>3. Bare(a \o b) = Bare(a) \o Bare(b)
  <2>1. /\ Bare(a \o b) \in Seq(Seq(Chars)) /\ Len(Bare(a \o b)) = Len(a) + Len(b)
        /\ \A i \in 1..(Len(a) + Len(b)) : Bare(a \o b)[i] =
             IF (a \o b)[i] \in Marks THEN << >> ELSE <<(a \o b)[i]>>
    BY <1>1, BareFacts
  <2>2. /\ Len(Bare(a)) = Len(a) /\ Len(Bare(b)) = Len(b)
        /\ \A i \in 1..Len(a) : Bare(a)[i] = IF a[i] \in Marks THEN << >> ELSE <<a[i]>>
        /\ \A i \in 1..Len(b) : Bare(b)[i] = IF b[i] \in Marks THEN << >> ELSE <<b[i]>>
    BY BareFacts
  <2> DEFINE v == Bare(a \o b)
             w == Bare(a) \o Bare(b)
  <2>3. /\ w \in Seq(Seq(Chars)) /\ Len(w) = Len(a) + Len(b)
        /\ \A i \in 1..(Len(a) + Len(b)) :
             w[i] = IF i <= Len(a) THEN Bare(a)[i] ELSE Bare(b)[i - Len(a)]
    <3> DEFINE x == Bare(a)
               y == Bare(b)
    <3>1. x \in Seq(Seq(Chars)) /\ y \in Seq(Seq(Chars)) /\ Len(x) = Len(a) /\ Len(y) = Len(b)
      BY <1>2, <2>2
    <3> HIDE DEF x, y
    <3>2. /\ x \o y \in Seq(Seq(Chars)) /\ Len(x \o y) = Len(x) + Len(y)
          /\ \A i \in 1..(Len(x) + Len(y)) :
               (x \o y)[i] = IF i <= Len(x) THEN x[i] ELSE y[i - Len(x)]
      BY <3>1, ConcatProperties
    <3> QED
      BY <3>1, <3>2 DEF x, y
  <2>4. \A i \in 1..(Len(a) + Len(b)) :
          (a \o b)[i] = IF i <= Len(a) THEN a[i] ELSE b[i - Len(a)]
    BY ConcatProperties
  <2>5. Len(a) \in Nat /\ Len(b) \in Nat
    OBVIOUS
  <2>6. \A i \in 1..(Len(a) + Len(b)) : v[i] = w[i]
    <3> TAKE i \in 1..(Len(a) + Len(b))
    <3>1. CASE i <= Len(a)
      <4>1. i \in 1..Len(a)
        BY <2>5, <3>1
      <4> QED
        BY <2>1, <2>2, <2>3, <2>4, <3>1, <4>1
    <3>2. CASE ~ (i <= Len(a))
      <4>1. i - Len(a) \in 1..Len(b)
        BY <2>5, <3>2
      <4> QED
        BY <2>1, <2>2, <2>3, <2>4, <3>2, <4>1
    <3> QED
      BY <3>1, <3>2
  <2> HIDE DEF v, w
  <2>7. v = w
    BY <2>1, <2>3, <2>6, SeqEqual DEF v
  <2> QED
    BY <2>7 DEF v, w
<1>4. FlattenSeq(Bare(a) \o Bare(b)) = FlattenSeq(Bare(a)) \o FlattenSeq(Bare(b))
      /\ FlattenSeq(Bare(a)) \in Seq(Chars) /\ FlattenSeq(Bare(b)) \in Seq(Chars)
  <2> DEFINE x == Bare(a)
             y == Bare(b)
  <2>1. x \in Seq(Seq(Chars)) /\ y \in Seq(Seq(Chars))
    BY <1>2
  <2> HIDE DEF x, y
  <2>2. /\ FlattenSeq(x) \in Seq(Chars) /\ FlattenSeq(y) \in Seq(Chars)
        /\ FlattenSeq(x \o y) = FlattenSeq(x) \o FlattenSeq(y)
    BY <2>1, FlattenConcat
  <2> QED
    BY <2>2 DEF x, y
<1> QED
  BY <1>1, <1>2, <1>3, <1>4

\* A text is read as it is, and a mark is not read.
LEMMA UnmarkedText ==
  ASSUME NEW t \in Seq(Chars)
  PROVE  t \in Seq(Shown) /\ Unmarked(t) = t
<1> DEFINE n == Len(t)
<1>1. n \in Nat /\ t \in Seq(Shown) /\ \A i \in 1..n : t[i] \in Chars /\ t[i] \notin Marks
  BY PreviewAssumption DEF Shown
<1>2. PICK f : Joins(f, Bare(t), Chars) /\ Unmarked(t) = f[n]
  BY <1>1, BareFacts, FlattenFacts
<1>3. f[0] = << >> /\ \A k \in 1..n : f[k] = f[k - 1] \o <<t[k]>>
  BY <1>1, <1>2, BareFacts DEF Joins
<1> HIDE DEF n
<1> DEFINE S == {k \in 0..n : f[k] = SubSeq(t, 1, k)}
<1>4. 0 \in S
  <2>1. SubSeq(t, 1, 0) = << >>
    BY SubSeqEmpty
  <2>2. 0 \in 0..n /\ f[0] = << >>
    BY <1>1, <1>3
  <2>3. f[0] = SubSeq(t, 1, 0)
    BY <2>1, <2>2, Zenon
  <2> QED
    BY <2>2, <2>3
<1>5. ASSUME NEW k \in 0..(n - 1), k \in S PROVE k + 1 \in S
  <2>1. k + 1 \in 1..n /\ k + 1 \in 0..n /\ (k + 1) - 1 = k /\ 1 \in 1..n
    BY <1>1
  <2>2. f[k + 1] = SubSeq(t, 1, k) \o <<t[k + 1]>>
    <3>1. f[k + 1] = f[(k + 1) - 1] \o <<t[k + 1]>>
      BY <1>3, <2>1
    <3> QED
      BY <1>5, <2>1, <3>1
  <2>3. SubSeq(t, 1, k + 1) = SubSeq(t, 1, (k + 1) - 1) \o <<t[k + 1]>>
    <3> DEFINE x == k + 1
    <3>1. x \in 1..Len(t) /\ 1 \in 1..Len(t) /\ x \in 1..Len(t)
      BY <2>1 DEF n
    <3> HIDE DEF x
    <3>2. SubSeq(t, 1, x) = SubSeq(t, 1, x - 1) \o <<t[x]>>
      BY <3>1, SubSeqRecursiveSecond
    <3> QED
      BY <3>2 DEF x
  <2> QED
    BY <2>1, <2>2, <2>3
<1>6. 0..n \subseteq S
  <2> HIDE DEF S
  <2> QED
    BY <1>1, <1>4, <1>5, InductionUpTo
<1>7. f[n] = SubSeq(t, 1, n)
  BY <1>1, <1>6
<1>8. SubSeq(t, 1, n) = t
  BY SubSeqFull DEF n
<1> QED
  BY <1>1, <1>2, <1>7, <1>8

LEMMA UnmarkedMark ==
  ASSUME NEW c \in Marks
  PROVE  <<c>> \in Seq(Shown) /\ Unmarked(<<c>>) = << >>
<1>1. <<c>> \in Seq(Shown) /\ Len(<<c>>) = 1 /\ <<c>>[1] = c
  BY DEF Shown
<1>2. /\ Bare(<<c>>) \in Seq(Seq(Chars)) /\ Len(Bare(<<c>>)) = 1 /\ Bare(<<c>>)[1] = << >>
      /\ Unmarked(<<c>>) = FlattenSeq(Bare(<<c>>))
  <2> HIDE DEF Marks
  <2>1. 1 \in 1..Len(<<c>>)
    BY <1>1
  <2> QED
    BY <1>1, <2>1, BareFacts
<1>3. PICK f : Joins(f, Bare(<<c>>), Chars) /\ FlattenSeq(Bare(<<c>>)) = f[1]
  <2> DEFINE x == Bare(<<c>>)
  <2>1. x \in Seq(Seq(Chars)) /\ Len(x) = 1
    BY <1>2
  <2> HIDE DEF x
  <2>2. \E f : Joins(f, x, Chars) /\ FlattenSeq(x) = f[Len(x)]
    BY <2>1, FlattenFacts
  <2> QED
    BY <2>1, <2>2 DEF x
<1>4. f[0] = << >> /\ f[1] = f[0] \o << >>
  <2> DEFINE x == Bare(<<c>>)
  <2>1. f[0] = << >> /\ \A k \in 1..Len(x) : f[k] = f[k - 1] \o x[k]
    BY <1>3 DEF Joins
  <2>2. Len(x) = 1 /\ x[1] = << >> /\ 1 \in 1..Len(x)
    BY <1>2
  <2> HIDE DEF x
  <2>3. f[1] = f[1 - 1] \o << >>
    BY <2>1, <2>2
  <2> QED
    BY <2>1, <2>3
<1> QED
  BY <1>1, <1>2, <1>3, <1>4
-----------------------------------------------------------------------------
(* A line *)

Ellipses == {<< >>, <<Dots>>}

Line(d, a, m, b, e) == d \o a \o <<Open>> \o m \o <<Close>> \o b \o e

\* shown has m between brackets that stand at x and after it.
EnclosedAt(shown, m, x) ==
  /\ x \in Nat \ {0} /\ x + Len(m) + 1 <= Len(shown)
  /\ shown[x] = Open /\ shown[x + Len(m) + 1] = Close
  /\ \A i \in 1..Len(m) : shown[x + i] = m[i]

LEMMA EllipsisFacts ==
  ASSUME NEW d \in Ellipses
  PROVE  /\ d \in Seq(Shown) /\ Unmarked(d) = << >> /\ Len(d) \in 0..1
         /\ d # << >> => Len(d) = 1 /\ d[1] = Dots
<1>1. <<Dots>> \in Seq(Shown) /\ Unmarked(<<Dots>>) = << >>
  BY UnmarkedMark DEF Marks
<1>2. << >> \in Seq(Chars)
  OBVIOUS
<1>3. << >> \in Seq(Shown) /\ Unmarked(<< >>) = << >>
  BY <1>2, UnmarkedText
<1>4. Len(<<Dots>>) = 1 /\ <<Dots>>[1] = Dots /\ Len(<< >>) = 0
  OBVIOUS
<1>5. d = << >> \/ d = <<Dots>>
  BY DEF Ellipses
<1>6. CASE d = << >>
  BY <1>3, <1>4, <1>6
<1>7. CASE d = <<Dots>>
  BY <1>1, <1>4, <1>7
<1> QED
  BY <1>5, <1>6, <1>7

LEMMA LineFacts ==
  ASSUME NEW d \in Ellipses, NEW e \in Ellipses,
         NEW a \in Seq(Chars), NEW m \in Seq(Chars), NEW b \in Seq(Chars)
  PROVE  LET l == Line(d, a, m, b, e)
         IN  /\ l \in Seq(Shown) /\ Unmarked(l) = (a \o m) \o b
             /\ Len(l) = Len(d) + Len(a) + Len(m) + Len(b) + Len(e) + 2
             /\ EnclosedAt(l, m, Len(d) + Len(a) + 1)
             /\ Dots \notin Range(l) => d = << >> /\ e = << >>
<1> DEFINE l1 == d \o a
           l2 == l1 \o <<Open>>
           l3 == l2 \o m
           l4 == l3 \o <<Close>>
           l5 == l4 \o b
           l6 == l5 \o e
<1>0. Line(d, a, m, b, e) = l6
  BY DEF Line
<1>1. /\ d \in Seq(Shown) /\ e \in Seq(Shown) /\ Unmarked(d) = << >> /\ Unmarked(e) = << >>
      /\ Len(d) \in Nat /\ Len(e) \in Nat
  BY EllipsisFacts
<1>2. /\ a \in Seq(Shown) /\ m \in Seq(Shown) /\ b \in Seq(Shown)
      /\ Unmarked(a) = a /\ Unmarked(m) = m /\ Unmarked(b) = b
      /\ Len(a) \in Nat /\ Len(m) \in Nat /\ Len(b) \in Nat
  BY UnmarkedText
<1>3. /\ <<Open>> \in Seq(Shown) /\ Unmarked(<<Open>>) = << >>
      /\ <<Close>> \in Seq(Shown) /\ Unmarked(<<Close>>) = << >>
  BY UnmarkedMark DEF Marks
<1>4. Len(<<Open>>) = 1 /\ <<Open>>[1] = Open /\ Len(<<Close>>) = 1 /\ <<Close>>[1] = Close
  OBVIOUS
<1>5. /\ l1 \in Seq(Shown) /\ Unmarked(l1) = a /\ Glued(l1, d, a)
  <2>1. << >> \o a = a
    BY WithEmpty
  <2> QED
    BY <1>1, <1>2, <2>1, UnmarkedConcat, Concat
<1> HIDE DEF l1
<1>6. /\ l2 \in Seq(Shown) /\ Unmarked(l2) = a /\ Glued(l2, l1, <<Open>>)
  <2>1. a \o << >> = a
    BY WithEmpty
  <2> QED
    BY <1>3, <1>5, <2>1, UnmarkedConcat, Concat
<1> HIDE DEF l2
<1>7. /\ l3 \in Seq(Shown) /\ Unmarked(l3) = a \o m /\ Glued(l3, l2, m)
  <2>1. l3 \in Seq(Shown) /\ Unmarked(l3) = Unmarked(l2) \o Unmarked(m)
    BY <1>2, <1>6, UnmarkedConcat
  <2>2. Glued(l3, l2, m)
    BY <1>2, <1>6, Concat
  <2> QED
    BY <1>2, <1>6, <2>1, <2>2
<1> HIDE DEF l3
<1>8. /\ l4 \in Seq(Shown) /\ Unmarked(l4) = a \o m /\ Glued(l4, l3, <<Close>>)
  <2>1. (a \o m) \o << >> = a \o m /\ a \o m \in Seq(Chars)
    OBVIOUS
  <2> QED
    BY <1>3, <1>7, <2>1, UnmarkedConcat, Concat
<1> HIDE DEF l4
<1>9. /\ l5 \in Seq(Shown) /\ Unmarked(l5) = (a \o m) \o b /\ Glued(l5, l4, b)
  <2>1. l5 \in Seq(Shown) /\ Unmarked(l5) = Unmarked(l4) \o Unmarked(b)
    BY <1>2, <1>8, UnmarkedConcat
  <2>2. Glued(l5, l4, b)
    BY <1>2, <1>8, Concat
  <2> QED
    BY <1>2, <1>8, <2>1, <2>2
<1> HIDE DEF l5
<1>10. /\ l6 \in Seq(Shown) /\ Unmarked(l6) = (a \o m) \o b /\ Glued(l6, l5, e)
  <2>1. ((a \o m) \o b) \o << >> = (a \o m) \o b
    OBVIOUS
  <2> QED
    BY <1>1, <1>9, <2>1, UnmarkedConcat, Concat
<1> HIDE DEF l6
<1> DEFINE x == Len(d) + Len(a) + 1
           lm == Len(m)
           lb == Len(b)
           le == Len(e)
<1>11. /\ Len(l2) = x /\ Len(l3) = x + lm /\ Len(l4) = x + lm + 1
       /\ Len(l5) = x + lm + 1 + lb /\ Len(l6) = x + lm + 1 + lb + le
       /\ x \in Nat /\ x > 0 /\ lm \in Nat /\ lb \in Nat /\ le \in Nat
       /\ Len(l1) \in Nat /\ x = Len(l1) + 1
  <2>1. Len(l1) = Len(d) + Len(a) /\ Len(d) \in Nat /\ Len(a) \in Nat
    BY <1>5 DEF Glued
  <2>2. /\ Len(l2) = Len(l1) + 1 /\ Len(l3) = Len(l2) + lm /\ Len(l4) = Len(l3) + 1
        /\ Len(l5) = Len(l4) + lb /\ Len(l6) = Len(l5) + le
    BY <1>4, <1>6, <1>7, <1>8, <1>9, <1>10 DEF Glued
  <2> QED
    BY <1>1, <1>2, <2>1, <2>2
\* A place of an earlier part is the same place in the line.
<1>12. /\ \A i \in 1..Len(l5) : l6[i] = l5[i]
       /\ \A i \in 1..Len(l4) : l5[i] = l4[i]
       /\ \A i \in 1..Len(l3) : l4[i] = l3[i]
       /\ \A i \in 1..Len(l2) : l3[i] = l2[i]
       /\ \A i \in 1..Len(l1) : l2[i] = l1[i]
       /\ \A i \in 1..Len(d) : l1[i] = d[i]
  BY <1>5, <1>6, <1>7, <1>8, <1>9, <1>10 DEF Glued
<1>a. /\ l2[Len(l1) + 1] = Open /\ l4[Len(l3) + 1] = Close
      /\ \A i \in 1..lm : l3[Len(l2) + i] = m[i]
      /\ \A i \in 1..le : l6[Len(l5) + i] = e[i]
  <2>1. 1 \in 1..Len(<<Open>>) /\ 1 \in 1..Len(<<Close>>)
    BY <1>4
  <2>2. l2[Len(l1) + 1] = Open
    BY <1>4, <1>6, <2>1 DEF Glued
  <2>3. l4[Len(l3) + 1] = Close
    BY <1>4, <1>8, <2>1 DEF Glued
  <2>4. /\ \A i \in 1..lm : l3[Len(l2) + i] = m[i]
        /\ \A i \in 1..le : l6[Len(l5) + i] = e[i]
    BY <1>7, <1>10 DEF Glued
  <2> QED
    BY <2>2, <2>3, <2>4
<1>13. EnclosedAt(l6, m, x)
  <2> HIDE DEF x, lb, le
  <2>1. /\ x \in 1..Len(l2) /\ x \in 1..Len(l3) /\ x \in 1..Len(l4) /\ x \in 1..Len(l5)
        /\ x + lm + 1 \in 1..Len(l4) /\ x + lm + 1 \in 1..Len(l5)
    BY <1>11
  <2>2. l6[x] = Open
    BY <1>11, <1>12, <1>a, <2>1
  <2>3. l6[x + lm + 1] = Close
    <3>1. Len(l3) + 1 = x + lm + 1
      BY <1>11
    <3> QED
      BY <1>12, <1>a, <2>1, <3>1
  <2>4. \A i \in 1..lm : l6[x + i] = m[i]
    <3> TAKE i \in 1..lm
    <3>1. x + i \in 1..Len(l3) /\ x + i \in 1..Len(l4) /\ x + i \in 1..Len(l5)
      BY <1>11
    <3> QED
      BY <1>11, <1>12, <1>a, <3>1
  <2> QED
    BY <1>11, <2>2, <2>3, <2>4 DEF EnclosedAt
<1>14. ASSUME Dots \notin Range(l6) PROVE d = << >> /\ e = << >>
  <2>0. DOMAIN l6 = 1..Len(l6)
    BY <1>10
  <2>1. \A i \in 1..Len(l6) : l6[i] # Dots
    BY <1>14, <2>0 DEF Range
  <2>2. CASE d # << >>
    <3>1. Len(d) = 1 /\ d[1] = Dots
      BY <2>2, EllipsisFacts
    <3>2. /\ 1 \in 1..Len(d) /\ 1 \in 1..Len(l1) /\ 1 \in 1..Len(l2) /\ 1 \in 1..Len(l3)
          /\ 1 \in 1..Len(l4) /\ 1 \in 1..Len(l5) /\ 1 \in 1..Len(l6)
      <4> HIDE DEF lm, lb, le
      <4> QED
        BY <1>2, <1>11, <3>1
    <3> QED
      BY <1>12, <2>1, <3>1, <3>2
  <2>3. CASE e # << >>
    <3>1. le = 1 /\ e[1] = Dots
      BY <2>3, EllipsisFacts
    <3>2. 1 \in 1..le /\ Len(l5) + 1 \in 1..Len(l6)
      <4> HIDE DEF x, lm, lb, le
      <4> QED
        BY <1>11, <3>1
    <3>3. l6[Len(l5) + 1] = Dots
      BY <1>a, <3>1, <3>2
    <3> QED
      BY <2>1, <3>2, <3>3
  <2> QED
    BY <2>2, <2>3
<1>15. Len(l6) = Len(d) + Len(a) + Len(m) + Len(b) + Len(e) + 2
  BY <1>1, <1>2, <1>11
<1> QED
  BY <1>0, <1>10, <1>13, <1>14, <1>15

\* What is cut off a line is cut off its end.
LEMMA CutFacts ==
  ASSUME NEW l \in Seq(Shown), NEW k \in Nat
  PROVE  /\ Cut(l, k) \in Seq(Shown) /\ Len(Cut(l, k)) <= k + 1
         /\ \A i \in 1..k : i <= Len(l) => i <= Len(Cut(l, k)) /\ Cut(l, k)[i] = l[i]
         /\ \E u \in Seq(Chars) : Unmarked(l) = Unmarked(Cut(l, k)) \o u
         /\ Unmarked(Cut(l, k)) \in Seq(Chars)
         /\ Dots \notin Range(Cut(l, k)) => Cut(l, k) = l
<1>0. Len(l) \in Nat /\ <<Dots>> \in Seq(Shown) /\ Unmarked(<<Dots>>) = << >> /\ Dots \in Shown
  BY UnmarkedMark DEF Marks, Shown
<1>1. CASE Len(l) <= k
  <2>1. Cut(l, k) = l
    BY <1>1 DEF Cut
  <2>2. Unmarked(l) \in Seq(Chars)
    BY <1>0, UnmarkedConcat
  <2>3. Unmarked(l) = Unmarked(l) \o << >> /\ << >> \in Seq(Chars)
    BY <2>2, WithEmpty
  <2>4. \E u \in Seq(Chars) : Unmarked(l) = Unmarked(l) \o u
    BY <2>3
  <2> HIDE DEF Cut
  <2> QED
    BY <1>0, <1>1, <2>1, <2>2, <2>4
<1>2. CASE ~ (Len(l) <= k)
  <2> DEFINE p == SubSeq(l, 1, k)
             r == SubSeq(l, k + 1, Len(l))
             c == Append(p, Dots)
  <2>1. Cut(l, k) = c
    BY <1>2 DEF Cut
  <2>2. p \in Seq(Shown) /\ Len(p) = k /\ \A i \in 1..k : p[i] = l[i]
    <3>1. \A i \in 1..k : l[i] \in Shown
      BY <1>0, <1>2
    <3>2. /\ p \in Seq(Shown) /\ Len(p) = IF 1 <= k THEN k - 1 + 1 ELSE 0
          /\ \A i \in 1..(k - 1 + 1) : p[i] = l[1 + i - 1]
      BY <3>1, SubSeqProperties
    <3>3. \A i \in 1..k : i \in 1..(k - 1 + 1) /\ 1 + i - 1 = i
      OBVIOUS
    <3> HIDE DEF p
    <3> QED
      BY <3>2, <3>3
  <2>3. r \in Seq(Shown)
    <3>1. \A i \in (k + 1)..Len(l) : l[i] \in Shown
      BY <1>0, <1>2
    <3> QED
      BY <1>0, <3>1, SubSeqProperties
  <2>4. p \o r = l
    <3>1. 1 \in 1..(Len(l) + 1) /\ k \in (1 - 1)..Len(l) /\ Len(l) \in k..Len(l)
      BY <1>0, <1>2
    <3>2. p \o r = SubSeq(l, 1, Len(l))
      BY <3>1, ConcatAdjacentSubSeq
    <3> QED
      BY <3>2, SubSeqFull
  <2> HIDE DEF p, r
  <2>5. c = p \o <<Dots>>
    BY <1>0, <2>2, AppendIsConcat
  <2>6. /\ c \in Seq(Shown) /\ Len(c) = k + 1 /\ c[k + 1] = Dots
        /\ \A i \in 1..k : c[i] = l[i]
    <3>1. /\ c \in Seq(Shown) /\ Len(c) = Len(p) + 1 /\ c[Len(p) + 1] = Dots
          /\ \A i \in 1..Len(p) : c[i] = p[i]
      BY <1>0, <2>2, AppendProperties
    <3> HIDE DEF c
    <3> QED
      BY <2>2, <3>1
  <2>7. Unmarked(c) = Unmarked(p) /\ Unmarked(p) \in Seq(Chars)
    <3> DEFINE dots == <<Dots>>
    <3>0. dots \in Seq(Shown) /\ Unmarked(dots) = << >>
      BY <1>0
    <3> HIDE DEF dots
    <3>a. /\ Unmarked(p) \in Seq(Chars)
          /\ Unmarked(p \o dots) = Unmarked(p) \o Unmarked(dots)
      BY <2>2, <3>0, UnmarkedConcat
    <3>1. /\ Unmarked(p) \in Seq(Chars)
          /\ Unmarked(p \o <<Dots>>) = Unmarked(p) \o << >>
      BY <3>0, <3>a DEF dots
    <3>2. Unmarked(p) \o << >> = Unmarked(p)
      BY <3>1, WithEmpty
    <3> QED
      BY <2>5, <3>1, <3>2
  <2>8. Unmarked(l) = Unmarked(c) \o Unmarked(r) /\ Unmarked(r) \in Seq(Chars)
    <3>1. Unmarked(p \o r) = Unmarked(p) \o Unmarked(r) /\ Unmarked(r) \in Seq(Chars)
      BY <2>2, <2>3, UnmarkedConcat
    <3> HIDE DEF c
    <3> QED
      BY <2>4, <2>7, <3>1
  <2>9. Dots \in Range(c)
    <3>1. k + 1 \in DOMAIN c
      BY <2>6
    <3> QED
      BY <2>6, <3>1 DEF Range
  <2> HIDE DEF c
  <2>a. \E u \in Seq(Chars) : Unmarked(l) = Unmarked(c) \o u
    BY <2>8
  <2>b. \A i \in 1..k : i <= Len(l) => i <= Len(c) /\ c[i] = l[i]
    BY <2>6
  <2>c. Len(c) <= k + 1
    BY <2>6
  <2> QED
    BY <2>1, <2>6, <2>7, <2>9, <2>a, <2>b, <2>c
<1> QED
  BY <1>1, <1>2
-----------------------------------------------------------------------------
(* Parts of a text *)

LEMMA SliceFacts ==
  ASSUME NEW t \in Seq(Chars), NEW a \in 0..Len(t), NEW b \in 0..Len(t), a <= b
  PROVE  LET s == Slice(t, <<a, b>>)
         IN  /\ s \in Seq(Chars) /\ Len(s) = b - a /\ s = SubSeq(t, a + 1, b)
             /\ \A i \in 1..(b - a) : s[i] = t[a + i]
             /\ IsPart(s, t)
<1> DEFINE s == SubSeq(t, a + 1, b)
<1>0. Slice(t, <<a, b>>) = s /\ Len(t) \in Nat
  BY DEF Slice
<1>1. \A i \in (a + 1)..b : t[i] \in Chars
  BY <1>0
<1>2. /\ s \in Seq(Chars) /\ Len(s) = IF a + 1 <= b THEN b - (a + 1) + 1 ELSE 0
      /\ \A i \in 1..(b - (a + 1) + 1) : s[i] = t[(a + 1) + i - 1]
  BY <1>0, <1>1, SubSeqProperties
<1> HIDE DEF s
<1>3. Len(s) = b - a /\ \A i \in 1..(b - a) : s[i] = t[a + i]
  <2>1. b - (a + 1) + 1 = b - a /\ \A i \in Int : (a + 1) + i - 1 = a + i
    BY <1>0
  <2>2. \A i \in 1..(b - a) : i \in Int
    OBVIOUS
  <2> QED
    BY <1>0, <1>2, <2>1, <2>2
<1>4. IsPart(s, t)
  <2>1. CASE a < b
    <3>1. <<a, b>> \in Spans(t)
      BY <2>1 DEF Spans
    <3> QED
      BY <1>0, <3>1 DEF IsPart
  <2>2. CASE a = b
    <3>1. s = << >>
      BY <1>2, <1>3, <2>2
    <3>2. Slice(t, <<0, 0>>) = << >>
      BY SubSeqEmpty DEF Slice
    <3> QED
      BY <3>1, <3>2 DEF IsPart
  <2> QED
    BY <1>0, <2>1, <2>2
<1> QED
  BY <1>0, <1>2, <1>3, <1>4 DEF s

LEMMA SpanFacts ==
  ASSUME NEW t \in Seq(Chars), NEW s \in Spans(t)
  PROVE  /\ s[1] \in 0..Len(t) /\ s[2] \in 0..Len(t) /\ s[1] < s[2] /\ s = <<s[1], s[2]>>
         /\ Len(t) \in Nat /\ Slice(t, s) = Slice(t, <<s[1], s[2]>>)
         /\ Slice(t, s) \in Seq(Chars) /\ Len(Slice(t, s)) = s[2] - s[1]
         /\ \A i \in 1..(s[2] - s[1]) : Slice(t, s)[i] = t[s[1] + i]
<1>1. s[1] \in 0..Len(t) /\ s[2] \in 0..Len(t) /\ s[1] < s[2] /\ s = <<s[1], s[2]>> /\ Len(t) \in Nat
  BY DEF Spans
<1>2. Slice(t, s) = Slice(t, <<s[1], s[2]>>)
  BY <1>1
<1> DEFINE a == s[1]
           b == s[2]
<1>3. a \in 0..Len(t) /\ b \in 0..Len(t) /\ a <= b
  BY <1>1
<1> HIDE DEF a, b
<1>4. /\ Slice(t, <<a, b>>) \in Seq(Chars) /\ Len(Slice(t, <<a, b>>)) = b - a
      /\ \A i \in 1..(b - a) : Slice(t, <<a, b>>)[i] = t[a + i]
  BY <1>3, SliceFacts
<1> QED
  BY <1>1, <1>2, <1>4 DEF a, b

LEMMA WholeIsPart == \A t \in Seq(Chars) : IsPart(t, t) /\ Slice(t, <<0, Len(t)>>) = t
<1> TAKE t \in Seq(Chars)
<1>1. 0 \in 0..Len(t) /\ Len(t) \in 0..Len(t) /\ 0 <= Len(t)
  OBVIOUS
<1>2. IsPart(Slice(t, <<0, Len(t)>>), t) /\ Slice(t, <<0, Len(t)>>) = SubSeq(t, 0 + 1, Len(t))
  BY <1>1, SliceFacts
<1>3. SubSeq(t, 0 + 1, Len(t)) = t
  BY SubSeqFull
<1> QED
  BY <1>2, <1>3

\* The beginning of a part is a part.
LEMMA PrefixIsPart ==
  ASSUME NEW t \in Seq(Chars), NEW x \in Seq(Chars), NEW u \in Seq(Chars), IsPart(x \o u, t)
  PROVE  IsPart(x, t)
<1> DEFINE n == Len(x)
<1>1. n \in Nat /\ Len(t) \in Nat /\ Glued(x \o u, x, u)
  BY Concat
<1>2. PICK s \in Spans(t) \cup {<<0, 0>>} : x \o u = Slice(t, s)
  BY DEF IsPart
<1>3. CASE n = 0
  <2>1. x = << >>
    BY <1>3
  <2>2. Slice(t, <<0, 0>>) = << >>
    BY SubSeqEmpty DEF Slice
  <2> QED
    BY <2>1, <2>2 DEF IsPart
<1>4. CASE n # 0
  <2>1. s \in Spans(t)
    <3>1. Slice(t, <<0, 0>>) = << >>
      BY SubSeqEmpty DEF Slice
    <3>2. Len(x \o u) # 0
      BY <1>1, <1>4 DEF Glued
    <3>3. Len(<< >>) = 0
      OBVIOUS
    <3>4. s # <<0, 0>>
      BY <1>2, <3>1, <3>2, <3>3
    <3> QED
      BY <3>4
  <2> DEFINE a == s[1]
             b == a + n
  <2>2. a \in 0..Len(t) /\ s[2] \in 0..Len(t) /\ a < s[2]
        /\ Len(x \o u) = s[2] - a /\ \A i \in 1..(s[2] - a) : (x \o u)[i] = t[a + i]
    BY <1>2, <2>1, SpanFacts
  <2>3. b \in 0..Len(t) /\ a <= b /\ n <= s[2] - a /\ b - a = n
    <3>1. Len(x \o u) = n + Len(u) /\ Len(u) \in Nat
      BY <1>1 DEF Glued
    <3>2. s[2] - a = n + Len(u)
      BY <2>2, <3>1
    <3> HIDE DEF n, a
    <3> QED
      BY <1>1, <2>2, <3>1, <3>2
  <2> HIDE DEF a, b
  <2>4. /\ Slice(t, <<a, b>>) \in Seq(Chars) /\ Len(Slice(t, <<a, b>>)) = b - a
        /\ \A i \in 1..(b - a) : Slice(t, <<a, b>>)[i] = t[a + i]
        /\ IsPart(Slice(t, <<a, b>>), t)
    BY <2>2, <2>3, SliceFacts
  <2>5. \A i \in 1..n : x[i] = t[a + i]
    <3> TAKE i \in 1..n
    <3>1. i \in 1..(s[2] - a)
      BY <1>1, <2>2, <2>3
    <3>2. (x \o u)[i] = x[i]
      BY <1>1 DEF Glued
    <3> QED
      BY <2>2, <3>1, <3>2
  <2>6. x = Slice(t, <<a, b>>)
    <3> DEFINE v == Slice(t, <<a, b>>)
    <3>1. v \in Seq(Chars) /\ Len(v) = Len(x) /\ \A i \in 1..Len(x) : x[i] = v[i]
      BY <2>3, <2>4, <2>5
    <3> HIDE DEF v
    <3>2. x = v
      BY <3>1, SeqEqual
    <3> QED
      BY <3>2 DEF v
  <2> QED
    BY <2>4, <2>6
<1> QED
  BY <1>3, <1>4

\* Two parts, one next to the other.
LEMMA SliceConcat ==
  ASSUME NEW t \in Seq(Chars), NEW a \in 0..Len(t), NEW b \in 0..Len(t), NEW c \in 0..Len(t),
         a <= b, b <= c
  PROVE  Slice(t, <<a, b>>) \o Slice(t, <<b, c>>) = Slice(t, <<a, c>>)
<1>1. /\ Len(t) \in Nat /\ a + 1 \in 1..(Len(t) + 1) /\ b \in ((a + 1) - 1)..Len(t)
      /\ c \in b..Len(t)
  OBVIOUS
<1>2. SubSeq(t, a + 1, b) \o SubSeq(t, b + 1, c) = SubSeq(t, a + 1, c)
  BY <1>1, ConcatAdjacentSubSeq
<1> QED
  BY <1>2 DEF Slice
-----------------------------------------------------------------------------
(* Lines are honest *)

Honest(shown, t, max) ==
  /\ IsPart(Unmarked(shown), t)
  /\ Len(shown) <= max + 5
  /\ Dots \notin Range(shown) => Unmarked(shown) = t

Enclosed(shown, m) ==
  \E a, b \in DOMAIN shown :
    shown[a] = Open /\ shown[b] = Close /\ SubSeq(shown, a + 1, b - 1) = m

\* What is left of a line that shows a part of t.
LEMMA CutIsHonest ==
  ASSUME NEW t \in Seq(Chars), NEW l \in Seq(Shown), NEW k \in Nat, IsPart(Unmarked(l), t),
         Dots \notin Range(l) => Unmarked(l) = t, NEW max \in Nat, k <= max + 4
  PROVE  Honest(Cut(l, k), t, max)
<1> DEFINE c == Cut(l, k)
<1>1. /\ c \in Seq(Shown) /\ Len(c) <= k + 1 /\ Unmarked(c) \in Seq(Chars)
      /\ \E u \in Seq(Chars) : Unmarked(l) = Unmarked(c) \o u
      /\ Dots \notin Range(c) => c = l
  BY CutFacts
<1>2. IsPart(Unmarked(c), t)
  <2> HIDE DEF c
  <2>1. PICK u \in Seq(Chars) : Unmarked(l) = Unmarked(c) \o u
    BY <1>1
  <2> DEFINE x == Unmarked(c)
  <2>2. x \in Seq(Chars) /\ IsPart(x \o u, t)
    BY <1>1, <2>1
  <2> HIDE DEF x
  <2>3. IsPart(x, t)
    BY <2>2, PrefixIsPart
  <2> QED
    BY <2>3 DEF x
<1> HIDE DEF c
<1>3. Len(c) <= max + 5
  <2>1. Len(c) \in Nat
    BY <1>1
  <2> QED
    BY <1>1, <2>1
<1>4. Dots \notin Range(c) => Unmarked(c) = t
  BY <1>1
<1>5. Honest(c, t, max)
  BY <1>2, <1>3, <1>4 DEF Honest
<1> QED
  BY <1>5 DEF c

\* A match that is not cut off.
LEMMA CutEncloses ==
  ASSUME NEW l \in Seq(Shown), NEW m \in Seq(Chars), NEW x, EnclosedAt(l, m, x),
         NEW k \in Nat, x + Len(m) + 1 <= k
  PROVE  Enclosed(Cut(l, k), m)
<1> DEFINE c == Cut(l, k)
           y == x + Len(m) + 1
<1>1. /\ x \in Nat \ {0} /\ y <= Len(l) /\ l[x] = Open /\ l[y] = Close
      /\ \A i \in 1..Len(m) : l[x + i] = m[i]
  BY DEF EnclosedAt
<1>2. c \in Seq(Shown) /\ \A i \in 1..k : i <= Len(l) => i <= Len(c) /\ c[i] = l[i]
  BY CutFacts
<1> HIDE DEF c
<1>3. Len(m) \in Nat /\ Len(l) \in Nat /\ Len(c) \in Nat /\ DOMAIN c = 1..Len(c)
  BY <1>2
<1>4. \A i \in x..y : i \in 1..k /\ i <= Len(l)
  BY <1>1, <1>3
<1>5. \A i \in x..y : i \in DOMAIN c /\ c[i] = l[i]
  BY <1>2, <1>3, <1>4
<1>6. x \in x..y /\ y \in x..y /\ \A i \in 1..Len(m) : x + i \in x..y
  BY <1>1, <1>3
<1>7. SubSeq(c, x + 1, y - 1) = m
  <2>1. y - 1 = x + Len(m) /\ y - 1 \in Int /\ x + 1 \in Int
    BY <1>1, <1>3
  <2> DEFINE s == SubSeq(c, x + 1, x + Len(m))
  <2>2. \A i \in (x + 1)..(x + Len(m)) : c[i] \in Shown
    <3> TAKE i \in (x + 1)..(x + Len(m))
    <3>1. i \in x..y
      BY <1>1, <1>3
    <3> QED
      BY <1>2, <1>5, <3>1
  <2>3. /\ s \in Seq(Shown)
        /\ Len(s) = IF x + 1 <= x + Len(m) THEN ((x + Len(m)) - (x + 1)) + 1 ELSE 0
        /\ \A i \in 1..(((x + Len(m)) - (x + 1)) + 1) : s[i] = c[(x + 1) + i - 1]
    <3> DEFINE a == x + 1
               b == x + Len(m)
    <3>1. a \in Nat /\ b \in Nat /\ \A i \in a..b : c[i] \in Shown
      BY <1>1, <1>3, <2>2
    <3> HIDE DEF a, b
    <3>2. /\ SubSeq(c, a, b) \in Seq(Shown)
          /\ Len(SubSeq(c, a, b)) = IF a <= b THEN b - a + 1 ELSE 0
          /\ \A i \in 1..(b - a + 1) : SubSeq(c, a, b)[i] = c[a + i - 1]
      BY <3>1, SubSeqProperties
    <3> QED
      BY <3>2, Zenon DEF a, b
  <2> HIDE DEF s
  <2>4. Len(s) = Len(m)
    BY <1>1, <1>3, <2>3
  <2>5. \A i \in 1..Len(m) : s[i] = m[i]
    <3> TAKE i \in 1..Len(m)
    <3>1. (x + 1) + i - 1 = x + i /\ i \in 1..(((x + Len(m)) - (x + 1)) + 1)
      BY <1>1, <1>3
    <3> QED
      BY <1>1, <1>5, <1>6, <2>3, <3>1
  <2>6. m \in Seq(Shown)
    BY UnmarkedText
  <2>7. s = m
    BY <2>3, <2>4, <2>5, <2>6, SeqEqual
  <2> QED
    BY <2>1, <2>7 DEF s
<1>8. Enclosed(c, m)
  <2> HIDE DEF y
  <2> QED
    BY <1>1, <1>5, <1>6, <1>7 DEF Enclosed
<1> QED
  BY <1>8 DEF c

LEMMA ContextFacts ==
  ASSUME NEW t \in Seq(Chars), NEW m \in Spans(t), NEW max \in Nat
  PROVE  LET s == Context(t, m, max)
         IN  /\ s[1] \in 0..m[1] /\ s[2] \in m[2]..Len(t)
             /\ m[2] - m[1] <= max + 1 => m[2] - s[1] <= max + 1
<1> DEFINE room == Monus(max, (m[2] - m[1]) + 2) \div 2
           s == Context(t, m, max)
<1>1. m[1] \in 0..Len(t) /\ m[2] \in 0..Len(t) /\ m[1] < m[2] /\ Len(t) \in Nat
  BY SpanFacts
<1> DEFINE z == Monus(max, (m[2] - m[1]) + 2)
<1>a. /\ z \in Nat
      /\ m[2] - m[1] <= max - 2 => z = max - (m[2] - m[1]) - 2
      /\ m[2] - m[1] > max - 2 => z = 0
  BY <1>1 DEF Monus
<1>b. \A k \in Nat : k \div 2 \in Nat /\ k \div 2 <= k /\ 0 \div 2 = 0
  OBVIOUS
<1>c. room = z \div 2
  OBVIOUS
<1> HIDE DEF z, room
<1>2. room \in Nat
  BY <1>a, <1>b, <1>c
<1>3. /\ m[2] - m[1] <= max - 2 => room <= max - (m[2] - m[1]) - 2
      /\ m[2] - m[1] > max - 2 => room = 0
  BY <1>a, <1>b, <1>c
<1>4. /\ s[1] = Monus(m[1], room)
      /\ s[2] = IF m[2] + room < Len(t) THEN m[2] + room ELSE Len(t)
  BY Zenon DEF Context, room
<1> HIDE DEF s
<1>5. s[1] \in 0..m[1] /\ s[2] \in m[2]..Len(t) /\ m[1] - s[1] <= room
  BY <1>1, <1>2, <1>4 DEF Monus
<1>6. m[2] - m[1] <= max + 1 => m[2] - s[1] <= max + 1
  BY <1>1, <1>2, <1>3, <1>5
<1> QED
  BY <1>5, <1>6 DEF s


\* A snippet is honest, and it has the match in brackets if that fits.
LEMMA SnippetFacts ==
  ASSUME NEW t \in Seq(Chars), NEW m \in Spans(t), NEW max \in Nat
  PROVE  /\ Honest(Snippet(t, m, max), t, max)
         /\ m[2] - m[1] <= max + 1 => Enclosed(Snippet(t, m, max), Slice(t, m))
<1> DEFINE s == Context(t, m, max)
           a == s[1]
           b == s[2]
           d == When(a > 0, Dots)
           e == When(b < Len(t), Dots)
           x == Slice(t, <<a, m[1]>>)
           y == Slice(t, m)
           z == Slice(t, <<m[2], b>>)
           l == Line(d, x, y, z, e)
<1>1. /\ m[1] \in 0..Len(t) /\ m[2] \in 0..Len(t) /\ m[1] < m[2] /\ Len(t) \in Nat
      /\ y \in Seq(Chars) /\ Len(y) = m[2] - m[1] /\ y = Slice(t, <<m[1], m[2]>>)
  BY SpanFacts
<1>2. /\ a \in 0..m[1] /\ b \in m[2]..Len(t)
      /\ m[2] - m[1] <= max + 1 => m[2] - a <= max + 1
  BY ContextFacts
<1>3. Snippet(t, m, max) = Cut(l, max + 4)
  BY Zenon DEF Snippet, Line
<1>4. d \in Ellipses /\ e \in Ellipses /\ (d = << >> => ~ (a > 0)) /\ (e = << >> => ~ (b < Len(t)))
  BY DEF When, Ellipses
<1> HIDE DEF a, b, d, e, y
<1>5. a \in 0..Len(t) /\ b \in 0..Len(t) /\ a <= m[1] /\ m[2] <= b /\ m[1] <= m[2] /\ a <= b
  BY <1>1, <1>2
<1>6. x \in Seq(Chars) /\ Len(x) = m[1] - a /\ z \in Seq(Chars) /\ Len(z) = b - m[2]
  BY <1>1, <1>5, SliceFacts
<1>7. (x \o y) \o z = Slice(t, <<a, b>>)
  <2>1. x \o y = Slice(t, <<a, m[2]>>)
    BY <1>1, <1>5, SliceConcat
  <2>2. a <= m[2]
    BY <1>1, <1>5
  <2>3. Slice(t, <<a, m[2]>>) \o z = Slice(t, <<a, b>>)
    BY <1>1, <1>5, <2>2, SliceConcat
  <2> QED
    BY <2>1, <2>3
<1> HIDE DEF x, z
<1>8. /\ l \in Seq(Shown) /\ Unmarked(l) = (x \o y) \o z
      /\ EnclosedAt(l, y, Len(d) + Len(x) + 1)
      /\ Dots \notin Range(l) => d = << >> /\ e = << >>
  <2>1. d \in Ellipses /\ e \in Ellipses /\ x \in Seq(Chars) /\ y \in Seq(Chars) /\ z \in Seq(Chars)
    BY <1>1, <1>4, <1>6
  <2> HIDE DEF l
  <2>2. LET k == Line(d, x, y, z, e)
        IN  /\ k \in Seq(Shown) /\ Unmarked(k) = (x \o y) \o z
            /\ Len(k) = Len(d) + Len(x) + Len(y) + Len(z) + Len(e) + 2
            /\ EnclosedAt(k, y, Len(d) + Len(x) + 1)
            /\ Dots \notin Range(k) => d = << >> /\ e = << >>
    BY <2>1, LineFacts
  <2> QED
    BY <2>2, Zenon DEF l
<1> HIDE DEF l
<1>9. IsPart(Unmarked(l), t)
  BY <1>5, <1>7, <1>8, SliceFacts
<1>10. Dots \notin Range(l) => Unmarked(l) = t
  <2>1. SUFFICES ASSUME Dots \notin Range(l) PROVE Unmarked(l) = t
    OBVIOUS
  <2>2. a = 0 /\ b = Len(t)
    BY <1>1, <1>4, <1>5, <1>8, <2>1
  <2> QED
    BY <1>7, <1>8, <2>2, WholeIsPart
<1>11. Honest(Cut(l, max + 4), t, max)
  <2> DEFINE k == max + 4
  <2>1. k \in Nat /\ k <= max + 4
    OBVIOUS
  <2> HIDE DEF k
  <2>2. Honest(Cut(l, k), t, max)
    BY <1>8, <1>9, <1>10, <2>1, CutIsHonest
  <2> QED
    BY <2>2 DEF k
<1>12. ASSUME m[2] - m[1] <= max + 1 PROVE Enclosed(Cut(l, max + 4), y)
  <2> DEFINE k == max + 4
             p == Len(d) + Len(x) + 1
  <2>0. Len(d) \in 0..1
    BY <1>4, EllipsisFacts
  <2>a. m[1] \in Int /\ m[2] \in Int /\ a \in Int /\ m[2] - a <= max + 1
    BY <1>1, <1>2, <1>5, <1>12
  <2>b. Len(x) = m[1] - a /\ Len(y) = m[2] - m[1]
    BY <1>1, <1>6
  <2>c. \A q, v, w \in Int, u \in 0..1 : w - v <= max + 1 => u + (q - v) + 1 + (w - q) + 1 <= max + 4
    OBVIOUS
  <2>d. p + Len(y) + 1 = Len(d) + (m[1] - a) + 1 + (m[2] - m[1]) + 1
    BY <2>b
  <2>e. Len(d) + (m[1] - a) + 1 + (m[2] - m[1]) + 1 <= max + 4
    BY <2>0, <2>a, <2>c
  <2>1. k \in Nat /\ p + Len(y) + 1 <= k
    BY <2>d, <2>e
  <2>2. EnclosedAt(l, y, p)
    BY <1>8
  <2> HIDE DEF k, p
  <2>3. Enclosed(Cut(l, k), y)
    BY <1>1, <1>8, <2>1, <2>2, CutEncloses
  <2> QED
    BY <2>3 DEF k
<1> QED
  BY <1>3, <1>11, <1>12 DEF y

LEMMA TruncateFacts ==
  ASSUME NEW t \in Seq(Chars), NEW max \in Nat \ {0}
  PROVE  Honest(Truncate(t, max), t, max)
<1>1. t \in Seq(Shown) /\ Unmarked(t) = t
  BY UnmarkedText
<1>2. IsPart(Unmarked(t), t)
  <2>1. IsPart(t, t)
    BY WholeIsPart
  <2> QED
    BY <1>1, <2>1
<1>3. max \in Nat /\ max <= max + 4
  OBVIOUS
<1>4. Honest(Cut(t, max), t, max)
  BY <1>1, <1>2, <1>3, CutIsHonest
<1> QED
  BY <1>4 DEF Truncate

\* The first of the places found.
LEMMA FirstIsIn ==
  ASSUME NEW t \in Seq(Chars), NEW S \in SUBSET Spans(t), S # {}
  PROVE  FirstOf(S) \in S
<1> DEFINE T == {s[1] : s \in S}
<1>1. T \in SUBSET Nat /\ T # {}
  <2>1. \A s \in S : s[1] \in Nat
    <3> TAKE s \in S
    <3>1. s \in Spans(t)
      OBVIOUS
    <3>2. s[1] \in 0..Len(t)
      BY <3>1, SpanFacts
    <3> QED
      BY <3>2
  <2> QED
    BY <2>1
<1>2. PICK n \in T : \A k \in T : n <= k
  <2> HIDE DEF T
  <2> QED
    BY <1>1, LeastNatural
<1>3. \E s \in S : \A o \in S : s[1] <= o[1]
  BY <1>2
<1> QED
  BY <1>3 DEF FirstOf

\* Whatever needle is looked for.
LEMMA BuildPreviewFacts ==
  ASSUME NEW t \in Seq(Chars), NEW needle \in Seq(Chars)
  PROVE  Honest(BuildPreview(t, needle), t, MaxLen)
<1>0. MaxLen \in Nat \ {0} /\ MaxLen \in Nat /\ Len(needle) \in Nat
  BY PreviewAssumption
<1> DEFINE ls == Lengths(t, needle)
<1>1. CASE ls = {}
  BY <1>0, <1>1, TruncateFacts DEF BuildPreview
<1>2. CASE ls # {}
  <2> DEFINE k == CHOOSE k \in ls : \A j \in ls : j <= k
             S == Places(t, SubSeq(needle, 1, k))
  <2>1. ls \in SUBSET Nat /\ \A j \in ls : j <= Len(needle)
    BY <1>0 DEF Lengths
  <2>2. k \in ls
    <3> HIDE DEF ls
    <3>1. Max(ls) \in ls /\ \A j \in ls : j <= Max(ls)
      BY <1>0, <1>2, <2>1, MaxFacts
    <3> QED
      BY <3>1
  <2> HIDE DEF k
  <2>3. S # {} /\ S \in SUBSET Spans(t)
    BY <2>2 DEF Lengths, Places
  <2>4. FirstOf(S) \in Spans(t)
    <3> HIDE DEF S
    <3> QED
      BY <2>3, FirstIsIn
  <2>5. Honest(Snippet(t, FirstOf(S), MaxLen), t, MaxLen)
    <3> HIDE DEF S
    <3> QED
      BY <1>0, <2>4, SnippetFacts
  <2>6. BuildPreview(t, needle) = Snippet(t, FirstOf(S), MaxLen)
    BY <1>2, Zenon DEF BuildPreview, k
  <2> QED
    BY <2>5, <2>6
<1> QED
  BY <1>1, <1>2
-----------------------------------------------------------------------------
(* What is found in a text *)

LEMMA TailsOf ==
  ASSUME NEW p \in Seq(Chars), NEW t, NEW f, NEW ends, Tails(f, p, t, ends)
  PROVE  /\ f[0] = ends
         /\ \A k \in 1..Len(p), x \in 1..(Len(t) + 1) :
              x \in f[k] <=>
                \/ p[Len(p) + 1 - k] = "*" /\ \E y \in f[k - 1] : x <= y
                \/ /\ p[Len(p) + 1 - k] # "*" /\ x <= Len(t) /\ x + 1 \in f[k - 1]
                   /\ p[Len(p) + 1 - k] = "?" \/ Same(p[Len(p) + 1 - k], t[x])
         /\ \A k \in 0..Len(p) : f[k] \in SUBSET (1..(Len(t) + 1))
<1>1. f[0] = ends /\ \A k \in 0..Len(p) : f[k] \in SUBSET (1..(Len(t) + 1))
  BY DEF Tails
<1>2. \A k \in 1..Len(p) : f[k] = Before(p[Len(p) + 1 - k], t, f[k - 1])
  BY DEF Tails
<1> QED
  BY <1>1, <1>2 DEF Before

\* What can end at one of many places ends at one of them.
LEMMA EndOfMatch ==
  ASSUME NEW p \in Seq(Chars), NEW t \in Seq(Chars), NEW ends \in SUBSET (1..(Len(t) + 1)),
         NEW j \in Starts(p, t, ends)
  PROVE  \E e \in ends : j \in Starts(p, t, {e})
<1> DEFINE n == Len(p)
           F == [e \in ends |-> CHOOSE g : Tails(g, p, t, {e}) /\ Starts(p, t, {e}) = g[n]]
<1>1. n \in Nat /\ Len(t) \in Nat
  OBVIOUS
<1>2. PICK f : Tails(f, p, t, ends) /\ Starts(p, t, ends) = f[n]
  BY StartsFacts
<1>3. \A e \in ends : Tails(F[e], p, t, {e}) /\ Starts(p, t, {e}) = F[e][n]
  <2> TAKE e \in ends
  <2>1. \E g : Tails(g, p, t, {e}) /\ Starts(p, t, {e}) = g[n]
    BY StartsFacts
  <2> QED
    BY <2>1
<1> HIDE DEF n, F
<1> DEFINE A == {k \in 0..n : \A x \in f[k] : \E e \in ends : x \in F[e][k]}
<1>4. 0 \in A
  <2>1. f[0] = ends /\ \A e \in ends : F[e][0] = {e}
    BY <1>2, <1>3 DEF Tails
  <2> QED
    BY <1>1, <2>1
<1>5. ASSUME NEW k \in 0..(n - 1), k \in A PROVE k + 1 \in A
  <2>1. k + 1 \in 1..n /\ (k + 1) - 1 = k /\ k + 1 \in 0..n
    BY <1>1
  <2>2. SUFFICES ASSUME NEW x \in f[k + 1] PROVE \E e \in ends : x \in F[e][k + 1]
    BY <2>1
  <2> DEFINE c == p[n + 1 - (k + 1)]
  <2>3. x \in Before(c, t, f[k])
    <3>1. f[k + 1] = Before(p[n + 1 - (k + 1)], t, f[(k + 1) - 1])
      BY <1>2, <2>1 DEF Tails, n
    <3> QED
      BY <2>1, <3>1
  <2>4. \A e \in ends : F[e][k + 1] = Before(c, t, F[e][k])
    <3> TAKE e \in ends
    <3>1. F[e][k + 1] = Before(p[n + 1 - (k + 1)], t, F[e][(k + 1) - 1])
      BY <1>3, <2>1 DEF Tails, n
    <3> QED
      BY <2>1, <3>1
  <2> HIDE DEF c
  <2>5. \E y \in f[k] : \A e \in ends : y \in F[e][k] => x \in Before(c, t, F[e][k])
    BY <2>3 DEF Before
  <2> QED
    BY <1>5, <2>4, <2>5
<1>6. 0..n \subseteq A
  <2> HIDE DEF A
  <2> QED
    BY <1>1, <1>4, <1>5, InductionUpTo
<1>7. n \in A
  BY <1>1, <1>6
<1>8. \E e \in ends : j \in F[e][n]
  BY <1>2, <1>7
<1> QED
  BY <1>3, <1>8

HasCharacter(p) == \E i \in 1..Len(p) : p[i] # "*"

\* A match is a match of the whole of what lies between its ends.
LEMMA MatchInSlice ==
  ASSUME NEW p \in Seq(Chars), NEW t \in Seq(Chars), NEW e \in 1..(Len(t) + 1),
         NEW j \in Starts(p, t, {e})
  PROVE  /\ j \in 1..e /\ (HasCharacter(p) => j < e)
         /\ MatchesWhole(p, Slice(t, <<j - 1, e - 1>>))
<1> DEFINE n == Len(p)
           a == j - 1
           s == Slice(t, <<a, e - 1>>)
           m == e - j
<1>1. n \in Nat /\ Len(t) \in Nat /\ e \in Nat /\ \A i \in 1..n : p[i] \in Chars
  OBVIOUS
<1>2. PICK f : Tails(f, p, t, {e}) /\ Starts(p, t, {e}) = f[n]
  BY StartsFacts
<1>3. /\ f[0] = {e} /\ \A k \in 0..n : f[k] \in SUBSET (1..(Len(t) + 1))
      /\ \A k \in 1..n : f[k] = Before(p[n + 1 - k], t, f[k - 1])
  BY <1>2 DEF Tails
<1> HIDE DEF n
\* Places go up to the end, and below it once a character is read.
<1> DEFINE A == {k \in 0..n :
                   \A x \in f[k] : x <= e /\ (x = e => \A i \in 1..k : p[n + 1 - i] = "*")}
<1>4. 0..n \subseteq A
  <2>1. 0 \in A
    BY <1>1, <1>3
  <2>2. ASSUME NEW k \in 0..(n - 1), k \in A PROVE k + 1 \in A
    <3>1. k + 1 \in 1..n /\ (k + 1) - 1 = k /\ k + 1 \in 0..n /\ k \in 0..n
      BY <1>1
    <3> DEFINE c == p[n + 1 - (k + 1)]
    <3>2. f[k + 1] = Before(c, t, f[k])
      <4>1. f[k + 1] = Before(p[n + 1 - (k + 1)], t, f[(k + 1) - 1])
        BY <1>3, <3>1
      <4> QED
        BY <3>1, <4>1
    <3>3. SUFFICES ASSUME NEW x \in f[k + 1]
                   PROVE  x <= e /\ (x = e => \A i \in 1..(k + 1) : p[n + 1 - i] = "*")
      BY <3>1
    <3>4. x \in Int /\ \A y \in f[k] : y \in Int
      BY <1>3, <3>1
    <3>5. CASE c = "*"
      <4>1. PICK y \in f[k] : x <= y
        BY <3>2, <3>5 DEF Before
      <4>2. y <= e /\ (y = e => \A i \in 1..k : p[n + 1 - i] = "*") /\ y \in Int /\ e \in Int
        BY <1>1, <2>2, <3>4
      <4>3. x <= e /\ (x = e => y = e)
        BY <3>4, <4>1, <4>2
      <4>4. \A i \in 1..(k + 1) : i \in 1..k \/ i = k + 1
        OBVIOUS
      <4> QED
        BY <3>5, <4>2, <4>3, <4>4
    <3>6. CASE c # "*"
      <4>1. x + 1 \in f[k]
        BY <3>2, <3>6 DEF Before
      <4>2. x + 1 <= e /\ e \in Int
        BY <1>1, <2>2, <4>1
      <4> QED
        BY <3>4, <4>2
    <3> QED
      BY <3>5, <3>6
  <2> HIDE DEF A
  <2> QED
    BY <1>1, <2>1, <2>2, InductionUpTo
<1>5. /\ j \in 1..e /\ (HasCharacter(p) => j < e)
  <2>1. j \in f[n] /\ n \in A /\ n \in 0..n
    BY <1>1, <1>2, <1>4
  <2>2. j <= e /\ (j = e => \A i \in 1..n : p[n + 1 - i] = "*")
    BY <2>1
  <2>a. j \in 1..(Len(t) + 1) /\ e \in Nat
    BY <1>1, <1>3, <2>1
  <2>3. \A i \in 1..n : n + 1 - i \in 1..n /\ n + 1 - (n + 1 - i) = i
    BY <1>1
  <2>4. j = e => ~ HasCharacter(p)
    BY <2>2, <2>3 DEF HasCharacter, n
  <2> QED
    BY <2>2, <2>4, <2>a
<1>6. /\ s \in Seq(Chars) /\ Len(s) = m /\ m \in Nat
      /\ \A i \in 1..m : s[i] = t[a + i]
  <2>1. a \in 0..Len(t) /\ e - 1 \in 0..Len(t) /\ a <= e - 1
    BY <1>1, <1>5
  <2> DEFINE b == e - 1
  <2>2. b - a = m /\ m \in Nat /\ b \in 0..Len(t) /\ a <= b
    BY <1>1, <1>5, <2>1
  <2> HIDE DEF a, b, m
  <2>3. LET r == Slice(t, <<a, b>>)
        IN  r \in Seq(Chars) /\ Len(r) = b - a /\ \A i \in 1..(b - a) : r[i] = t[a + i]
    BY <2>1, <2>2, SliceFacts
  <2> QED
    BY <2>2, <2>3 DEF b
<1> HIDE DEF s, m, a
<1>7. PICK h : Tails(h, p, s, {m + 1}) /\ Starts(p, s, {m + 1}) = h[n]
  <2>1. {m + 1} \in SUBSET (1..(Len(s) + 1))
    BY <1>6
  <2> QED
    BY <1>6, <2>1, StartsFacts DEF n
<1>8. a \in Nat /\ j = a + 1 /\ e = a + m + 1
  BY <1>1, <1>5 DEF a, m
<1> DEFINE B == {k \in 0..n : \A x \in f[k] : j <= x => x - a \in h[k]}
<1>9. 0..n \subseteq B
  <2>1. 0 \in B
    <3>1. h[0] = {m + 1} /\ e - a = m + 1
      BY <1>6, <1>7, <1>8 DEF Tails
    <3> QED
      BY <1>1, <1>3, <3>1
  <2>2. ASSUME NEW k \in 0..(n - 1), k \in B PROVE k + 1 \in B
    <3>1. /\ k + 1 \in 1..n /\ (k + 1) - 1 = k /\ k + 1 \in 0..n /\ k \in 0..n
          /\ k \in A /\ k + 1 \in A
      BY <1>1, <1>4
    <3> DEFINE c == p[n + 1 - (k + 1)]
    <3>2. f[k + 1] = Before(c, t, f[k]) /\ h[k + 1] = Before(c, s, h[k])
      <4>1. f[k + 1] = Before(p[n + 1 - (k + 1)], t, f[(k + 1) - 1])
        BY <1>3, <3>1
      <4>2. h[k + 1] = Before(p[n + 1 - (k + 1)], s, h[(k + 1) - 1])
        BY <1>7, <3>1 DEF Tails, n
      <4> QED
        BY <3>1, <4>1, <4>2
    <3> HIDE DEF c
    <3>3. SUFFICES ASSUME NEW x \in f[k + 1], j <= x PROVE x - a \in Before(c, s, h[k])
      BY <3>1, <3>2
    <3>4. /\ x \in Int /\ x <= e /\ (\A y \in f[k] : y \in Int /\ y <= e)
          /\ x - a \in 1..(m + 1)
      <4>1. x <= e /\ \A y \in f[k] : y <= e
        BY <3>1
      <4>2. x \in Int /\ \A y \in f[k] : y \in Int
        BY <1>3, <3>1
      <4> QED
        BY <1>6, <1>8, <3>3, <4>1, <4>2
    <3>5. CASE c = "*"
      <4>1. PICK y \in f[k] : x <= y
        BY <3>2, <3>5 DEF Before
      <4>2. y - a \in h[k] /\ x - a <= y - a
        BY <1>8, <2>2, <3>3, <3>4, <4>1
      <4> QED
        BY <1>6, <3>4, <3>5, <4>2 DEF Before
    <3>6. CASE c # "*"
      <4>1. x + 1 \in f[k] /\ (c = "?" \/ Same(c, t[x]))
        BY <3>2, <3>6 DEF Before
      <4>2. (x + 1) - a = (x - a) + 1 /\ j <= x + 1
        BY <1>8, <3>3, <3>4
      <4>3. (x - a) + 1 \in h[k]
        BY <2>2, <4>1, <4>2
      <4>4. x - a <= m /\ x - a \in 1..m /\ a + (x - a) = x
        <5>1. x + 1 <= e
          BY <3>4, <4>1
        <5> QED
          BY <1>6, <1>8, <3>4, <5>1
      <4>5. s[x - a] = t[x]
        BY <1>6, <4>4
      <4> QED
        BY <1>6, <3>4, <3>6, <4>1, <4>3, <4>4, <4>5 DEF Before
    <3> QED
      BY <3>5, <3>6
  <2> HIDE DEF B
  <2> QED
    BY <1>1, <2>1, <2>2, InductionUpTo
<1>10. 1 \in h[n]
  <2>1. n \in B /\ j \in f[n]
    BY <1>1, <1>2, <1>9
  <2>2. j - a = 1 /\ j <= j
    BY <1>8
  <2> QED
    BY <2>1, <2>2
<1>11. MatchesWhole(p, s)
  BY <1>6, <1>7, <1>10 DEF MatchesWhole
<1> QED
  BY <1>5, <1>11 DEF s, a

\* What the broker puts into brackets is a place of the text that matches.
LEMMA FindFacts ==
  ASSUME NEW w \in Seq(Chars), NEW t \in Seq(Chars), HasCharacter(w), Matches(w, t)
  PROVE  Find(w, t) \in Spans(t) /\ MatchesWhole(w, Slice(t, Find(w, t)))
<1> DEFINE S == {s \in Spans(t) : MatchesWhole(w, Slice(t, s))}
           Better(s, o) == s[1] < o[1] \/ (s[1] = o[1] /\ s[2] >= o[2])
<1>1. S # {}
  <2> DEFINE all == 1..(Len(t) + 1)
  <2>1. PICK j : j \in Starts(w, t, all)
    BY DEF Matches
  <2>2. PICK e \in all : j \in Starts(w, t, {e})
    <3>1. all \in SUBSET (1..(Len(t) + 1))
      OBVIOUS
    <3> HIDE DEF all
    <3> QED
      BY <2>1, <3>1, EndOfMatch
  <2>3. /\ j \in 1..e /\ j < e /\ MatchesWhole(w, Slice(t, <<j - 1, e - 1>>))
    BY <2>2, MatchInSlice
  <2>4. <<j - 1, e - 1>> \in Spans(t)
    <3>1. Len(t) \in Nat /\ e \in 1..(Len(t) + 1)
      OBVIOUS
    <3>2. j - 1 \in 0..Len(t) /\ e - 1 \in 0..Len(t) /\ j - 1 < e - 1
      BY <2>3, <3>1
    <3> QED
      BY <3>2 DEF Spans
  <2> QED
    BY <2>3, <2>4
<1>2. \A s \in S : s[1] \in Nat /\ s[2] \in Nat /\ s[2] <= Len(t)
  BY DEF Spans
<1>3. Len(t) \in Nat
  OBVIOUS
<1> HIDE DEF S
<1> DEFINE L == {s[1] : s \in S}
<1>4. PICK a \in L : \A b \in L : a <= b
  <2>1. L \in SUBSET Nat /\ L # {}
    BY <1>1, <1>2
  <2> HIDE DEF L
  <2> QED
    BY <2>1, LeastNatural
<1>5. a \in Nat /\ \A s \in S : a <= s[1]
  BY <1>2, <1>4
<1> DEFINE R == {s[2] : s \in {o \in S : o[1] = a}}
<1>6. PICK b \in R : \A c \in R : c <= b
  <2>1. R \in SUBSET Nat /\ R # {} /\ \A c \in R : c <= Len(t)
    BY <1>2, <1>4
  <2> HIDE DEF R
  <2>2. Max(R) \in R /\ \A c \in R : c <= Max(R)
    BY <1>3, <2>1, MaxFacts
  <2> QED
    BY <2>2
<1>7. PICK s \in S : s[1] = a /\ s[2] = b
  BY <1>6
<1>8. \A o \in S : Better(s, o)
  <2> TAKE o \in S
  <2>1. a <= o[1] /\ o[1] \in Nat /\ o[2] \in Nat /\ s[2] \in Nat
    BY <1>2, <1>5
  <2>2. o[1] = a => o[2] <= b
    BY <1>6
  <2> QED
    BY <1>5, <1>7, <2>1, <2>2
<1>9. Find(w, t) = CHOOSE x \in S : \A o \in S : Better(x, o)
  BY Zenon DEF Find, S
<1>10. Find(w, t) \in S
  <2> HIDE DEF Better
  <2> QED
    BY <1>7, <1>8, <1>9
<1> QED
  BY <1>10 DEF S


\* A pattern of stars alone has no gram.
LEMMA GramsNeedCharacter ==
  ASSUME NEW w \in Seq(Chars), Required(w) # {}
  PROVE  HasCharacter(w)
<1> DEFINE t == << >>
<1>1. t \in Seq(Chars) /\ Len(t) = 0 /\ DOMAIN t = {}
  OBVIOUS
<1>2. Normalize(t) = << >>
  <2>1. Normalize(t) = FlattenSeq(Folded(t)) /\ Folded(t) = << >>
    BY DEF Normalize, Folded
  <2>2. FlattenSeq(<< >>) = << >>
    BY DEF FlattenSeq
  <2> QED
    BY <2>1, <2>2
<1>3. Stable(t)
  BY <1>2 DEF Stable
<1>4. Trigrams(t) = {}
  BY <1>1 DEF Trigrams
<1> HIDE DEF t
<1>5. SUFFICES ASSUME ~ HasCharacter(w) PROVE FALSE
  OBVIOUS
<1>6. RunsIn(w, t)
  <2>1. \A a, b \in 1..Len(w) : a <= b => ~ Run(w, a, b)
    <3> TAKE a, b \in 1..Len(w)
    <3>1. HAVE a <= b
    <3>2. a \in a..b /\ w[a] = "*"
      BY <1>5, <3>1 DEF HasCharacter
    <3> QED
      BY <3>2 DEF Run, Wild
  <2> QED
    BY <2>1 DEF RunsIn
<1>7. Required(w) \subseteq Trigrams(t)
  BY <1>1, <1>3, <1>6, GramsOfAsked
<1> QED
  BY <1>4, <1>7
-----------------------------------------------------------------------------
(* The needle *)

\* f[k] is the bytes of the first k characters of t.
Weighs(f, t) ==
  /\ f \in [0..Len(t) -> Nat] /\ f[0] = 0
  /\ \A k \in 1..Len(t) : f[k] = f[k - 1] + Width[t[k]]

LEMMA BytesFacts ==
  ASSUME NEW t \in Seq(Chars)
  PROVE  \E f : Weighs(f, t) /\ Bytes(t) = f[Len(t)]
<1> DEFINE n == Len(t)
           v == [k \in 1..n |-> Width[t[k]]]
           step == [k \in 1..n |-> [x \in Nat |-> x + v[k]]]
           Is(g) == g = [k \in 0..n |-> IF k = 0 THEN 0 ELSE g[k - 1] + Width[t[k]]]
           g == CHOOSE h : Is(h)
<1>1. n \in Nat /\ 0 \in Nat /\ \A k \in 1..n : v[k] = Width[t[k]] /\ v[k] \in Nat
  BY PreviewAssumption
<1> HIDE DEF v
<1>2. step \in [1..n -> [Nat -> Nat]]
  BY <1>1
<1>3. PICK f \in [0..n -> Nat] : Goes(f, 0, step, n)
  <2> HIDE DEF step, n
  <2> QED
    BY <1>1, <1>2, Iterates
<1>4. ASSUME NEW k \in 1..n PROVE f[k] = f[k - 1] + v[k]
  <2>1. f[k] = step[k][f[k - 1]]
    BY <1>3 DEF Goes
  <2>2. k - 1 \in 0..n
    BY <1>1
  <2>3. f[k - 1] \in Nat
    BY <1>3, <2>2
  <2> QED
    BY <2>1, <2>3
<1>5. f[0] = 0
  BY <1>3 DEF Goes
<1>6. Weighs(f, t)
  <2> HIDE DEF step
  <2> QED
    BY <1>1, <1>3, <1>4, <1>5 DEF Weighs
<1>7. Is(g)
  <2> DEFINE h == [k \in 0..n |-> f[k]]
  <2>1. ASSUME NEW k \in 0..n
        PROVE  f[k] = IF k = 0 THEN 0 ELSE h[k - 1] + Width[t[k]]
    <3>1. CASE k = 0
      BY <1>5, <3>1
    <3>2. CASE k # 0
      <4>1. k \in 1..n /\ k - 1 \in 0..n
        BY <1>1, <3>2
      <4>2. h[k - 1] = f[k - 1] /\ v[k] = Width[t[k]]
        BY <1>1, <4>1
      <4> QED
        BY <1>4, <3>2, <4>1, <4>2
    <3> QED
      BY <3>1, <3>2
  <2>2. Is(h)
    BY <2>1
  <2> QED
    BY <2>2
<1> HIDE DEF g, step
<1>8. \A k \in 0..n : g[k] = IF k = 0 THEN 0 ELSE g[k - 1] + Width[t[k]]
  BY <1>7, Zenon
<1>9. g[0] = f[0] /\ \A k \in 1..n : f[k] = f[k - 1] + v[k] /\ g[k] = g[k - 1] + v[k]
  <2>1. \A k \in 1..n : k \in 0..n /\ k # 0
    BY <1>1
  <2>2. \A k \in 1..n : g[k] = g[k - 1] + Width[t[k]]
    BY <1>8, <2>1, Zenon
  <2>3. g[0] = 0
    BY <1>1, <1>8
  <2> QED
    BY <1>1, <1>4, <1>5, <2>2, <2>3
<1> DEFINE S == {k \in 0..n : f[k] = g[k]}
<1>10. n \in S
  <2>1. 0 \in S
    BY <1>1, <1>9
  <2>2. ASSUME NEW k \in 0..(n - 1), k \in S PROVE k + 1 \in S
    <3>1. k + 1 \in 1..n /\ (k + 1) - 1 = k /\ k + 1 \in 0..n
      BY <1>1
    <3>2. f[k + 1] = f[(k + 1) - 1] + v[k + 1] /\ g[k + 1] = g[(k + 1) - 1] + v[k + 1]
      BY <1>9, <3>1
    <3>3. f[k] = g[k]
      BY <2>2
    <3> QED
      BY <3>1, <3>2, <3>3
  <2> HIDE DEF S, n
  <2>3. 0..n \subseteq S
    BY <1>1, <2>1, <2>2, InductionUpTo
  <2> QED
    BY <1>1, <2>3
<1>11. Bytes(t) = g[n]
  BY DEF Bytes, g
<1> QED
  BY <1>6, <1>10, <1>11

\* A part weighs what the text weighs up to its end, but not up to its start.
LEMMA BytesOfParts ==
  ASSUME NEW t \in Seq(Chars)
  PROVE  \E P \in [0..Len(t) -> Nat] :
           /\ \A j, k \in 0..Len(t) : j < k => P[j] < P[k]
           /\ \A s \in Spans(t) : Bytes(Slice(t, s)) = P[s[2]] - P[s[1]]
<1> DEFINE n == Len(t)
<1>1. PICK P : Weighs(P, t)
  BY BytesFacts
<1>2. /\ n \in Nat /\ P \in [0..n -> Nat]
      /\ \A k \in 1..n : P[k] = P[k - 1] + Width[t[k]] /\ Width[t[k]] \in Nat \ {0}
  BY <1>1, PreviewAssumption DEF Weighs
<1>3. \A k \in 1..n : k - 1 \in 0..n /\ k \in 0..n
  BY <1>2
<1>4. \A k \in 1..n : P[k - 1] < P[k] /\ P[k - 1] <= P[k] /\ P[k - 1] \in Nat /\ P[k] \in Nat
  BY <1>2, <1>3
<1>5. \A j, k \in 0..n : j <= k => P[j] <= P[k]
  <2> HIDE DEF n
  <2> QED
    BY <1>2, <1>4, Climbs
<1>6. \A j, k \in 0..n : j < k => P[j] < P[k]
  <2> TAKE j, k \in 0..n
  <2>1. HAVE j < k
  <2>2. k \in 1..n /\ k - 1 \in 0..n /\ j <= k - 1
    BY <1>2, <2>1
  <2>3. P[j] <= P[k - 1] /\ P[k - 1] < P[k] /\ P[j] \in Nat /\ P[k - 1] \in Nat /\ P[k] \in Nat
    BY <1>2, <1>4, <1>5, <2>2
  <2> QED
    BY <2>3
<1>7. ASSUME NEW s \in Spans(t) PROVE Bytes(Slice(t, s)) = P[s[2]] - P[s[1]]
  <2> DEFINE a == s[1]
             m == s[2] - s[1]
             u == Slice(t, s)
  <2>1. /\ a \in Nat /\ m \in Nat /\ a + m = s[2] /\ a + m <= n
        /\ u \in Seq(Chars) /\ Len(u) = m /\ \A i \in 1..m : u[i] = t[a + i]
    BY <1>2, SpanFacts
  <2>2. PICK f : Weighs(f, u) /\ Bytes(u) = f[Len(u)]
    BY <2>1, BytesFacts
  <2>3. /\ f \in [0..m -> Nat] /\ f[0] = 0 /\ f[m] = Bytes(u)
        /\ \A k \in 1..m : f[k] = f[k - 1] + Width[u[k]]
    BY <2>1, <2>2 DEF Weighs
  <2> HIDE DEF a, m, u, n
  <2> DEFINE S == {k \in 0..m : P[a + k] = P[a] + f[k]}
  <2>4. 0 \in S
    <3>1. a + 0 = a /\ a \in 0..n
      BY <1>2, <2>1
    <3>2. P[a] \in Nat
      BY <1>2, <3>1
    <3> QED
      BY <2>1, <2>3, <3>1, <3>2
  <2>5. ASSUME NEW k \in 0..(m - 1), k \in S PROVE k + 1 \in S
    <3> DEFINE x == a + (k + 1)
    <3>1. /\ k + 1 \in 1..m /\ (k + 1) - 1 = k /\ k + 1 \in 0..m /\ k \in 0..m
          /\ x \in 1..n /\ x - 1 = a + k /\ a \in 0..n
      BY <1>2, <2>1
    <3>2. f[k + 1] = f[k] + Width[t[x]]
      <4>1. f[k + 1] = f[(k + 1) - 1] + Width[u[k + 1]]
        BY <2>3, <3>1
      <4>2. u[k + 1] = t[x]
        BY <2>1, <3>1
      <4> QED
        BY <3>1, <4>1, <4>2
    <3> HIDE DEF x
    <3>3. P[x] = P[x - 1] + Width[t[x]] /\ Width[t[x]] \in Nat
      BY <1>2, <3>1
    <3>4. P[x - 1] = P[a] + f[k] /\ P[a] \in Nat /\ f[k] \in Nat
      BY <1>2, <2>3, <2>5, <3>1
    <3>5. P[x] = P[a] + f[k + 1]
      BY <3>2, <3>3, <3>4
    <3> QED
      BY <3>1, <3>5 DEF x
  <2>6. 0..m \subseteq S
    <3> HIDE DEF S
    <3> QED
      BY <2>1, <2>4, <2>5, InductionUpTo
  <2>7. P[a + m] = P[a] + f[m] /\ a \in 0..n /\ a + m \in 0..n /\ m \in 0..m
    BY <1>2, <2>1, <2>6
  <2>8. P[a] \in Nat /\ f[m] \in Nat
    BY <1>2, <2>3, <2>7
  <2>9. f[m] = P[s[2]] - P[a]
    BY <2>1, <2>7, <2>8
  <2> QED
    BY <2>3, <2>9 DEF u, a
<1> QED
  BY <1>2, <1>6, <1>7

\* There is a needle in a pattern that has a literal.
LEMMA NeedleFacts ==
  ASSUME NEW w \in Seq(Chars)
  PROVE  Needle(w) \in Seq(Chars)
<1>1. CASE Literals(w) = {}
  <2>1. << >> \in Seq(Chars)
    OBVIOUS
  <2> QED
    BY <1>1, <2>1 DEF Needle
<1>2. CASE Literals(w) # {}
  <2> DEFINE S == Literals(w)
             B(s) == Bytes(Slice(w, s))
             Better(s, o) == B(s) > B(o) \/ (B(s) = B(o) /\ s[1] < o[1])
  <2>1. PICK P \in [0..Len(w) -> Nat] :
          /\ \A j, k \in 0..Len(w) : j < k => P[j] < P[k]
          /\ \A s \in Spans(w) : B(s) = P[s[2]] - P[s[1]]
    BY BytesOfParts
  <2>2. Len(w) \in Nat /\ S # {} /\ S \subseteq Spans(w)
    BY <1>2 DEF Literals
  <2>3. \A s \in S : s[1] \in 0..Len(w) /\ s[2] \in 0..Len(w) /\ s[1] < s[2] /\ s = <<s[1], s[2]>>
    BY <2>2, SpanFacts
  <2>4. \A s \in S : /\ B(s) = P[s[2]] - P[s[1]]
                     /\ P[s[1]] \in Nat /\ P[s[2]] \in Nat /\ P[s[1]] < P[s[2]]
    BY <2>1, <2>2, <2>3
  <2>5. \A s \in S : B(s) \in Nat /\ B(s) <= P[Len(w)]
    <3> TAKE s \in S
    <3>1. Len(w) \in 0..Len(w) /\ (s[2] = Len(w) \/ s[2] < Len(w))
      BY <2>2, <2>3
    <3>2. P[s[2]] <= P[Len(w)] /\ P[Len(w)] \in Nat
      BY <2>1, <2>3, <3>1
    <3> QED
      BY <2>4, <3>2
  <2>6. P[Len(w)] \in Nat
    BY <2>1, <2>2
  \* Of two with one start, the longer one has more bytes.
  <2>7. \A s, o \in S : s[1] = o[1] /\ B(s) = B(o) => s = o
    <3> TAKE s, o \in S
    <3>1. HAVE s[1] = o[1] /\ B(s) = B(o)
    <3>2. P[s[2]] = P[o[2]]
      <4>1. P[s[2]] - P[s[1]] = P[o[2]] - P[s[1]]
        BY <2>4, <3>1
      <4>2. P[s[2]] \in Nat /\ P[o[2]] \in Nat /\ P[s[1]] \in Nat
        BY <2>4
      <4> QED
        BY <4>1, <4>2
    <3>3. ~ (s[2] < o[2]) /\ ~ (o[2] < s[2])
      BY <2>1, <2>3, <2>4, <3>2
    <3>4. s[2] = o[2]
      BY <2>3, <3>3
    <3> QED
      BY <2>3, <3>1, <3>4
  <2> HIDE DEF S, B
  <2> DEFINE W == {B(s) : s \in S}
             b == Max(W)
             T == {s \in S : B(s) = b}
             L == {s[1] : s \in T}
  <2>8. b \in W /\ \A x \in W : x <= b
    <3>1. W \in SUBSET Nat /\ W # {} /\ \A x \in W : x <= P[Len(w)]
      BY <2>2, <2>5
    <3> HIDE DEF W
    <3> QED
      BY <2>6, <3>1, MaxFacts
  <2>9. PICK a \in L : \A x \in L : a <= x
    <3> HIDE DEF b
    <3>1. L \in SUBSET Nat /\ L # {}
      BY <2>3, <2>8
    <3> HIDE DEF L
    <3> QED
      BY <3>1, LeastNatural
  <2> HIDE DEF b
  <2>10. PICK s \in S : B(s) = b /\ s[1] = a
    BY <2>9
  <2>11. \A o \in S \ {s} : Better(s, o)
    <3> TAKE o \in S \ {s}
    <3>1. B(o) <= b /\ B(o) \in Nat /\ b \in Nat /\ B(s) = b
      BY <2>5, <2>8, <2>10
    <3>2. CASE B(o) = b
      <4>1. a <= o[1] /\ o[1] \in Nat /\ a \in Nat
        BY <2>3, <2>9, <2>10, <3>2
      <4>2. o[1] # a
        BY <2>7, <2>10, <3>2
      <4> QED
        BY <2>10, <3>1, <3>2, <4>1, <4>2
    <3>3. CASE B(o) # b
      BY <3>1, <3>3
    <3> QED
      BY <3>2, <3>3
  <2>12. Needle(w) = Slice(w, CHOOSE x \in S : \A o \in S \ {x} : Better(x, o))
    BY <1>2, Zenon DEF Needle, S, B
  <2>13. PICK x \in S : Needle(w) = Slice(w, x)
    <3> HIDE DEF Better
    <3>1. (CHOOSE x \in S : \A o \in S \ {x} : Better(x, o)) \in S
      BY <2>10, <2>11
    <3> QED
      BY <2>12, <3>1
  <2>14. x \in Spans(w)
    BY <2>2 DEF S
  <2> QED
    BY <2>13, <2>14, SpanFacts
<1> QED
  BY <1>1, <1>2
-----------------------------------------------------------------------------
(* Previews *)

LEMMA PickedFacts ==
  ASSUME NEW doc, \A p \in DOMAIN doc : doc[p] \in Seq(Chars)
  PROVE  Picked(doc) \subseteq Seq(Chars)
<1>1. << >> \in Seq(Chars)
  OBVIOUS
<1>2. CASE Chosen(doc) = {}
  BY <1>1, <1>2 DEF Picked
<1>3. CASE Chosen(doc) # {}
  <2> DEFINE S == Chosen(doc)
             i == CHOOSE i \in S : \A j \in S : i <= j
  <2>1. S \in SUBSET Nat /\ S # {}
    BY <1>3 DEF Chosen, Preferred
  <2>2. i \in S
    <3> HIDE DEF S
    <3>1. \E x \in S : \A j \in S : x <= j
      BY <2>1, LeastNatural
    <3> QED
      BY <3>1
  <2> HIDE DEF i
  <2>3. Preferred[i] \in DOMAIN doc
    BY <2>2 DEF Chosen
  <2>4. Picked(doc) = {doc[Preferred[i]]}
    BY <1>3, Zenon DEF Picked, i
  <2> QED
    BY <2>3, <2>4
<1> QED
  BY <1>2, <1>3

\* What a search has found, and the texts of it.
LEMMA FoundFacts ==
  ASSUME GramsInv, NEW d \in found
  PROVE  /\ request \in Requests /\ request.wildcard \in Seq(Chars)
         /\ \A p \in DOMAIN docs[d + 1] : docs[d + 1][p] \in Seq(Chars)
         /\ ~ ByCli => HasCharacter(request.wildcard)
<1>1. TypeOK /\ SegmentInv /\ SearchInv
  BY DEF GramsInv
<1>2. d \in Ids /\ request # NoRequest
  BY <1>1 DEF TypeOK, SearchInv
<1>3. request \in Requests
  BY <1>1, <1>2 DEF TypeOK
<1>4. request.wildcard \in Seq(Chars)
  BY <1>3, GramsAssumption
<1>5. \A p \in DOMAIN docs[d + 1] : docs[d + 1][p] \in Seq(Chars)
  BY <1>1, <1>2, TextFacts
<1>6. ASSUME ~ ByCli PROVE HasCharacter(request.wildcard)
  <2>1. limit = 0
    BY <1>1, <1>6, GramsAssumption DEF TypeOK, ByCli
  <2>2. d \in SegmentHits(request)
    BY <1>1, <1>2, <2>1 DEF SearchInv, ByBroker
  <2>3. Required(request.wildcard) # {}
    BY <2>2 DEF SegmentHits
  <2> QED
    BY <1>4, <2>3, GramsNeedCharacter
<1> QED
  BY <1>3, <1>4, <1>5, <1>6

LEMMA MatchedFacts ==
  ASSUME NEW doc, NEW r, NEW t \in Matched(doc, r), \A p \in DOMAIN doc : doc[p] \in Seq(Chars)
  PROVE  t \in Seq(Chars) /\ Matches(r.wildcard, t)
BY DEF Matched
-----------------------------------------------------------------------------
(* Theorems *)

\* The index names stored documents only, and a search finds no other
\* (segjson.rs:53-67).
THEOREM TypeCorrect == Spec => []TypeOK
<1>1. GramsInv => TypeOK
  BY DEF GramsInv
<1> QED
  BY <1>1, InvHolds, PTL

\* The prefilter loses nothing that the regex would find and normalising again
\* would leave alone, and lets nothing through that the hot window would not
\* find: for all patterns and texts (segjson.rs:159-209, gram.rs:22).
THEOREM PrefilterLosesNothing == Spec => []SegmentAgreesWithHot
<1>1. ASSUME GramsInv PROVE SegmentAgreesWithHot
  <2> SUFFICES ASSUME ByBroker
               PROVE  /\ found \subseteq HotHits(request)
                      /\ Required(request.wildcard) # {} => Due(request) \subseteq found
    BY DEF SegmentAgreesWithHot
  <2>1. found = SegmentHits(request) /\ SegmentInv /\ request \in Requests
    BY <1>1 DEF GramsInv, SearchInv, TypeOK, ByBroker
  <2>2. \A d \in SegmentHits(request) : d \in Ids /\ Verifies(docs[d + 1], request)
    BY DEF SegmentHits, Prefilter
  <2>3. \A d \in Ids : docs[d + 1] = Stored(lines[d + 1])
    BY <2>1, TextFacts
  <2>4. found \subseteq HotHits(request)
    BY <2>1, <2>2, <2>3 DEF HotHits
  <2> QED
    BY <2>1, <2>4, BrokerFindsDue
<1> QED
  BY <1>1, InvHolds, PTL

\* Pages of gzctl that count candidates in the offset and hits in the limit
\* repeat hits and pass over none (main.rs:132-138).
THEOREM PagesPassOverNothing == Spec => []CliMissesNothing
<1>1. ASSUME GramsInv PROVE CliMissesNothing
  <2> SUFFICES ASSUME ByCli, Cardinality(page) < limit, Required(request.wildcard) # {},
                      NEW d \in Due(Normalised(request))
               PROVE  d \in found
    BY DEF CliMissesNothing
  <2>1. /\ request \in Requests /\ page = CliPage(request, limit, offset)
        /\ Passed(request, offset) \subseteq found /\ page \subseteq found
        /\ SegmentInv /\ limit \in Nat /\ offset \in Nat
    BY <1>1, GramsAssumption DEF GramsInv, SearchInv, TypeOK
  <2>2. d \in Prefilter(request) /\ Verifies(docs[d + 1], Normalised(request))
    BY <2>1, CliFindsDue
  <2>3. d \in Passed(request, offset) \cup CliPage(request, limit, offset)
    BY <2>1, <2>2, PageFacts
  <2> QED
    BY <2>1, <2>3
<1> QED
  BY <1>1, InvHolds, PTL

\* Grams and regex treat case apart and agree on it (normalizer.rs:4,
\* verify/mod.rs:27).
THEOREM CaseIsIgnored == Spec => []CaseDoesNotMatter
<1>1. ASSUME GramsInv PROVE CaseDoesNotMatter
  <2> SUFFICES ASSUME ByBroker
               PROVE  found = SegmentHits([request EXCEPT !.wildcard = LowerText(@)])
    BY DEF CaseDoesNotMatter
  <2>1. found = SegmentHits(request) /\ request \in Requests
    BY <1>1 DEF GramsInv, SearchInv, TypeOK, ByBroker
  <2> DEFINE low == [request EXCEPT !.wildcard = LowerText(@)]
             w == request.wildcard
  <2>2. /\ low.wildcard = LowerText(w) /\ low.field = request.field /\ w \in Seq(Chars)
    BY <2>1, GramsAssumption
  <2> HIDE DEF low
  <2>3. Required(low.wildcard) = Required(w)
    BY <2>2, CaseOfGrams
  <2>4. Prefilter(low) = Prefilter(request)
    BY <2>2, <2>3 DEF Prefilter
  <2>5. \A t : Matches(low.wildcard, t) <=> Matches(w, t)
    BY <2>2, CaseOfStarts
  <2>6. \A doc : Verifies(doc, low) <=> Verifies(doc, request)
    BY <2>2, <2>5 DEF Verifies
  <2>7. SegmentHits(low) = SegmentHits(request)
    BY <2>3, <2>4, <2>6 DEF SegmentHits
  <2> QED
    BY <2>1, <2>7 DEF low
<1> QED
  BY <1>1, InvHolds, PTL

\* The broker shows the match in brackets whenever it fits, and nothing else
\* between them (storage_adapter.rs:299-341).
THEOREM MatchIsShown == Spec => []MatchIsEnclosed
<1>1. ASSUME GramsInv PROVE MatchIsEnclosed
  <2> DEFINE w == request.wildcard
  <2> SUFFICES ASSUME ByBroker, NEW d \in found, NEW t \in Matched(docs[d + 1], request),
                      Find(w, t)[2] - Find(w, t)[1] <= MaxLen + 1
               PROVE  \E a, b \in DOMAIN BrokerPreview(t, request) :
                        /\ BrokerPreview(t, request)[a] = Open
                        /\ BrokerPreview(t, request)[b] = Close
                        /\ SubSeq(BrokerPreview(t, request), a + 1, b - 1) = Slice(t, Find(w, t))
                        /\ IsPart(Unmarked(BrokerPreview(t, request)), t)
    BY DEF MatchIsEnclosed
  <2>1. ~ ByCli
    BY DEF ByBroker, ByCli
  <2>2. w \in Seq(Chars) /\ HasCharacter(w)
        /\ \A p \in DOMAIN docs[d + 1] : docs[d + 1][p] \in Seq(Chars)
    BY <1>1, <2>1, FoundFacts
  <2>3. t \in Seq(Chars) /\ Matches(w, t)
    BY <2>2, MatchedFacts
  <2> DEFINE m == Find(w, t)
             shown == BrokerPreview(t, request)
  <2>4. m \in Spans(t)
    BY <2>2, <2>3, FindFacts
  <2>5. shown = Snippet(t, m, MaxLen) /\ MaxLen \in Nat
    BY PreviewAssumption DEF BrokerPreview, SnippetUtf8
  <2> HIDE DEF m, shown
  <2>6. Honest(shown, t, MaxLen) /\ Enclosed(shown, Slice(t, m))
    <3>1. m[2] - m[1] <= MaxLen + 1
      BY DEF m
    <3> QED
      BY <2>3, <2>4, <2>5, <3>1, SnippetFacts
  <2>7. \E a, b \in DOMAIN shown : /\ shown[a] = Open /\ shown[b] = Close
                                   /\ SubSeq(shown, a + 1, b - 1) = Slice(t, m)
                                   /\ IsPart(Unmarked(shown), t)
    BY <2>6 DEF Honest, Enclosed
  <2> QED
    BY <2>7, Zenon DEF shown, m
<1> QED
  BY <1>1, InvHolds, PTL

\* Every preview, of the broker, of gzctl and of the hot window, is a part of
\* the text it is made from, has its length, and owns up to what it leaves out
\* (common/preview.rs:18-35, 114-177).
THEOREM PreviewsAreHonest == Spec => []PreviewIsHonest
<1>1. ASSUME GramsInv PROVE PreviewIsHonest
  <2> SUFFICES ASSUME NEW d \in found,
                      NEW x \in (IF ByCli THEN CliPreviews(docs[d + 1], request)
                                 ELSE HotPreviews(docs[d + 1])
                                      \cup {<<t, BrokerPreview(t, request)>> :
                                              t \in Matched(docs[d + 1], request)})
               PROVE  Honest(x[2], x[1], MaxLen)
    BY Zenon DEF PreviewIsHonest, Honest
  <2> DEFINE w == request.wildcard
             doc == docs[d + 1]
  <2>1. /\ w \in Seq(Chars) /\ (~ ByCli => HasCharacter(w))
        /\ \A p \in DOMAIN doc : doc[p] \in Seq(Chars)
    BY <1>1, FoundFacts
  <2>2. MaxLen \in Nat /\ << >> \in Seq(Chars) /\ Picked(doc) \subseteq Seq(Chars)
    BY <2>1, PreviewAssumption, PickedFacts
  <2>3. CASE x \in CliPreviews(doc, request)
    <3>1. PICK t \in Picked(doc) : x = <<t, BuildPreview(t, Needle(Normalize(w)))>>
      BY <2>3 DEF CliPreviews
    <3>2. Needle(Normalize(w)) \in Seq(Chars)
      <4>1. Normalize(w) \in Seq(Chars)
        BY <2>1, NormalFacts
      <4> QED
        BY <4>1, NeedleFacts
    <3>3. t \in Seq(Chars)
      BY <2>2
    <3>4. Honest(BuildPreview(t, Needle(Normalize(w))), t, MaxLen)
      BY <3>2, <3>3, BuildPreviewFacts
    <3> QED
      BY <3>1, <3>4
  <2>4. CASE x \in HotPreviews(doc)
    <3>1. PICK t \in Picked(doc) : x = <<t, BuildPreview(t, << >>)>>
      BY <2>4 DEF HotPreviews
    <3>2. t \in Seq(Chars)
      BY <2>2
    <3>3. Honest(BuildPreview(t, << >>), t, MaxLen)
      BY <2>2, <3>2, BuildPreviewFacts
    <3> QED
      BY <3>1, <3>3
  <2>5. CASE ~ ByCli /\ x \in {<<t, BrokerPreview(t, request)>> : t \in Matched(doc, request)}
    <3>1. PICK t \in Matched(doc, request) : x = <<t, BrokerPreview(t, request)>>
      BY <2>5
    <3>2. t \in Seq(Chars) /\ Matches(w, t)
      BY <2>1, MatchedFacts
    <3>3. Find(w, t) \in Spans(t)
      BY <2>1, <2>5, <3>2, FindFacts
    <3>4. BrokerPreview(t, request) = Snippet(t, Find(w, t), MaxLen)
      BY DEF BrokerPreview, SnippetUtf8
    <3>5. Honest(Snippet(t, Find(w, t), MaxLen), t, MaxLen)
      BY <2>2, <3>2, <3>3, SnippetFacts
    <3> QED
      BY <3>1, <3>4, <3>5
  <2> QED
    BY <2>3, <2>4, <2>5
<1> QED
  BY <1>1, InvHolds, PTL
=============================================================================
