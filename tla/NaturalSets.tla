----------------------------- MODULE NaturalSets -----------------------------
(***************************************************************************)
(* Sets of naturals: the least, the greatest, and induction said of a set,  *)
(* for what the modules with proofs count, number and add up.               *)
(***************************************************************************)
EXTENDS Sorted, Sequences, FiniteSetsExt, FiniteSetTheorems, WellFoundedInduction, TLAPS

\* A set of naturals that is not empty has a least element.
LEMMA LeastNatural ==
  ASSUME NEW T \in SUBSET Nat, T # {}
  PROVE  \E n \in T : \A m \in T : n <= m
<1> DEFINE Less == OpToRel(<, Nat)
<1>1. IsWellFoundedOn(Less, Nat)
  BY NatLessThanWellFounded
<1>2. \A m, n \in Nat : m < n => <<m, n>> \in Less
  BY DEF OpToRel
<1> HIDE DEF Less
<1>3. PICK n \in T : \A m \in T : ~ (<<m, n>> \in Less)
  BY <1>1, WFMin
<1>4. \A m \in T : ~ (m < n)
  BY <1>2, <1>3
<1> QED
  BY <1>4

\* A set of naturals with a bound has a maximum, and Max finds it.
LEMMA MaxFacts ==
  ASSUME NEW S \in SUBSET Nat, S # {}, NEW b \in Nat, \A x \in S : x <= b
  PROVE  Max(S) \in S /\ \A x \in S : x <= Max(S)
<1> DEFINE T == {b - x : x \in S}
<1>1. T \in SUBSET Nat /\ T # {}
  <2>1. \A x \in S : x \in Nat /\ x <= b
    OBVIOUS
  <2>2. \A x \in S : b - x \in Nat
    BY <2>1
  <2> QED
    BY <2>2
<1>2. PICK n \in T : \A m \in T : n <= m
  BY <1>1, LeastNatural
<1>3. PICK z \in S : n = b - z
  BY <1>2
<1>4. \A y \in S : z >= y
  <2> TAKE y \in S
  <2>1. b - y \in T
    OBVIOUS
  <2>2. b - z <= b - y
    BY <2>1, <1>2, <1>3
  <2> QED
    BY <2>2
<1>5. Max(S) \in S /\ \A y \in S : Max(S) >= y
  BY <1>4 DEF Max
<1> QED
  BY <1>5

\* Induction, said of a set: one with zero and with the successor of each of its
\* members below N has all of 0..N.
LEMMA InductionUpTo ==
  ASSUME NEW N \in Nat, NEW S, 0 \in S, \A k \in 0..(N - 1) : k \in S => k + 1 \in S
  PROVE  0..N \subseteq S
<1> DEFINE Out == (0..N) \ S
<1>1. SUFFICES ASSUME Out # {} PROVE FALSE
  OBVIOUS
<1>2. Out \in SUBSET Nat
  OBVIOUS
<1> HIDE DEF Out
<1>3. PICK k \in Out : \A j \in Out : k <= j
  BY <1>1, <1>2, LeastNatural
<1>4. k \in 0..N /\ k \notin S /\ k # 0
  BY <1>3 DEF Out
<1>5. k - 1 \in 0..(N - 1) /\ ~ (k <= k - 1)
  BY <1>4
<1>6. k - 1 \in S
  BY <1>3, <1>5 DEF Out
<1> QED
  BY <1>4, <1>5, <1>6

\* f goes by step from a, up to m.
Goes(f, a, step, m) == f[0] = a /\ \A k \in 1..m : f[k] = step[k][f[k - 1]]

\* There is a function that goes by step all the way.
LEMMA Iterates ==
  ASSUME NEW T, NEW a \in T, NEW n \in Nat, NEW step \in [1..n -> [T -> T]]
  PROVE  \E f \in [0..n -> T] : Goes(f, a, step, n)
<1> DEFINE S == {m \in 0..n : \E f \in [0..n -> T] : Goes(f, a, step, m)}
<1>1. 0 \in S
  <2> DEFINE f == [k \in 0..n |-> a]
  <2>1. f \in [0..n -> T] /\ f[0] = a
    OBVIOUS
  <2>2. Goes(f, a, step, 0)
    BY <2>1 DEF Goes
  <2> QED
    BY <2>1, <2>2
<1>2. ASSUME NEW m \in 0..(n - 1), m \in S PROVE m + 1 \in S
  <2>1. PICK f \in [0..n -> T] : Goes(f, a, step, m)
    BY <1>2
  <2> DEFINE g == [f EXCEPT ![m + 1] = step[m + 1][f[m]]]
  <2>2. m + 1 \in 1..n /\ m \in 0..n /\ m + 1 \in 0..n /\ f[m] \in T
    OBVIOUS
  <2>3. step[m + 1][f[m]] \in T
    BY <2>2
  <2>4. g \in [0..n -> T] /\ g[m + 1] = step[m + 1][f[m]] /\ \A k \in 0..m : g[k] = f[k]
    BY <2>2, <2>3
  <2> HIDE DEF g
  <2>5. g[0] = a
    BY <2>1, <2>2, <2>4 DEF Goes
  <2>6. ASSUME NEW k \in 1..(m + 1) PROVE g[k] = step[k][g[k - 1]]
    <3>1. CASE k = m + 1
      <4>1. k - 1 = m /\ m \in 0..m
        BY <2>2, <3>1
      <4> QED
        BY <2>4, <3>1, <4>1
    <3>2. CASE k # m + 1
      <4>1. k \in 1..m /\ k \in 0..m /\ k - 1 \in 0..m
        BY <3>2
      <4> QED
        BY <2>1, <2>4, <4>1 DEF Goes
    <3> QED
      BY <3>1, <3>2
  <2>7. Goes(g, a, step, m + 1)
    BY <2>5, <2>6 DEF Goes
  <2> QED
    BY <2>2, <2>4, <2>7
<1>3. 0..n \subseteq S
  <2> HIDE DEF S
  <2> QED
    BY <1>1, <1>2, InductionUpTo
<1>4. n \in S
  BY <1>3
<1> QED
  BY <1>4
-----------------------------------------------------------------------------
(* Counting and ordering *)

\* A finite set of naturals has a bound.
LEMMA FiniteBound ==
  ASSUME NEW S \in SUBSET Nat, IsFiniteSet(S)
  PROVE  \E b \in Nat : \A x \in S : x <= b
<1> DEFINE n == Cardinality(S)
           A == {k \in 0..n : \A T \in SUBSET S :
                   Cardinality(T) = k => \E b \in Nat : \A x \in T : x <= b}
<1>0. n \in Nat
  BY FS_CardinalityType
<1>1. 0 \in A
  <2>1. ASSUME NEW T \in SUBSET S, Cardinality(T) = 0 PROVE \A x \in T : x <= 0
    <3>1. T = {}
      BY <2>1, FS_Subset, FS_EmptySet
    <3> QED
      BY <3>1
  <2> QED
    BY <1>0, <2>1
<1>2. ASSUME NEW k \in 0..(n - 1), k \in A PROVE k + 1 \in A
  <2>1. ASSUME NEW T \in SUBSET S, Cardinality(T) = k + 1
        PROVE  \E b \in Nat : \A x \in T : x <= b
    <3>1. IsFiniteSet(T)
      BY FS_Subset
    <3>2. T # {}
      BY <1>0, <2>1, FS_EmptySet
    <3>3. PICK y \in T : TRUE
      BY <3>2
    <3>4. Cardinality(T \ {y}) = k
      <4>1. Cardinality(T \ {y}) = Cardinality(T) - 1
        BY <3>1, <3>3, FS_RemoveElement
      <4> QED
        BY <1>0, <2>1, <4>1
    <3>5. PICK b \in Nat : \A x \in T \ {y} : x <= b
      BY <1>2, <3>4
    <3>6. y \in Nat /\ \A x \in T : x \in Nat
      BY <3>3
    <3>7. \A x \in T : x <= b + y
      BY <3>5, <3>6
    <3>8. b + y \in Nat
      BY <3>6
    <3> QED
      BY <3>7, <3>8
  <2>2. k + 1 \in 0..n
    BY <1>0
  <2> HIDE DEF n
  <2> QED
    BY <2>1, <2>2
<1>3. 0..n \subseteq A
  <2> HIDE DEF A, n
  <2> QED
    BY <1>0, <1>1, <1>2, InductionUpTo
<1> QED
  BY <1>0, <1>3

LEMMA UptoFacts ==
  ASSUME NEW S \in SUBSET Nat, IsFiniteSet(S), NEW d \in Int
  PROVE  /\ Upto(S, d) \in Nat /\ Upto(S, d) <= Cardinality(S) /\ Cardinality(S) \in Nat
         /\ \A c \in Int : c <= d => Upto(S, c) <= Upto(S, d)
<1>1. /\ Upto(S, d) \in Nat /\ Upto(S, d) <= Cardinality(S) /\ Cardinality(S) \in Nat
  <2>1. {x \in S : x <= d} \subseteq S
    OBVIOUS
  <2> QED
    BY <2>1, FS_Subset, FS_CardinalityType DEF Upto
<1>2. ASSUME NEW c \in Int, c <= d PROVE Upto(S, c) <= Upto(S, d)
  <2>0. \A x \in S : x <= c => x <= d
    <3>1. \A x \in S : x \in Int
      OBVIOUS
    <3> QED
      BY <1>2, <3>1
  <2>1. {x \in S : x <= c} \subseteq {x \in S : x <= d} /\ {x \in S : x <= d} \subseteq S
    BY <2>0, Zenon
  <2> QED
    BY <2>1, FS_Subset DEF Upto
<1> QED
  BY <1>1, <1>2

\* One further, one more, if it is in the set.
LEMMA UptoStep ==
  ASSUME NEW S \in SUBSET Nat, IsFiniteSet(S), NEW d \in Int
  PROVE  Upto(S, d) = Upto(S, d - 1) + (IF d \in S THEN 1 ELSE 0)
<1> DEFINE A == {x \in S : x <= d - 1}
           B == {x \in S : x <= d}
<1>0. /\ \A x \in S : x <= d <=> x <= d - 1 \/ x = d
      /\ ~ (d <= d - 1) /\ d <= d
  <2>1. \A x \in S : x \in Int
    OBVIOUS
  <2> QED
    BY <2>1
<1>1. A \subseteq S /\ d \notin A /\ B = (IF d \in S THEN A \cup {d} ELSE A)
  <2>1. A \subseteq S /\ d \notin A
    BY <1>0, Zenon
  <2>2. CASE d \in S
    <3>1. B = A \cup {d}
      BY <1>0, <2>2, Zenon
    <3> QED
      BY <2>1, <2>2, <3>1
  <2>3. CASE d \notin S
    <3>1. B = A
      BY <1>0, <2>3, Zenon
    <3> QED
      BY <2>1, <2>3, <3>1
  <2> QED
    BY <2>2, <2>3
<1>2. Upto(S, d) = Cardinality(B) /\ Upto(S, d - 1) = Cardinality(A)
  BY DEF Upto
<1> HIDE DEF A, B
<1>3. IsFiniteSet(A) /\ Cardinality(A) \in Nat
  BY <1>1, FS_Subset, FS_CardinalityType
<1>4. CASE d \in S
  <2>1. Cardinality(A \cup {d}) = Cardinality(A) + 1
    BY <1>1, <1>3, FS_AddElement
  <2> QED
    BY <1>1, <1>2, <1>4, <2>1
<1>5. CASE d \notin S
  BY <1>1, <1>2, <1>3, <1>5
<1> QED
  BY <1>4, <1>5

\* Each place of a set has a member.
LEMMA NthFacts ==
  ASSUME NEW S \in SUBSET Nat, IsFiniteSet(S), NEW i \in 1..Cardinality(S)
  PROVE  Nth(S, i) \in S /\ Upto(S, Nth(S, i)) = i
<1> DEFINE T == {d \in Nat : i <= Upto(S, d)}
<1>1. Cardinality(S) \in Nat
  BY FS_CardinalityType
<1>2. PICK b \in Nat : \A x \in S : x <= b
  BY FiniteBound
<1>3. Upto(S, b) = Cardinality(S)
  <2>1. {x \in S : x <= b} = S
    BY <1>2
  <2> QED
    BY <2>1 DEF Upto
<1>4. Upto(S, -1) = 0
  <2>1. \A x \in S : x \in Nat /\ ~ (x <= -1)
    OBVIOUS
  <2>2. {x \in S : x <= -1} = {}
    BY <2>1
  <2> QED
    BY <2>2, FS_EmptySet DEF Upto
<1>5. PICK d \in T : \A c \in T : d <= c
  <2>1. T \in SUBSET Nat /\ b \in T
    BY <1>1, <1>3
  <2> QED
    BY <2>1, LeastNatural
<1>6. /\ d \in Nat /\ i <= Upto(S, d) /\ Upto(S, d) \in Nat /\ Upto(S, d - 1) \in Nat
      /\ Upto(S, d) = Upto(S, d - 1) + (IF d \in S THEN 1 ELSE 0)
  BY <1>5, UptoFacts, UptoStep
<1>7. Upto(S, d - 1) < i
  <2>1. CASE d = 0
    BY <1>4, <2>1
  <2>2. CASE d # 0
    <3>1. d - 1 \in Nat /\ ~ (d <= d - 1)
      BY <1>6, <2>2
    <3>2. d - 1 \notin T
      BY <1>5, <3>1
    <3> QED
      BY <1>6, <3>1, <3>2
  <2> QED
    BY <2>1, <2>2
<1>8. d \in S /\ Upto(S, d) = i
  BY <1>6, <1>7
<1> QED
  BY <1>8 DEF Nth

\* Ascending(S) is S in ascending order: each member once.
LEMMA AscendingFacts ==
  ASSUME NEW S \in SUBSET Nat, IsFiniteSet(S)
  PROVE  /\ Ascending(S) \in Seq(S) /\ Len(Ascending(S)) = Cardinality(S)
         /\ Cardinality(S) \in Nat
         /\ \A i \in 1..Cardinality(S) : Ascending(S)[i] \in S
         /\ \A i, j \in 1..Cardinality(S) : i < j => Ascending(S)[i] < Ascending(S)[j]
         /\ \A d \in S : \E i \in 1..Cardinality(S) : Ascending(S)[i] = d
<1> DEFINE n == Cardinality(S)
           s == Ascending(S)
<1>0. n \in Nat
  BY FS_CardinalityType
<1>1. \A i \in 1..n : s[i] \in S /\ Upto(S, s[i]) = i
  BY NthFacts DEF Ascending
<1>2. s \in Seq(S) /\ Len(s) = n
  BY <1>0, <1>1 DEF Ascending
<1>3. ASSUME NEW i \in 1..n, NEW j \in 1..n, i < j PROVE s[i] < s[j]
  <2>1. s[i] \in Nat /\ s[j] \in Nat /\ Upto(S, s[i]) = i /\ Upto(S, s[j]) = j
    BY <1>1
  <2>2. ~ (s[j] <= s[i])
    BY <1>0, <1>3, <2>1, UptoFacts
  <2> QED
    BY <2>1, <2>2
<1>4. ASSUME NEW d \in S PROVE \E i \in 1..n : s[i] = d
  <2> DEFINE i == Upto(S, d)
             c == s[i]
  <2>1. d \in Nat /\ i \in 1..n
    BY UptoFacts, UptoStep
  <2>2. c \in S /\ c \in Nat /\ Upto(S, c) = i
    BY <1>1, <2>1
  <2> HIDE DEF c
  <2>3. ~ (c < d)
    <3>1. Upto(S, d) = Upto(S, d - 1) + 1 /\ Upto(S, d - 1) \in Nat
      BY <2>1, UptoFacts, UptoStep
    <3>2. c < d => Upto(S, c) <= Upto(S, d - 1)
      BY <2>1, <2>2, UptoFacts
    <3> QED
      BY <2>2, <3>1, <3>2
  <2>4. ~ (d < c)
    <3>1. Upto(S, c) = Upto(S, c - 1) + 1 /\ Upto(S, c - 1) \in Nat
      BY <2>2, UptoFacts, UptoStep
    <3>2. d < c => Upto(S, d) <= Upto(S, c - 1)
      BY <2>1, <2>2, UptoFacts
    <3> QED
      BY <2>2, <3>1, <3>2
  <2> QED
    BY <2>1, <2>2, <2>3, <2>4 DEF c
<1> QED
  BY <1>0, <1>1, <1>2, <1>3, <1>4
=============================================================================
