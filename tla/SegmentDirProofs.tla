--------------------------- MODULE SegmentDirProofs ---------------------------
(***************************************************************************)
(* Proofs about PostingsCodec for every base of the varints and every set   *)
(* of doc_ids, and about SegmentDir for every set of grams, inputs and      *)
(* queries and any number of builds.                                        *)
(***************************************************************************)
EXTENDS SegmentDir, NaturalSets
-----------------------------------------------------------------------------
(* One varint is written *)

\* What put_varint writes, for all numbers up to x.
Puts(f, x) ==
  f = [n \in 0..x |-> IF n < Base THEN <<n>> ELSE <<Base + (n % Base)>> \o f[n \div Base]]

LEMMA Digits ==
  ASSUME NEW x \in Nat
  PROVE  /\ x \div Base \in Nat /\ x % Base \in Nat /\ x % Base < Base
         /\ x = Base * (x \div Base) + (x % Base)
         /\ (Base + (x % Base)) % Base = x % Base
         /\ x >= Base => x \div Base < x
<1>1. Base \in Nat /\ Base > 1
  BY BaseAssumption
<1>2. /\ x \div Base \in Nat /\ x % Base \in Nat /\ x % Base < Base
      /\ x = Base * (x \div Base) + (x % Base)
  BY <1>1
<1>3. (Base + (x % Base)) % Base = x % Base
  <2> DEFINE r == x % Base
             y == Base + r
             q == y \div Base
             t == y % Base
  <2>1. r \in Nat /\ r < Base /\ y \in Nat
    BY <1>1, <1>2
  <2>2. q \in Nat /\ t \in Nat /\ t < Base /\ y = Base * q + t
    BY <1>1, <2>1
  <2> HIDE DEF r, q, t
  <2>3. Base + r = Base * q + t
    BY <2>2
  <2>4. q = 1
    <3>1. ~ (q >= 2)
      <4>1. q >= 2 => Base * q >= Base * 2
        BY <1>1, <2>2
      <4> QED
        BY <1>1, <2>1, <2>2, <2>3, <4>1
    <3>2. q # 0
      BY <1>1, <2>1, <2>2, <2>3
    <3> QED
      BY <2>2, <3>1, <3>2
  <2> QED
    BY <1>1, <2>1, <2>2, <2>3, <2>4 DEF t, r
<1>4. ASSUME x >= Base PROVE x \div Base < x
  <2> DEFINE q == x \div Base
  <2>1. q \in Nat /\ x >= Base * q
    BY <1>1, <1>2
  <2> HIDE DEF q
  <2>2. Base * q >= 2 * q
    BY <1>1, <2>1
  <2>3. q < x
    BY <1>1, <1>4, <2>1, <2>2
  <2> QED
    BY <2>3 DEF q
<1> QED
  BY <1>2, <1>3, <1>4

\* One turn of put_varint, given what is written for smaller numbers.
Turn(f, n) == IF n < Base THEN <<n>> ELSE <<Base + (n % Base)>> \o f[n \div Base]

LEMMA TurnFacts ==
  ASSUME NEW n \in Nat, NEW f, NEW g,
         \A k \in 0..(n - 1) : f[k] \in Seq(Nat) /\ f[k] = g[k]
  PROVE  Turn(f, n) \in Seq(Nat) /\ Turn(f, n) = Turn(g, n)
<1>1. Base \in Nat /\ n \div Base \in Nat /\ n % Base \in Nat
  BY BaseAssumption, Digits
<1>2. CASE n < Base
  BY <1>2 DEF Turn
<1>3. CASE ~ (n < Base)
  <2>1. n \div Base \in 0..(n - 1)
    <3> DEFINE q == n \div Base
    <3>1. q \in Nat /\ q < n
      BY <1>1, <1>3, Digits
    <3> HIDE DEF q
    <3>2. q \in 0..(n - 1)
      BY <3>1
    <3> QED
      BY <3>2 DEF q
  <2>2. f[n \div Base] \in Seq(Nat) /\ f[n \div Base] = g[n \div Base]
    BY <2>1
  <2>3. <<Base + (n % Base)>> \in Seq(Nat)
    BY <1>1
  <2>4. Turn(f, n) = <<Base + (n % Base)>> \o f[n \div Base]
    BY <1>3 DEF Turn
  <2>5. Turn(g, n) = <<Base + (n % Base)>> \o f[n \div Base]
    BY <1>3, <2>2 DEF Turn
  <2> QED
    BY <2>2, <2>3, <2>4, <2>5
<1> QED
  BY <1>2, <1>3

LEMMA PutsExists ==
  ASSUME NEW x \in Nat
  PROVE  \E f \in [0..x -> Seq(Nat)] : Puts(f, x)
<1> DEFINE S == {m \in 0..x : \E f \in [0..m -> Seq(Nat)] : \A n \in 0..m : f[n] = Turn(f, n)}
<1>1. 0 \in S
  <2> DEFINE f == [n \in 0..0 |-> <<0>>]
  <2>1. f \in [0..0 -> Seq(Nat)] /\ \A n \in 0..0 : n = 0 /\ f[n] = <<0>>
    OBVIOUS
  <2>2. Turn(f, 0) = <<0>>
    BY BaseAssumption DEF Turn
  <2> HIDE DEF f
  <2>3. \A n \in 0..0 : f[n] = Turn(f, n)
    BY <2>1, <2>2
  <2> QED
    BY <2>1, <2>3
<1>2. ASSUME NEW m \in 0..(x - 1), m \in S PROVE m + 1 \in S
  <2>1. PICK f \in [0..m -> Seq(Nat)] : \A n \in 0..m : f[n] = Turn(f, n)
    BY <1>2
  <2> DEFINE v == Turn(f, m + 1)
             g == [n \in 0..(m + 1) |-> IF n = m + 1 THEN v ELSE f[n]]
  <2>2. m \in Nat /\ m + 1 \in Nat /\ (m + 1) - 1 = m /\ \A n \in 0..m : f[n] \in Seq(Nat)
    OBVIOUS
  <2>3. v \in Seq(Nat)
    <3>1. \A k \in 0..((m + 1) - 1) : f[k] \in Seq(Nat) /\ f[k] = f[k]
      BY <2>2
    <3> QED
      BY <2>2, <3>1, TurnFacts
  <2> HIDE DEF v
  <2>4. /\ g \in [0..(m + 1) -> Seq(Nat)] /\ g[m + 1] = v
        /\ \A n \in 0..m : g[n] = f[n] /\ g[n] \in Seq(Nat)
    <3>1. \A n \in 0..(m + 1) : n = m + 1 \/ n \in 0..m
      BY <2>2
    <3>2. m + 1 \notin 0..m
      BY <2>2
    <3>3. \A n \in 0..m : n \in 0..(m + 1) /\ n # m + 1
      BY <2>2
    <3> QED
      BY <2>2, <2>3, <3>1, <3>2, <3>3
  <2> HIDE DEF g
  <2>5. ASSUME NEW n \in 0..(m + 1) PROVE g[n] = Turn(g, n)
    <3>1. n \in Nat /\ \A k \in 0..(n - 1) : k \in 0..m
      BY <2>2
    <3>2. Turn(g, n) = Turn(f, n)
      <4>1. \A k \in 0..(n - 1) : g[k] \in Seq(Nat) /\ g[k] = f[k]
        BY <2>4, <3>1
      <4> QED
        BY <3>1, <4>1, TurnFacts
    <3>3. n = m + 1 \/ n \in 0..m
      BY <2>2
    <3> QED
      BY <2>1, <2>4, <3>2, <3>3 DEF v
  <2>6. m + 1 \in 0..x
    OBVIOUS
  <2> QED
    BY <2>4, <2>5, <2>6
<1>3. 0..x \subseteq S
  <2> HIDE DEF S
  <2> QED
    BY <1>1, <1>2, InductionUpTo
<1>4. PICK f \in [0..x -> Seq(Nat)] : \A n \in 0..x : f[n] = Turn(f, n)
  <2>1. x \in S
    BY <1>3
  <2> QED
    BY <2>1
<1>5. f = [n \in 0..x |-> IF n < Base THEN <<n>> ELSE <<Base + (n % Base)>> \o f[n \div Base]]
  BY <1>4 DEF Turn
<1> QED
  BY <1>5 DEF Puts

\* put_varint, as it goes from a number to a smaller one.
LEMMA PutVarintFacts ==
  ASSUME NEW x \in Nat
  PROVE  /\ PutVarint(x) \in Seq(Nat)
         /\ PutVarint(x) = IF x < Base THEN <<x>>
                           ELSE <<Base + (x % Base)>> \o PutVarint(x \div Base)
<1> DEFINE P(y) == CHOOSE f : Puts(f, y)
<1>1. ASSUME NEW y \in Nat
      PROVE  /\ PutVarint(y) = P(y)[y]
             /\ \A n \in 0..y : P(y)[n] = Turn(P(y), n)
             /\ \A n \in 0..y : P(y)[n] \in Seq(Nat)
  <2>1. PutVarint(y) = P(y)[y]
    BY DEF PutVarint, Puts
  <2>2. PICK f \in [0..y -> Seq(Nat)] : Puts(f, y)
    BY PutsExists
  <2>3. Puts(P(y), y)
    BY <2>2
  <2> DEFINE g == P(y)
  <2>4. g = [n \in 0..y |-> IF n < Base THEN <<n>> ELSE <<Base + (n % Base)>> \o g[n \div Base]]
    BY <2>3 DEF Puts
  <2> HIDE DEF g
  <2>5. \A n \in 0..y : g[n] = Turn(g, n)
    BY <2>4 DEF Turn
  <2>6. \A n \in 0..y : g[n] \in Seq(Nat)
    <3> DEFINE Bad == {n \in 0..y : g[n] \notin Seq(Nat)}
    <3>1. SUFFICES ASSUME Bad # {} PROVE FALSE
      OBVIOUS
    <3>0. Bad \in SUBSET Nat
      OBVIOUS
    <3>2. PICK n \in Bad : \A k \in Bad : n <= k
      BY <3>0, <3>1, LeastNatural
    <3>3. n \in Nat /\ \A k \in 0..(n - 1) : k \in 0..y /\ ~ (n <= k)
      OBVIOUS
    <3>4. \A k \in 0..(n - 1) : g[k] \in Seq(Nat) /\ g[k] = g[k]
      BY <3>2, <3>3
    <3>5. Turn(g, n) \in Seq(Nat)
      BY <3>3, <3>4, TurnFacts
    <3> QED
      BY <2>5, <3>5
  <2> QED
    BY <2>1, <2>5, <2>6 DEF g
<1> HIDE DEF P
<1>2. PutVarint(x) = Turn(P(x), x) /\ PutVarint(x) \in Seq(Nat)
  BY <1>1
<1>3. CASE x < Base
  BY <1>2, <1>3 DEF Turn
<1>4. CASE ~ (x < Base)
  <2> DEFINE q == x \div Base
  <2>1. q \in Nat /\ q \in 0..x
    BY <1>4, Digits, BaseAssumption
  <2>2. PutVarint(x) = <<Base + (x % Base)>> \o P(x)[q]
    BY <1>2, <1>4 DEF Turn
  <2> HIDE DEF q
  <2>3. \A n \in 0..q : P(x)[n] = P(q)[n]
    <3> DEFINE Bad == {n \in 0..q : P(x)[n] # P(q)[n]}
    <3>1. SUFFICES ASSUME Bad # {} PROVE FALSE
      OBVIOUS
    <3>0. Bad \in SUBSET Nat
      BY <2>1
    <3>2. PICK n \in Bad : \A k \in Bad : n <= k
      BY <3>0, <3>1, LeastNatural
    <3>3. n \in Nat /\ n \in 0..q /\ n \in 0..x /\ P(x)[n] # P(q)[n]
      BY <2>1
    <3>4. \A k \in 0..(n - 1) : k \in 0..q /\ k \in 0..x /\ ~ (n <= k)
      BY <2>1, <3>3
    <3>5. \A k \in 0..(n - 1) : P(x)[k] \in Seq(Nat) /\ P(x)[k] = P(q)[k]
      BY <1>1, <3>2, <3>4
    <3>6. Turn(P(x), n) = Turn(P(q), n)
      BY <3>3, <3>5, TurnFacts
    <3> QED
      BY <1>1, <2>1, <3>3, <3>6
  <2>4. P(x)[q] = PutVarint(q)
    BY <1>1, <2>1, <2>3
  <2> QED
    BY <1>2, <1>4, <2>2, <2>4 DEF q
<1> QED
  BY <1>3, <1>4

\* A reader of varints, between two bytes.
Readers == [read : Seq(Nat), val : Nat, unit : Nat]

LEMMA TakeByteFacts ==
  ASSUME NEW s \in Readers, NEW b \in Nat
  PROVE  TakeByte(s, b) \in Readers
<1>1. /\ s = [read |-> s.read, val |-> s.val, unit |-> s.unit]
      /\ s.read \in Seq(Nat) /\ s.val \in Nat /\ s.unit \in Nat
  BY DEF Readers
<1>2. Base \in Nat /\ b % Base \in Nat
  BY BaseAssumption, Digits
<1>3. \A m, n \in Nat : m * n \in Nat
  OBVIOUS
<1>4. CASE b >= Base
  <2> DEFINE v == s.val + (b % Base) * s.unit
             u == s.unit * Base
  <2>1. v \in Nat /\ u \in Nat
    BY <1>1, <1>2, <1>3
  <2>2. TakeByte(s, b) = [read |-> s.read, val |-> v, unit |-> u]
    BY <1>1, <1>4 DEF TakeByte
  <2> HIDE DEF v, u
  <2> QED
    BY <1>1, <2>1, <2>2 DEF Readers
<1>5. CASE ~ (b >= Base)
  <2> DEFINE v == s.val + b * s.unit
  <2>1. v \in Nat
    BY <1>1, <1>3
  <2>2. TakeByte(s, b) = [read |-> Append(s.read, v), val |-> 0, unit |-> 1]
    BY <1>5 DEF TakeByte
  <2> HIDE DEF v
  <2> QED
    BY <1>1, <2>1, <2>2 DEF Readers
<1> QED
  BY <1>4, <1>5

\* f is where a reader stands after each byte.
Follows(f, s, bytes, m) == f[0] = s /\ \A k \in 1..m : f[k] = TakeByte(f[k - 1], bytes[k])
Feeds(f, s, bytes) == f \in [0..Len(bytes) -> Readers] /\ Follows(f, s, bytes, Len(bytes))

LEMMA FeedFacts ==
  ASSUME NEW s \in Readers, NEW bytes \in Seq(Nat)
  PROVE  \E f : Feeds(f, s, bytes) /\ Feed(s, bytes) = f[Len(bytes)]
<1> DEFINE n == Len(bytes)
           Is(f) == f = [k \in 0..n |-> IF k = 0 THEN s ELSE TakeByte(f[k - 1], bytes[k])]
           g == CHOOSE f : Is(f)
           step == [k \in 1..n |-> [t \in Readers |-> TakeByte(t, bytes[k])]]
<1>1. Feed(s, bytes) = g[n]
  BY DEF Feed
<1>2. n \in Nat /\ \A k \in 1..n : bytes[k] \in Nat
  OBVIOUS
<1>3. \A k \in 1..n, t \in Readers : TakeByte(t, bytes[k]) \in Readers
  BY <1>2, TakeByteFacts
<1>4. step \in [1..n -> [Readers -> Readers]]
  BY <1>3
<1>5. \A k \in 1..n, t \in Readers : step[k][t] = TakeByte(t, bytes[k])
  OBVIOUS
<1> HIDE DEF n, step
<1>6. PICK f \in [0..n -> Readers] : Goes(f, s, step, n)
  BY <1>2, <1>4, Iterates
<1>7. Is(f)
  <2>1. \A k \in 0..n : k # 0 => k \in 1..n /\ k - 1 \in 0..n
    BY <1>2
  <2>2. \A k \in 0..n : k # 0 => f[k - 1] \in Readers
    BY <2>1
  <2>3. \A k \in 0..n : f[k] = IF k = 0 THEN s ELSE TakeByte(f[k - 1], bytes[k])
    BY <1>5, <1>6, <2>1, <2>2 DEF Goes
  <2> QED
    BY <2>3
<1>8. Is(g)
  BY <1>7
<1> HIDE DEF g
<1>9. \A k \in 0..n : g[k] = IF k = 0 THEN s ELSE TakeByte(g[k - 1], bytes[k])
  BY <1>8
<1>10. g[0] = s /\ \A k \in 1..n : g[k] = TakeByte(g[k - 1], bytes[k])
  <2>1. 0 \in 0..n /\ \A k \in 1..n : k \in 0..n /\ k # 0
    BY <1>2
  <2> QED
    BY <1>9, <2>1
<1>11. g \in [0..n -> Readers]
  <2> DEFINE S == {k \in 0..n : g[k] \in Readers}
  <2>1. 0 \in S
    BY <1>2, <1>10
  <2>2. ASSUME NEW k \in 0..(n - 1), k \in S PROVE k + 1 \in S
    <3>1. k + 1 \in 1..n /\ (k + 1) - 1 = k /\ k + 1 \in 0..n
      BY <1>2
    <3>2. g[k + 1] = TakeByte(g[k], bytes[k + 1])
      BY <1>10, <3>1
    <3> QED
      BY <1>2, <2>2, <3>1, <3>2, TakeByteFacts
  <2>3. 0..n \subseteq S
    <3> HIDE DEF S
    <3> QED
      BY <1>2, <2>1, <2>2, InductionUpTo
  <2>4. g = [k \in 0..n |-> g[k]]
    BY <1>8
  <2> QED
    BY <2>3, <2>4
<1>12. Feeds(g, s, bytes)
  BY <1>10, <1>11 DEF Feeds, Follows, n
<1> QED
  BY <1>1, <1>12 DEF n

\* Two ways to stand after each byte are the same.
LEMMA FeedsOnce ==
  ASSUME NEW s \in Readers, NEW bytes \in Seq(Nat), NEW f, NEW m \in 0..Len(bytes),
         Follows(f, s, bytes, m), NEW g, Feeds(g, s, bytes)
  PROVE  f[m] = g[m]
<1> DEFINE S == {k \in 0..m : f[k] = g[k]}
<1>1. m \in Nat /\ m <= Len(bytes) /\ Len(bytes) \in Nat
  OBVIOUS
<1>2. 0 \in S
  BY <1>1 DEF Feeds, Follows
<1>3. ASSUME NEW k \in 0..(m - 1), k \in S PROVE k + 1 \in S
  <2>1. k + 1 \in 1..m /\ (k + 1) - 1 = k /\ k + 1 \in 1..Len(bytes) /\ k + 1 \in 0..m
    BY <1>1
  <2> QED
    BY <1>3, <2>1 DEF Feeds, Follows
<1>4. 0..m \subseteq S
  <2> HIDE DEF S
  <2> QED
    BY <1>1, <1>2, <1>3, InductionUpTo
<1> QED
  BY <1>1, <1>4

LEMMA FeedOne ==
  ASSUME NEW s \in Readers, NEW b \in Nat
  PROVE  Feed(s, <<b>>) = TakeByte(s, b)
<1>1. PICK f : Feeds(f, s, <<b>>) /\ Feed(s, <<b>>) = f[Len(<<b>>)]
  <2>1. <<b>> \in Seq(Nat)
    OBVIOUS
  <2> QED
    BY <2>1, FeedFacts, Zenon
<1>2. Len(<<b>>) = 1 /\ 1 \in 1..1 /\ 1 - 1 = 0 /\ <<b>>[1] = b
  OBVIOUS
<1> QED
  BY <1>1, <1>2 DEF Feeds, Follows

LEMMA FeedNone ==
  ASSUME NEW s \in Readers
  PROVE  Feed(s, << >>) = s
<1>1. PICK f : Feeds(f, s, << >>) /\ Feed(s, << >>) = f[Len(<< >>)]
  <2>1. << >> \in Seq(Nat)
    OBVIOUS
  <2> QED
    BY <2>1, FeedFacts, Zenon
<1> QED
  BY <1>1 DEF Feeds, Follows

\* Some bytes and then some more.
LEMMA FeedBoth ==
  ASSUME NEW s \in Readers, NEW a \in Seq(Nat), NEW b \in Seq(Nat)
  PROVE  Feed(s, a \o b) = Feed(Feed(s, a), b) /\ Feed(s, a) \in Readers
<1> DEFINE m == Len(a)
           n == Len(b)
           ab == a \o b
<1>1. /\ m \in Nat /\ n \in Nat /\ ab \in Seq(Nat) /\ Len(ab) = m + n
      /\ \A k \in 1..m : ab[k] = a[k]
      /\ \A k \in 1..n : ab[m + k] = b[k]
  OBVIOUS
<1>2. PICK f : Feeds(f, s, a) /\ Feed(s, a) = f[m]
  BY FeedFacts
<1>3. f[m] \in Readers
  <2>1. m \in 0..Len(a)
    OBVIOUS
  <2> HIDE DEF m
  <2> QED
    BY <1>2, <2>1 DEF Feeds
<1>4. PICK g : Feeds(g, f[m], b) /\ Feed(f[m], b) = g[n]
  BY <1>3, FeedFacts
<1>5. PICK h : Feeds(h, s, ab) /\ Feed(s, ab) = h[Len(ab)]
  BY <1>1, FeedFacts
<1> HIDE DEF m, n, ab
<1>6. h[m] = f[m]
  <2>1. m \in 0..Len(ab) /\ \A k \in 1..m : k \in 1..Len(a)
    BY <1>1 DEF m
  <2>2. Follows(f, s, ab, m)
    BY <1>1, <1>2, <2>1 DEF Feeds, Follows
  <2>3. ab \in Seq(Nat) /\ Feeds(h, s, ab)
    BY <1>1, <1>5
  <2>4. f[m] = h[m]
    BY <2>1, <2>2, <2>3, FeedsOnce
  <2> QED
    BY <2>4
<1>7. h[m + n] = g[n]
  <2> DEFINE e == [k \in 0..n |-> h[m + k]]
  <2>1. e[0] = f[m]
    BY <1>1, <1>6
  <2>2. \A k \in 1..n : e[k] = TakeByte(e[k - 1], b[k])
    <3> TAKE k \in 1..n
    <3>1. /\ m + k \in 1..Len(ab) /\ (m + k) - 1 = m + (k - 1)
          /\ k \in 0..n /\ k - 1 \in 0..n
      BY <1>1
    <3>2. h[m + k] = TakeByte(h[m + (k - 1)], ab[m + k])
      BY <1>5, <3>1 DEF Feeds, Follows
    <3> QED
      BY <1>1, <3>1, <3>2
  <2>3. e[n] = h[m + n]
    BY <1>1
  <2> HIDE DEF e
  <2>4. n \in 0..Len(b)
    BY <1>1 DEF n
  <2>5. Follows(e, f[m], b, n)
    BY <2>1, <2>2 DEF Follows
  <2>6. e[n] = g[n]
    BY <1>3, <1>4, <2>4, <2>5, FeedsOnce
  <2> QED
    BY <2>3, <2>6
<1> QED
  BY <1>1, <1>2, <1>3, <1>4, <1>5, <1>7 DEF ab

\* Of what put_varint writes get_uvar makes the number again.
LEMMA Varint ==
  ASSUME NEW x \in Nat, NEW s \in Readers
  PROVE  /\ PutVarint(x) \in Seq(Nat)
         /\ Feed(s, PutVarint(x)) =
              [read |-> Append(s.read, s.val + x * s.unit), val |-> 0, unit |-> 1]
<1> DEFINE Right(y, t) ==
             Feed(t, PutVarint(y)) =
               [read |-> Append(t.read, t.val + y * t.unit), val |-> 0, unit |-> 1]
           Bad == {y \in Nat : \E t \in Readers : ~ Right(y, t)}
<1>0. PutVarint(x) \in Seq(Nat)
  BY PutVarintFacts
<1>1. SUFFICES ASSUME Bad # {} PROVE FALSE
  BY <1>0
<1>2. Bad \in SUBSET Nat
  OBVIOUS
<1>3. PICK y \in Bad : \A z \in Bad : y <= z
  BY <1>1, <1>2, LeastNatural
<1>4. PICK t \in Readers : ~ Right(y, t)
  OBVIOUS
<1>5. /\ y \in Nat /\ Base \in Nat /\ Base > 1
      /\ t.read \in Seq(Nat) /\ t.val \in Nat /\ t.unit \in Nat
  BY <1>2, BaseAssumption DEF Readers
<1>6. CASE y < Base
  <2>1. PutVarint(y) = <<y>>
    BY <1>5, <1>6, PutVarintFacts
  <2>2. Feed(t, <<y>>) = TakeByte(t, y)
    BY <1>5, FeedOne
  <2>3. ~ (y >= Base)
    BY <1>5, <1>6
  <2>4. Right(y, t)
    BY <2>1, <2>2, <2>3, Zenon DEF TakeByte
  <2> QED
    BY <1>4, <2>4
<1>7. CASE ~ (y < Base)
  <2> DEFINE q == y \div Base
             r == y % Base
             v == t.val + r * t.unit
             u == t.unit * Base
             w == [read |-> t.read, val |-> v, unit |-> u]
  <2>1. /\ q \in Nat /\ r \in Nat /\ r < Base /\ y = Base * q + r
        /\ (Base + r) % Base = r /\ q < y
    <3>1. y \in Nat /\ y >= Base
      BY <1>5, <1>7
    <3> QED
      BY <3>1, Digits, Zenon
  <2>2. PutVarint(y) = <<Base + r>> \o PutVarint(q) /\ PutVarint(q) \in Seq(Nat)
    BY <1>5, <1>7, <2>1, PutVarintFacts
  <2> HIDE DEF q, r
  <2>3. v \in Nat /\ u \in Nat /\ Base + r \in Nat /\ Base + r >= Base
    <3>1. \A m, n \in Nat : m * n \in Nat
      OBVIOUS
    <3>2. r * t.unit \in Nat /\ u \in Nat
      BY <1>5, <2>1, <3>1
    <3>3. v \in Nat
      <4> DEFINE p == r * t.unit
      <4>1. p \in Nat
        BY <3>2
      <4> HIDE DEF p
      <4>2. t.val + p \in Nat
        BY <1>5, <4>1
      <4> QED
        BY <4>2 DEF p
    <3>4. Base + r \in Nat /\ Base + r >= Base
      BY <1>5, <2>1
    <3> QED
      BY <3>2, <3>3, <3>4
  <2>4. t = [read |-> t.read, val |-> t.val, unit |-> t.unit]
    BY DEF Readers
  <2>5. TakeByte(t, Base + r) = w
    BY <2>1, <2>3, <2>4 DEF TakeByte
  <2>6. v + q * u = t.val + y * t.unit
    <3>1. q * (t.unit * Base) = (Base * q) * t.unit
      BY <1>5, <2>1
    <3>2. (Base * q + r) * t.unit = (Base * q) * t.unit + r * t.unit
      BY <1>5, <2>1
    <3> QED
      BY <1>5, <2>1, <3>1, <3>2
  <2> HIDE DEF v, u
  <2>7. w \in Readers /\ w.read = t.read /\ w.val = v /\ w.unit = u
    BY <1>5, <2>3 DEF Readers
  <2> HIDE DEF w
  <2>8. Feed(t, PutVarint(y)) = Feed(w, PutVarint(q))
    <3>1. <<Base + r>> \in Seq(Nat)
      BY <2>3
    <3>2. Feed(t, <<Base + r>>) = w
      BY <2>3, <2>5, FeedOne
    <3>3. Feed(t, <<Base + r>> \o PutVarint(q)) = Feed(Feed(t, <<Base + r>>), PutVarint(q))
      BY <2>2, <3>1, FeedBoth
    <3> QED
      BY <2>2, <3>2, <3>3
  <2>9. Right(q, w)
    <3>1. q \notin Bad
      BY <1>3, <1>5, <2>1
    <3> QED
      BY <2>1, <2>7, <3>1
  <2>10. Right(y, t)
    BY <2>6, <2>7, <2>8, <2>9
  <2> QED
    BY <1>4, <2>10
<1> QED
  BY <1>6, <1>7

LEMMA DeltaFacts ==
  ASSUME NEW s \in Seq(Nat), \A i, j \in 1..Len(s) : i < j => s[i] < s[j], NEW i \in 1..Len(s)
  PROVE  /\ Delta(s, i) \in Nat
         /\ s[i] = IF i = 1 THEN Delta(s, i) ELSE s[i - 1] + Delta(s, i)
<1>1. CASE i = 1
  BY <1>1 DEF Delta
<1>2. CASE i # 1
  <2>1. i - 1 \in 1..Len(s) /\ i - 1 < i
    BY <1>2
  <2>2. s[i - 1] < s[i] /\ s[i - 1] \in Nat /\ s[i] \in Nat
    BY <2>1
  <2> QED
    BY <1>2, <2>2 DEF Delta
<1> QED
  BY <1>1, <1>2

Fresh == [read |-> << >>, val |-> 0, unit |-> 1]

LEMMA SeqOfNat ==
  ASSUME NEW S \in SUBSET Nat, NEW s \in Seq(S)
  PROVE  s \in Seq(Nat) /\ Len(s) \in Nat /\ DOMAIN s = 1..Len(s)
<1>1. Len(s) \in Nat /\ s \in [1..Len(s) -> S]
  OBVIOUS
<1>2. \A i \in 1..Len(s) : s[i] \in Nat
  BY <1>1
<1> QED
  BY <1>1, <1>2

\* The bytes of an entry are those of its distances.
LEMMA EncodeFacts ==
  ASSUME NEW S \in SUBSET Nat, IsFiniteSet(S), NEW s, s = Ascending(S)
  PROVE  /\ EncodeIds(S).count = Len(s)
         /\ Varints(EncodeIds(S).bytes) = [i \in 1..Len(s) |-> Delta(s, i)]
<1> DEFINE n == Len(s)
           Is(f) == f = [i \in 0..n |-> IF i = 0 THEN << >> ELSE f[i - 1] \o PutVarint(Delta(s, i))]
           g == CHOOSE f : Is(f)
           step == [i \in 1..n |-> [b \in Seq(Nat) |-> b \o PutVarint(Delta(s, i))]]
<1>1. EncodeIds(S) = [count |-> n, bytes |-> g[n]]
  BY DEF EncodeIds
<1>2. /\ s \in Seq(Nat) /\ n \in Nat
      /\ \A i, j \in 1..n : i < j => s[i] < s[j]
  <2>1. /\ Ascending(S) \in Seq(S) /\ Len(Ascending(S)) = Cardinality(S)
        /\ \A i, j \in 1..Cardinality(S) : i < j => Ascending(S)[i] < Ascending(S)[j]
    BY AscendingFacts
  <2>2. s \in Seq(S) /\ \A i, j \in 1..n : i < j => s[i] < s[j]
    BY <2>1
  <2>3. s \in Seq(Nat) /\ n \in Nat
    BY <2>2, SeqOfNat
  <2> QED
    BY <2>2, <2>3
<1> HIDE DEF g
<1>3. \A i \in 1..n : Delta(s, i) \in Nat
  BY <1>2, DeltaFacts
<1>4. \A i \in 1..n : PutVarint(Delta(s, i)) \in Seq(Nat)
  BY <1>3, PutVarintFacts
<1>5. step \in [1..n -> [Seq(Nat) -> Seq(Nat)]]
  <2>1. \A i \in 1..n, b \in Seq(Nat) : b \o PutVarint(Delta(s, i)) \in Seq(Nat)
    BY <1>4
  <2> QED
    BY <2>1
<1>6. \A i \in 1..n, b \in Seq(Nat) : step[i][b] = b \o PutVarint(Delta(s, i))
  OBVIOUS
<1> HIDE DEF n, step
<1>7. << >> \in Seq(Nat)
  OBVIOUS
<1>8. PICK f \in [0..n -> Seq(Nat)] : Goes(f, << >>, step, n)
  BY <1>2, <1>5, <1>7, Iterates
<1>9. Is(f)
  <2>1. \A i \in 0..n : i # 0 => i \in 1..n /\ i - 1 \in 0..n
    BY <1>2
  <2>2. \A i \in 0..n : i # 0 => f[i - 1] \in Seq(Nat)
    BY <2>1
  <2>3. \A i \in 0..n : f[i] = IF i = 0 THEN << >> ELSE f[i - 1] \o PutVarint(Delta(s, i))
    BY <1>6, <1>8, <2>1, <2>2 DEF Goes
  <2> QED
    BY <2>3
<1>10. Is(g)
  BY <1>9 DEF g
<1>11. \A i \in 0..n : g[i] = IF i = 0 THEN << >> ELSE g[i - 1] \o PutVarint(Delta(s, i))
  BY <1>10
<1> DEFINE Read(k) == [read |-> [i \in 1..k |-> Delta(s, i)], val |-> 0, unit |-> 1]
           K == {k \in 0..n : g[k] \in Seq(Nat) /\ Feed(Fresh, g[k]) = Read(k)}
<1>12. Fresh \in Readers
  BY DEF Fresh, Readers
<1>13. 0 \in K
  <2>1. g[0] = << >> /\ 0 \in 0..n
    BY <1>2, <1>11
  <2>2. Feed(Fresh, << >>) = Fresh
    BY <1>12, FeedNone
  <2>3. [i \in 1..0 |-> Delta(s, i)] = << >>
    OBVIOUS
  <2> QED
    BY <1>7, <2>1, <2>2, <2>3 DEF Fresh
<1>14. ASSUME NEW k \in 0..(n - 1), k \in K PROVE k + 1 \in K
  <2> DEFINE d == Delta(s, k + 1)
             x == [i \in 1..k |-> Delta(s, i)]
  <2>1. k \in Nat /\ k + 1 \in 1..n /\ k + 1 \in 0..n /\ (k + 1) - 1 = k /\ k + 1 # 0
    BY <1>2
  <2>2. g[k + 1] = g[k] \o PutVarint(d)
    BY <1>11, <2>1
  <2>3. d \in Nat /\ PutVarint(d) \in Seq(Nat)
    BY <1>3, <1>4, <2>1
  <2>4. g[k] \in Seq(Nat) /\ Feed(Fresh, g[k]) = Read(k)
    BY <1>14
  <2>5. Feed(Fresh, g[k + 1]) = Feed(Read(k), PutVarint(d)) /\ Read(k) \in Readers
    BY <1>12, <2>2, <2>3, <2>4, FeedBoth
  <2>6. Feed(Read(k), PutVarint(d)) =
          [read |-> Append(Read(k).read, Read(k).val + d * Read(k).unit), val |-> 0, unit |-> 1]
    BY <2>3, <2>5, Varint
  <2>7. Read(k).read = x /\ Read(k).val + d * Read(k).unit = d
    BY <2>3
  <2>8. Append(x, d) = [i \in 1..(k + 1) |-> Delta(s, i)]
    <3>1. \A i \in 1..k : i \in 1..n
      BY <1>2, <2>1
    <3>2. x \in Seq(Nat) /\ Len(x) = k /\ \A i \in 1..k : x[i] = Delta(s, i)
      BY <1>3, <2>1, <3>1
    <3> HIDE DEF x, d
    <3>3. /\ Append(x, d) \in Seq(Nat) /\ Len(Append(x, d)) = k + 1
          /\ \A i \in 1..k : Append(x, d)[i] = x[i]
          /\ Append(x, d)[k + 1] = d
      BY <2>1, <2>3, <3>2
    <3>4. \A i \in 1..(k + 1) : i \in 1..k \/ i = k + 1
      BY <2>1
    <3>5. \A i \in 1..(k + 1) : Append(x, d)[i] = Delta(s, i)
      BY <3>2, <3>3, <3>4 DEF d
    <3> DEFINE y == Append(x, d)
    <3> HIDE DEF y
    <3>6. y = [i \in 1..(k + 1) |-> Delta(s, i)]
      <4>1. /\ y \in Seq(Nat) /\ Len(y) = k + 1
            /\ \A i \in 1..(k + 1) : y[i] = Delta(s, i)
        BY <3>3, <3>5 DEF y
      <4>2. DOMAIN y = 1..(k + 1) /\ y = [i \in DOMAIN y |-> y[i]]
        BY <2>1, <4>1
      <4> QED
        BY <4>1, <4>2
    <3> QED
      BY <3>6 DEF y
  <2>9. g[k + 1] \in Seq(Nat)
    BY <2>2, <2>3, <2>4
  <2> QED
    BY <2>1, <2>5, <2>6, <2>7, <2>8, <2>9
<1>15. 0..n \subseteq K
  <2> HIDE DEF K
  <2> QED
    BY <1>2, <1>13, <1>14, InductionUpTo
<1>16. Feed(Fresh, g[n]) = Read(n)
  BY <1>2, <1>15
<1>17. Varints(g[n]) = [i \in 1..n |-> Delta(s, i)]
  <2>1. Varints(g[n]) = Feed(Fresh, g[n]).read
    BY DEF Varints, Fresh
  <2>2. Read(n).read = [i \in 1..n |-> Delta(s, i)]
    OBVIOUS
  <2> HIDE DEF Read
  <2> QED
    BY <1>16, <2>1, <2>2
<1> QED
  BY <1>1, <1>17 DEF n

\* What read_postings decodes is what the writer encoded: sorting, distances and
\* varints lose nothing (v2/codec.rs:28-36, v2/writer.rs:90-140, v2/reader.rs:403-454).
THEOREM RoundTrip ==
  ASSUME NEW S \in SUBSET Nat, IsFiniteSet(S)
  PROVE  DecodeIds(EncodeIds(S)) = S
<1> DEFINE s == Ascending(S)
           n == Len(s)
           x == SubSeq(Varints(EncodeIds(S).bytes), 1, EncodeIds(S).count)
           Is(f) == f = [i \in DOMAIN x |-> IF i = 1 THEN x[1] ELSE f[i - 1] + x[i]]
           g == CHOOSE f : Is(f)
<1>1. DecodeIds(EncodeIds(S)) = Range(g)
  BY DEF DecodeIds
<1>2. /\ s \in Seq(S) /\ n \in Nat
      /\ \A i, j \in 1..n : i < j => s[i] < s[j]
      /\ \A d \in S : \E i \in 1..n : s[i] = d
  BY AscendingFacts
<1> HIDE DEF s, n
<1>3. s \in Seq(Nat) /\ DOMAIN s = 1..n /\ Len(s) = n
  BY <1>2, SeqOfNat DEF n
<1>4. \A i \in 1..n : /\ Delta(s, i) \in Nat
                      /\ s[i] = IF i = 1 THEN Delta(s, i) ELSE s[i - 1] + Delta(s, i)
  BY <1>2, <1>3, DeltaFacts
<1>5. x = [i \in 1..n |-> Delta(s, i)]
  <2> DEFINE v == [i \in 1..n |-> Delta(s, i)]
  <2>1. x = SubSeq(v, 1, n)
    BY <1>3, EncodeFacts DEF s
  <2>2. SubSeq(v, 1, n) = v
    <3>1. v \in Seq(Nat) /\ Len(v) = n
      BY <1>2, <1>4
    <3> HIDE DEF v
    <3> QED
      BY <1>2, <3>1
  <2> QED
    BY <2>1, <2>2
<1> HIDE DEF x
<1>6. DOMAIN x = 1..n /\ \A i \in 1..n : x[i] = Delta(s, i)
  BY <1>5
<1>7. Is(s)
  <2>1. \A i \in 1..n : s[i] = IF i = 1 THEN x[1] ELSE s[i - 1] + x[i]
    BY <1>4, <1>6
  <2>2. s = [i \in 1..n |-> s[i]]
    BY <1>3
  <2> QED
    BY <1>6, <2>1, <2>2
<1>8. Is(g)
  BY <1>7
<1> HIDE DEF g
<1>9. \A i \in 1..n : g[i] = IF i = 1 THEN x[1] ELSE g[i - 1] + x[i]
  BY <1>6, <1>8
<1>10. \A i \in 1..n : g[i] = s[i]
  <2> DEFINE K == {k \in 0..n : \A i \in 1..k : g[i] = s[i]}
  <2>1. 0 \in K
    BY <1>2
  <2>2. ASSUME NEW k \in 0..(n - 1), k \in K PROVE k + 1 \in K
    <3>1. k \in Nat /\ k + 1 \in 1..n /\ (k + 1) - 1 = k
      BY <1>2
    <3>2. g[k + 1] = s[k + 1]
      <4>1. CASE k = 0
        BY <1>4, <1>6, <1>9, <3>1, <4>1
      <4>2. CASE k # 0
        <5>1. g[k] = s[k] /\ k + 1 # 1
          BY <2>2, <3>1, <4>2
        <5> QED
          BY <1>4, <1>6, <1>9, <3>1, <5>1
      <4> QED
        BY <4>1, <4>2
    <3>3. \A i \in 1..(k + 1) : i \in 1..k \/ i = k + 1
      BY <3>1
    <3>4. k + 1 \in 0..n
      BY <3>1
    <3> QED
      BY <2>2, <3>2, <3>3, <3>4
  <2>3. 0..n \subseteq K
    <3> HIDE DEF K
    <3> QED
      BY <1>2, <2>1, <2>2, InductionUpTo
  <2>4. n \in K
    BY <1>2, <2>3
  <2> QED
    BY <2>4
<1>11. DOMAIN g = 1..n
  BY <1>6, <1>8
<1>12. Range(g) = S
  <2>1. \A i \in 1..n : s[i] \in S
    BY <1>2 DEF n
  <2>2. \A d \in S : \E i \in 1..n : g[i] = d
    BY <1>2, <1>10
  <2> QED
    BY <1>10, <1>11, <2>1, <2>2 DEF Range
<1> QED
  BY <1>1, <1>12
-----------------------------------------------------------------------------
(* The builds and their readers *)

BuildSet == {BuildOf(v, c) : v \in {"v1", "v2"}, c \in Corpora}

Increasing(r) == \A i, j \in 1..Len(r) : i < j => r[i] < r[j]

\* What the binary search may rely on: the places of a key are in its window.
Bracket(r, k, l, h) == \A i \in 1..Len(r) : r[i] = k => l <= i - 1 /\ i - 1 <= h

Reading == {"look", "postings", "mask", "scan"}

\* What has been opened when the search stands at rpc.
OpenedInv ==
  /\ rpc \in {"grams.idx", "grams.dat", "fields.idx", "fields.dat", "docs.dat"} \cup Reading =>
       from["meta.bin"] \in Builds
  /\ rpc \in {"grams.dat", "fields.idx", "fields.dat", "docs.dat"} \cup Reading =>
       from["grams.idx"] \in Builds
  /\ rpc \in {"fields.idx", "fields.dat", "docs.dat"} \cup Reading =>
       from["grams.dat"] \in Builds
  /\ rpc \in {"fields.dat", "docs.dat"} \cup Reading => from["fields.idx"] \in Builds
  /\ rpc \in {"docs.dat"} \cup Reading => from["fields.dat"] \in Builds
  /\ rpc \in Reading => from["docs.dat"] \in Builds
  /\ rpc \in {"grams.json", "field_masks.json", "docs.jsonl"} => from["meta.json"] \in Builds

\* Builds are what the writer makes of inputs, and a whole file is of a build.
BuildInv ==
  /\ begun \in Seq(BuildSet) /\ (Running => Latest \in Builds)
  /\ \A f \in Files : file[f].whole => file[f].of \in Builds
  /\ OpenedInv

\* The first build: what comes before a whole file is whole, and what has been
\* opened stays as it was.
FirstInv ==
  /\ Latest <= 1 => rpc # "garbled"
  /\ Latest = 1 =>
       LET o == Order(begun[1].format)
       IN  /\ Running => \A j \in 1..(pos - 1) : file[o[j]].whole
           /\ \A f \in Files : file[f].whole =>
                \E k \in DOMAIN o : /\ f = o[k] /\ (Running => k < pos)
                                    /\ \A j \in 1..k : file[o[j]].whole
           /\ \A f \in Files : from[f] # 0 => file[f] = [of |-> 1, whole |-> TRUE]

\* The key looked for is in the window; the place found holds it.
LookupInv ==
  /\ rpc # "idle" => query \in Queries
  /\ rpc \in {"look", "postings"} => nth \in DOMAIN query.grams
  /\ rpc = "look" => hi < Len(Records) /\ Bracket(Records, Key, lo, hi)
  /\ rpc = "postings" => entry + 1 \in 1..Len(Records) /\ Records[entry + 1] = Key

IInv == TypeOK /\ BuildInv /\ FirstInv /\ LookupInv
-----------------------------------------------------------------------------
LEMMA FilesAre ==
  /\ Files = {"grams.json", "field_masks.json", "docs.jsonl", "meta.json", "grams.dat",
              "grams.idx", "fields.dat", "fields.idx", "docs.dat", "meta.bin"}
  /\ DOMAIN V1Order = 1..4 /\ DOMAIN V2Order = 1..6
  /\ V1Order \in Seq(Files) /\ V2Order \in Seq(Files)
BY DEF Files, V1Order, V2Order, Range

\* No file is written twice by a build, and the last ones of both formats tell
\* that the others are there.
LEMMA OrderFacts ==
  ASSUME NEW v \in {"v1", "v2"}
  PROVE  /\ Order(v) \in Seq(Files) /\ Len(Order(v)) \in 4..6
         /\ \A j, k \in DOMAIN Order(v) : Order(v)[j] = Order(v)[k] => j = k
         /\ \A k \in DOMAIN Order(v) : Order(v)[k] = "meta.json" =>
              k = 4 /\ Order(v)[3] = "docs.jsonl"
<1>1. CASE v = "v1"
  BY <1>1, FilesAre DEF Order, V1Order
<1>2. CASE v = "v2"
  BY <1>2, FilesAre DEF Order, V2Order
<1> QED
  BY <1>1, <1>2

\* The keys of a build are in ascending order.
LEMMA BuildFacts ==
  ASSUME NEW b \in BuildSet
  PROVE  /\ b.format \in {"v1", "v2"} /\ b.corpus \in Corpora
         /\ b.index \in Seq(Nat) /\ Increasing(b.index)
<1>1. PICK v \in {"v1", "v2"}, c \in Corpora : b = BuildOf(v, c)
  BY DEF BuildSet
<1>2. b.format = v /\ b.corpus = c /\ b.index = Ascending(Keys(c))
  BY <1>1 DEF BuildOf
<1>3. Keys(c) \in SUBSET Nat /\ IsFiniteSet(Keys(c))
  BY SegmentDirAssumption DEF Keys
<1>4. /\ Ascending(Keys(c)) \in Seq(Keys(c))
      /\ Len(Ascending(Keys(c))) = Cardinality(Keys(c))
      /\ \A i, j \in 1..Cardinality(Keys(c)) :
           i < j => Ascending(Keys(c))[i] < Ascending(Keys(c))[j]
  BY <1>3, AscendingFacts
<1>5. b.index \in Seq(Nat)
  BY <1>2, <1>3, <1>4
<1> QED
  BY <1>2, <1>4, <1>5 DEF Increasing

\* One turn of the binary search keeps the places of the key in the window.
LEMMA Halving ==
  ASSUME NEW r \in Seq(Nat), Increasing(r), NEW k \in Nat,
         NEW l \in Nat, NEW h \in Int, l <= h, h < Len(r), Bracket(r, k, l, h),
         NEW m \in Int, m = (l + h) \div 2
  PROVE  /\ m \in l..h /\ m + 1 \in 1..Len(r)
         /\ r[m + 1] < k => Bracket(r, k, m + 1, h)
         /\ r[m + 1] > k => Bracket(r, k, l, m - 1)
<1>1. m \in l..h /\ m + 1 \in 1..Len(r)
  OBVIOUS
<1>2. \A i, j \in 1..Len(r) : i < j => r[i] < r[j]
  BY DEF Increasing
<1>3. ASSUME r[m + 1] < k, NEW i \in 1..Len(r), r[i] = k PROVE m + 1 <= i - 1 /\ i - 1 <= h
  <2>1. i # m + 1 /\ ~(i < m + 1)
    BY <1>1, <1>2, <1>3
  <2> QED
    BY <1>1, <2>1, <1>3 DEF Bracket
<1>4. ASSUME r[m + 1] > k, NEW i \in 1..Len(r), r[i] = k PROVE l <= i - 1 /\ i - 1 <= m - 1
  <2>1. i # m + 1 /\ ~(i > m + 1)
    BY <1>1, <1>2, <1>4
  <2> QED
    BY <1>1, <2>1, <1>4 DEF Bracket
<1> QED
  BY <1>1, <1>3, <1>4 DEF Bracket
-----------------------------------------------------------------------------
(* Types *)

LEMMA Begun ==
  ASSUME IInv, NEW v \in {"v1", "v2"}, NEW c \in Corpora, Begin(v, c)
  PROVE  /\ begun' \in Seq(BuildSet) /\ Len(begun') = Len(begun) + 1
         /\ \A n \in Builds : n \in Builds' /\ begun'[n] = begun[n]
         /\ begun'[Len(begun')].format = v
<1>1. BuildOf(v, c) \in BuildSet
  BY DEF BuildSet
<1>2. begun \in Seq(BuildSet) /\ begun' = Append(begun, BuildOf(v, c))
  BY DEF IInv, BuildInv, Begin
<1> QED
  BY <1>1, <1>2 DEF Builds, BuildOf

\* Where the running build is.
LEMMA AtFacts ==
  ASSUME IInv, Running
  PROVE  /\ Latest \in Builds /\ begun[Latest].format \in {"v1", "v2"}
         /\ pos \in DOMAIN Order(begun[Latest].format) /\ At \in Files
<1> QED
  BY BuildFacts, OrderFacts DEF IInv, BuildInv, TypeOK, Builds, At
-----------------------------------------------------------------------------
\* The writer's steps keep the types.
LEMMA WriterTypes ==
  ASSUME IInv, Build
  PROVE  TypeOK' /\ BuildInv'
<1>1. ASSUME NEW v \in {"v1", "v2"}, NEW c \in Corpora, Begin(v, c) PROVE TypeOK' /\ BuildInv'
  <2>1. /\ begun' \in Seq(BuildSet) /\ Latest' = Latest + 1 /\ Latest \in Nat
        /\ \A n \in Builds : n \in Builds' /\ begun'[n] = begun[n]
        /\ begun'[Latest'].format = v
    BY <1>1, Begun DEF Latest, IInv, BuildInv
  <2>2. UNCHANGED <<file, writing, completed, rvars>> /\ pos' = 1 /\ calm' = FALSE
    BY <1>1 DEF Begin
  <2>3. BuildInv'
    BY <2>1, <2>2 DEF IInv, BuildInv, OpenedInv, Builds, Latest, Running, rvars
  <2>4. TypeOK'
    <3>1. \A n \in Builds' : begun'[n].format \in {"v1", "v2"} /\ begun'[n].corpus \in Corpora
      BY <2>1, BuildFacts DEF Builds
    <3>2. file' \in [Files -> [of : Builds' \cup {0}, whole : BOOLEAN]]
      BY <2>1, <2>2 DEF IInv, TypeOK
    <3>3. pos' \in 0..6 /\ (Running' => pos' \in DOMAIN Order(begun'[Latest'].format))
      BY <2>1, <2>2, OrderFacts
    <3>4. writing' = FALSE /\ completed' \in Builds' \cup {0}
      BY <2>1, <2>2, <1>1 DEF IInv, TypeOK, Begin
    <3>5. from' \in [Files -> Builds' \cup {0}]
      BY <2>1, <2>2 DEF IInv, TypeOK, rvars
    <3>6. rpc' \in DOMAIN Map => acc' \subseteq Ids(Corpus(from["docs.dat"]))'
      BY <2>1, <2>2 DEF IInv, TypeOK, BuildInv, OpenedInv, Reading, Map, rvars, Corpus, Ids
    <3> QED
      BY <2>2, <3>1, <3>2, <3>3, <3>4, <3>5, <3>6 DEF IInv, TypeOK, rvars, window
  <2> QED
    BY <2>3, <2>4
<1>2. CASE Create
  <2>1. /\ Running /\ Latest \in Builds /\ At \in Files
        /\ file' = [file EXCEPT ![At] = [of |-> Latest, whole |-> FALSE]]
        /\ writing' = TRUE /\ UNCHANGED <<begun, pos, completed, rvars, calm>>
    BY <1>2, AtFacts DEF Create, Holds
  <2>2. BuildInv'
    BY <2>1 DEF IInv, BuildInv, TypeOK, OpenedInv, Builds, Latest, Running, rvars
  <2>3. file' \in [Files -> [of : Builds \cup {0}, whole : BOOLEAN]]
    BY <2>1 DEF IInv, TypeOK
  <2>4. TypeOK'
    BY <2>1, <2>3 DEF IInv, TypeOK, Builds, Latest, Running, rvars, window, Corpus, Ids
  <2> QED
    BY <2>2, <2>4
<1>3. CASE Finish
  <2>1. /\ Running /\ Latest \in Builds /\ At \in Files
        /\ file' = [file EXCEPT ![At] = [of |-> Latest, whole |-> TRUE]]
        /\ writing' = FALSE /\ UNCHANGED <<begun, rvars, calm>>
    BY <1>3, AtFacts DEF Finish, Holds
  <2>2. /\ Running' => pos' \in DOMAIN Order(begun[Latest].format)
        /\ pos' \in 0..6 /\ completed' \in Builds \cup {0}
    <3>1. /\ begun[Latest].format \in {"v1", "v2"}
          /\ pos \in DOMAIN Order(begun[Latest].format)
      BY <2>1, AtFacts
    <3>2. /\ Order(begun[Latest].format) \in Seq(Files)
          /\ Len(Order(begun[Latest].format)) \in 4..6
      BY <3>1, OrderFacts
    <3>3. IF pos = Len(Order(begun[Latest].format))
          THEN pos' = 0 /\ completed' = Latest
          ELSE pos' = pos + 1 /\ UNCHANGED completed
      BY <1>3 DEF Finish
    <3>4. completed \in Builds \cup {0}
      BY DEF IInv, TypeOK
    <3> QED
      BY <2>1, <3>1, <3>2, <3>3, <3>4 DEF Running
  <2>3. BuildInv'
    BY <2>1 DEF IInv, BuildInv, TypeOK, OpenedInv, Builds, Latest, rvars
  <2>4. file' \in [Files -> [of : Builds \cup {0}, whole : BOOLEAN]]
    BY <2>1 DEF IInv, TypeOK
  <2>5. TypeOK'
    BY <2>1, <2>2, <2>4 DEF IInv, TypeOK, Builds, Latest, Running, rvars, window, Corpus, Ids
  <2> QED
    BY <2>3, <2>5
<1>4. CASE Abandon
  <2>1. pos' = 0 /\ writing' = FALSE /\ UNCHANGED <<file, begun, completed, rvars, calm>>
    BY <1>4 DEF Abandon
  <2>2. BuildInv'
    BY <2>1 DEF IInv, BuildInv, OpenedInv, Builds, Latest, Running, rvars
  <2>3. (pos \in 0..6 /\ (Running => pos \in DOMAIN Order(begun[Latest].format)))'
    BY <2>1 DEF Running
  <2>4. TypeOK'
    BY <2>1, <2>3 DEF IInv, TypeOK, Builds, rvars, window, Corpus, Ids
  <2> QED
    BY <2>2, <2>4
<1> QED
  BY <1>1, <1>2, <1>3, <1>4 DEF Build

\* A file that can be read is of a build.
LEMMA ReadableFacts ==
  ASSUME IInv, NEW f \in Files, Readable(f), Opened(f)
  PROVE  /\ from' \in [Files -> Builds \cup {0}] /\ from'[f] \in Builds
         /\ from'[f] = file[f].of
         /\ \A g \in Files \ {f} : from'[g] = from[g]
BY DEF IInv, TypeOK, BuildInv, Readable, Opened

LEMMA RecordsFacts ==
  ASSUME IInv, rpc \in {"docs.dat"} \cup Reading
  PROVE  /\ from["grams.idx"] \in Builds
         /\ Records \in Seq(Nat) /\ Increasing(Records)
<1>1. from["grams.idx"] \in Builds
  BY DEF IInv, BuildInv, OpenedInv
<1>2. begun[from["grams.idx"]] \in BuildSet
  BY <1>1 DEF IInv, BuildInv, Builds
<1> QED
  BY <1>1, <1>2, BuildFacts DEF Records

\* The steps of the search keep the types.
LEMMA SearchTypes ==
  ASSUME IInv, SearchStep
  PROVE  TypeOK' /\ BuildInv'
<1> USE DEF Goto
<1>0. /\ UNCHANGED wvars
      /\ UNCHANGED query /\ UNCHANGED calm
  BY DEF SearchStep, OpenStep, AnswerStep, Detect, Open, OpenDocs, OpenFails, ReadMasks,
     ReadDocs, AnswerV1, Garble, Probe, Missing, ReadPostings, ApplyMask, Scan
<1>1. CASE Detect
  <2>1. rpc' \in {"meta.bin", "meta.json"} /\ UNCHANGED <<from, kept, window, acc, answer>>
    BY <1>1 DEF Detect
  <2> QED
    BY <1>0, <2>1, FilesAre DEF IInv, TypeOK, BuildInv, OpenedInv, Reading, Map, wvars, window,
       Builds, Latest, Running
<1>2. CASE Open
  <2>1. PICK next \in Files : <<rpc, next>> \in Then /\ rpc' = next
    BY <1>2 DEF Open
  <2>2. rpc \in Files /\ Readable(rpc) /\ Opened(rpc) /\ UNCHANGED <<kept, window, acc, answer>>
    BY <1>2, FilesAre DEF Open, Early, Then
  <2>3. /\ from' \in [Files -> Builds \cup {0}] /\ from'[rpc] \in Builds
        /\ \A g \in Files \ {rpc} : from'[g] = from[g]
    BY <2>2, ReadableFacts
  <2>4. rpc' \notin Reading
    BY <2>1 DEF Then, Reading
  <2>5. OpenedInv'
    BY <1>0, <2>1, <2>3, <2>4, FilesAre
       DEF IInv, BuildInv, OpenedInv, Reading, Then, wvars, Builds
  <2>6. BuildInv'
    BY <1>0, <2>5 DEF IInv, BuildInv, wvars, Builds, Latest, Running
  <2>7. TypeOK'
    BY <1>0, <2>1, <2>2, <2>3, <2>4, FilesAre
       DEF IInv, TypeOK, Reading, Map, wvars, window, Builds, Latest, Running
  <2> QED
    BY <2>6, <2>7
<1>3. CASE OpenDocs
  <2>1. /\ rpc = "docs.dat" /\ "docs.dat" \in Files /\ CountsAgree
        /\ Readable("docs.dat") /\ Opened("docs.dat")
        /\ acc' = Ids(Corpus(from["meta.bin"]))
        /\ nth' = 1 /\ lo' = 0 /\ hi' = Len(Records) - 1 /\ rpc' = "look"
        /\ UNCHANGED <<kept, entry, answer>>
    BY <1>3, FilesAre DEF OpenDocs, StartLookup
  <2>2. /\ from' \in [Files -> Builds \cup {0}] /\ from'["docs.dat"] \in Builds
        /\ from'["docs.dat"] = file["docs.dat"].of
        /\ \A g \in Files \ {"docs.dat"} : from'[g] = from[g]
    BY <2>1, ReadableFacts
  <2>3. Records \in Seq(Nat)
    BY <2>1, RecordsFacts
  <2>4. BuildInv'
    BY <1>0, <2>1, <2>2, FilesAre
       DEF IInv, BuildInv, OpenedInv, Reading, wvars, Builds, Latest, Running
  <2>5. Ids(Corpus(from["docs.dat"]))' = Ids(Corpus(from["meta.bin"]))
    BY <1>0, <2>1, <2>2 DEF CountsAgree, Ids, Corpus, wvars
  <2>6. TypeOK'
    BY <1>0, <2>1, <2>2, <2>3, <2>5
       DEF IInv, TypeOK, Map, wvars, Builds, Latest, Running
  <2> QED
    BY <2>4, <2>6
<1>4. CASE OpenFails
  <2>1. rpc' = "error" /\ UNCHANGED <<from, kept, window, acc, answer>>
    BY <1>4 DEF OpenFails
  <2> QED
    BY <1>0, <2>1 DEF IInv, TypeOK, BuildInv, OpenedInv, Reading, Map, wvars, window, Ends,
       Builds, Latest, Running
<1>5. CASE ReadMasks
  <2>1. /\ rpc = "field_masks.json" /\ "field_masks.json" \in Files /\ rpc' = "docs.jsonl"
        /\ (Readable(rpc) /\ Opened(rpc)) \/ UNCHANGED from
        /\ UNCHANGED <<kept, window, acc, answer>>
    BY <1>5, FilesAre DEF ReadMasks
  <2>2. /\ from' \in [Files -> Builds \cup {0}]
        /\ \A g \in Files \ {"field_masks.json"} : from'[g] = from[g]
    BY <2>1, ReadableFacts DEF IInv, TypeOK
  <2> QED
    BY <1>0, <2>1, <2>2, FilesAre DEF IInv, TypeOK, BuildInv, OpenedInv, Reading, Map, wvars,
       window, Builds, Latest, Running
<1>6. CASE ReadDocs
  <2>1. /\ rpc = "docs.jsonl" /\ rpc' = "answer" /\ kept' \in Nat
        /\ Opened("docs.jsonl") /\ UNCHANGED <<window, acc, answer>>
    BY <1>6 DEF ReadDocs
  <2> QED
    BY <1>0, <2>1, FilesAre DEF IInv, TypeOK, BuildInv, OpenedInv, Opened, Reading, Map, wvars,
       window, Builds, Latest, Running
<1>7. CASE AnswerV1 \/ Garble \/ Missing \/ Scan
  <2>1. rpc' \in Ends /\ UNCHANGED <<from, kept, window>>
    BY <1>7 DEF AnswerV1, Garble, Missing, Scan, Ends
  <2> QED
    BY <1>0, <2>1 DEF IInv, TypeOK, BuildInv, OpenedInv, Reading, Map, wvars, window, Ends,
       Builds, Latest, Running
<1>8. CASE Probe \/ ReadPostings \/ ApplyMask
  <2>1. /\ rpc \in Reading /\ rpc' \in Reading /\ acc' \subseteq acc
        /\ UNCHANGED <<from, kept>>
    BY <1>8 DEF Probe, ReadPostings, ApplyMask, Reading
  <2>2. Records \in Seq(Nat)
    BY <2>1, RecordsFacts
  <2>3. nth' \in Nat /\ lo' \in Nat /\ hi' \in Int /\ entry' \in Nat
    <3>1. nth \in Nat /\ lo \in Nat /\ hi \in Int /\ entry \in Nat
      BY DEF IInv, TypeOK
    <3>2. CASE Probe
      <4>1. Mid \in Nat
        BY <3>1, <3>2 DEF Probe, Mid
      <4> QED
        BY <3>1, <3>2, <4>1 DEF Probe, LoAbove
    <3>3. CASE ReadPostings
      BY <2>2, <3>1, <3>3 DEF ReadPostings, StartLookup
    <3>4. CASE ApplyMask
      BY <3>1, <3>4 DEF ApplyMask, window
    <3> QED
      BY <1>8, <3>2, <3>3, <3>4
  <2> QED
    BY <1>0, <2>1, <2>3 DEF IInv, TypeOK, BuildInv, OpenedInv, Reading, Map, wvars,
       Builds, Latest, Running, Corpus, Ids
<1> QED
  BY <1>1, <1>2, <1>3, <1>4, <1>5, <1>6, <1>7, <1>8 DEF SearchStep, OpenStep, AnswerStep
-----------------------------------------------------------------------------
(* The first build *)

LEMMA FirstOrder ==
  ASSUME IInv, Latest = 1
  PROVE  /\ begun[1].format \in {"v1", "v2"} /\ Builds = {1}
         /\ Order(begun[1].format) \in Seq(Files)
         /\ \A j, k \in DOMAIN Order(begun[1].format) :
              Order(begun[1].format)[j] = Order(begun[1].format)[k] => j = k
         /\ Running => pos \in DOMAIN Order(begun[1].format) /\ At = Order(begun[1].format)[pos]
<1>1. Builds = {1}
  BY DEF Builds, Latest
<1>2. begun[1].format \in {"v1", "v2"}
  BY <1>1 DEF IInv, TypeOK
<1> QED
  BY <1>1, <1>2, OrderFacts DEF IInv, TypeOK, At

LEMMA WriterFirst ==
  ASSUME IInv, Build
  PROVE  FirstInv'
<1>1. ASSUME NEW v \in {"v1", "v2"}, NEW c \in Corpora, Begin(v, c) PROVE FirstInv'
  <2>1. /\ Latest' = Latest + 1 /\ Latest \in Nat
        /\ UNCHANGED <<file, from, rpc>> /\ pos' = 1
    BY <1>1, Begun DEF Latest, IInv, BuildInv, Begin, rvars
  <2>2. CASE Latest = 0
    <3>1. Builds = {}
      BY <2>2 DEF Builds, Latest
    <3>2. \A f \in Files : ~file[f].whole /\ from[f] = 0
      BY <3>1 DEF IInv, BuildInv, TypeOK
    <3>3. rpc # "garbled"
      BY <2>2 DEF IInv, FirstInv
    <3> QED
      BY <2>1, <3>2, <3>3 DEF FirstInv
  <2>3. CASE Latest # 0
    BY <2>1, <2>3 DEF FirstInv
  <2> QED
    BY <2>2, <2>3
<1>2. ASSUME Create \/ Finish \/ Abandon, Latest = 1 PROVE FirstInv'
  <2> DEFINE o == Order(begun[1].format)
  <2>1. /\ o \in Seq(Files) /\ \A j, k \in DOMAIN o : o[j] = o[k] => j = k
        /\ Running => pos \in DOMAIN o /\ At = o[pos]
    BY <1>2, FirstOrder
  <2>2. UNCHANGED <<begun, rpc, from>> /\ Latest' = 1 /\ o' = o
    BY <1>2 DEF Create, Finish, Abandon, rvars, Latest
  <2>3. /\ rpc # "garbled"
        /\ Running => \A j \in 1..(pos - 1) : file[o[j]].whole
        /\ \A f \in Files : file[f].whole =>
             \E k \in DOMAIN o : /\ f = o[k] /\ (Running => k < pos)
                                 /\ \A j \in 1..k : file[o[j]].whole
        /\ \A f \in Files : from[f] # 0 => file[f] = [of |-> 1, whole |-> TRUE]
    BY <1>2 DEF IInv, FirstInv
  <2>4. /\ file \in [Files -> [of : Builds \cup {0}, whole : BOOLEAN]] /\ pos \in 0..6
    BY DEF IInv, TypeOK
  <2> HIDE DEF o
  <2>5. SUFFICES /\ Running' => \A j \in 1..(pos' - 1) : file'[o[j]].whole
                 /\ \A f \in Files : file'[f].whole =>
                      \E k \in DOMAIN o : /\ f = o[k] /\ (Running' => k < pos')
                                          /\ \A j \in 1..k : file'[o[j]].whole
                 /\ \A f \in Files : from[f] # 0 => file'[f] = [of |-> 1, whole |-> TRUE]
    BY <2>2, <2>3 DEF FirstInv, o
  <2>6. CASE Create
    <3>1. /\ Running /\ Running' /\ pos' = pos /\ pos \in DOMAIN o
          /\ file' = [file EXCEPT ![o[pos]] = [of |-> 1, whole |-> FALSE]]
      BY <1>2, <2>1, <2>6 DEF Create, Holds, Running
    <3>2. \A j \in 1..(pos - 1) : o[j] \in Files /\ o[j] # o[pos] /\ file'[o[j]] = file[o[j]]
      BY <2>1, <2>4, <3>1
    <3>3. ASSUME NEW f \in Files, file'[f].whole
          PROVE  \E k \in DOMAIN o : /\ f = o[k] /\ k < pos /\ \A j \in 1..k : file'[o[j]].whole
      <4>1. f # o[pos] /\ file[f].whole
        BY <2>1, <2>4, <3>1, <3>3
      <4>2. PICK k \in DOMAIN o : f = o[k] /\ k < pos /\ \A j \in 1..k : file[o[j]].whole
        BY <2>3, <3>1, <4>1
      <4>3. \A j \in 1..k : j \in 1..(pos - 1)
        BY <2>1, <2>4, <4>2
      <4> QED
        BY <3>2, <4>2, <4>3
    <3>4. ASSUME NEW f \in Files, from[f] # 0 PROVE file'[f] = [of |-> 1, whole |-> TRUE]
      <4>1. file[f] = [of |-> 1, whole |-> TRUE]
        BY <2>3, <3>4
      <4>2. PICK k \in DOMAIN o : f = o[k] /\ k < pos
        BY <2>3, <3>1, <4>1
      <4>3. f # o[pos]
        BY <2>1, <3>1, <4>2
      <4> QED
        BY <2>4, <3>1, <4>1, <4>3
    <3> QED
      BY <2>3, <3>1, <3>2, <3>3, <3>4
  <2>7. CASE Finish
    <3>1. /\ Running /\ pos \in DOMAIN o /\ pos' \in {0, pos + 1}
          /\ file' = [file EXCEPT ![o[pos]] = [of |-> 1, whole |-> TRUE]]
      BY <1>2, <2>1, <2>7 DEF Finish, Holds, Running
    <3>2. /\ \A f \in Files : file[f].whole => file'[f].whole
          /\ file'[o[pos]] = [of |-> 1, whole |-> TRUE]
          /\ \A f \in Files : f # o[pos] => file'[f] = file[f]
      BY <2>1, <2>4, <3>1
    <3>3. \A j \in 1..pos : o[j] \in Files /\ file'[o[j]].whole
      BY <2>1, <2>3, <2>4, <3>1, <3>2
    <3>4. ASSUME NEW f \in Files, file'[f].whole
          PROVE  \E k \in DOMAIN o : /\ f = o[k] /\ (Running' => k < pos')
                                     /\ \A j \in 1..k : file'[o[j]].whole
      <4>1. CASE f = o[pos]
        BY <2>4, <3>1, <3>3, <4>1 DEF Running
      <4>2. CASE f # o[pos]
        <5>1. PICK k \in DOMAIN o : f = o[k] /\ k < pos
          BY <2>3, <3>1, <3>2, <3>4, <4>2
        <5>2. k < pos + 1 /\ \A j \in 1..k : j \in 1..pos
          BY <2>1, <2>4, <5>1
        <5> QED
          BY <3>1, <3>3, <5>1, <5>2 DEF Running
      <4> QED
        BY <4>1, <4>2
    <3>5. \A f \in Files : from[f] # 0 => file'[f] = [of |-> 1, whole |-> TRUE]
      BY <2>3, <3>2
    <3>6. Running' => \A j \in 1..(pos' - 1) : file'[o[j]].whole
      <4>1. CASE pos' = 0
        BY <4>1 DEF Running
      <4>2. CASE pos' = pos + 1
        <5>1. pos' - 1 = pos
          BY <2>4, <4>2
        <5> QED
          BY <3>3, <5>1
      <4> QED
        BY <3>1, <4>1, <4>2
    <3> QED
      BY <3>4, <3>5, <3>6
  <2>8. CASE Abandon
    <3>1. ~Running' /\ file' = file
      BY <2>8 DEF Abandon, Running
    <3> QED
      BY <2>3, <3>1
  <2> QED
    BY <1>2, <2>6, <2>7, <2>8
<1>3. ASSUME Create \/ Finish \/ Abandon, Latest # 1 PROVE FirstInv'
  <2>1. UNCHANGED <<begun, rpc>>
    BY <1>3 DEF Create, Finish, Abandon, rvars
  <2> QED
    BY <1>3, <2>1 DEF IInv, FirstInv, Latest
<1> QED
  BY <1>1, <1>2, <1>3 DEF Build

\* What is read of the first build is what was opened.
LEMMA FirstSound ==
  ASSUME IInv, Latest = 1, rpc \in Reading
  PROVE  Sound
<1>1. \A f \in Range(V2Order) : f \in Files /\ from[f] = 1
  BY FirstOrder DEF IInv, BuildInv, OpenedInv, Reading, V2Order, Files, Range
<1>2. \A f \in Range(V2Order) : file[f] = [of |-> 1, whole |-> TRUE]
  BY <1>1 DEF IInv, FirstInv
<1>3. Map[rpc] \in Range(V2Order) /\ By[rpc] \in Range(V2Order)
  BY DEF Map, By, Reading, V2Order, Range
<1> QED
  BY <1>1, <1>2, <1>3 DEF Sound

LEMMA SearchFirst ==
  ASSUME IInv, SearchStep
  PROVE  FirstInv'
<1>1. UNCHANGED <<file, begun, pos>>
  BY DEF SearchStep, OpenStep, AnswerStep, Detect, Open, OpenDocs, OpenFails, ReadMasks,
     ReadDocs, AnswerV1, Garble, Probe, Missing, ReadPostings, ApplyMask, Scan, wvars
<1>2. ASSUME Latest <= 1 PROVE rpc' # "garbled"
  <2>1. CASE Garble
    <3>1. rpc \in Reading /\ ~Sound
      BY <2>1 DEF Garble, Map, Reading
    <3>2. Latest \in Nat /\ from["docs.dat"] \in 1..Latest
      BY <3>1 DEF IInv, BuildInv, OpenedInv, Builds, Latest
    <3>3. Latest = 1
      BY <1>2, <3>2
    <3> QED
      BY <3>1, <3>3, FirstSound
  <2>2. CASE Open
    BY <2>2 DEF Open, Then, Goto
  <2>3. CASE ~Garble /\ ~Open
    BY <2>3 DEF SearchStep, OpenStep, AnswerStep, Detect, OpenDocs, OpenFails, ReadMasks,
       ReadDocs, AnswerV1, Probe, Missing, ReadPostings, ApplyMask, Scan, Goto, IInv, FirstInv
  <2> QED
    BY <2>1, <2>2, <2>3
<1>3. ASSUME Latest = 1, NEW f \in Files, from'[f] # 0
      PROVE  file[f] = [of |-> 1, whole |-> TRUE]
  <2>1. CASE from' = from
    BY <1>3, <2>1 DEF IInv, FirstInv
  <2>2. ASSUME NEW g \in Files, Readable(g), Opened(g) PROVE file[f] = [of |-> 1, whole |-> TRUE]
    <3>1. file[g] = [of |-> 1, whole |-> TRUE]
      <4>1. file[g].of = 1 /\ file[g].whole
        BY <1>3, <2>2, FirstOrder DEF IInv, BuildInv, Readable
      <4> QED
        BY <4>1 DEF IInv, TypeOK
    <3>2. f # g => from[f] # 0
      BY <1>3, <2>2, ReadableFacts
    <3> QED
      BY <1>3, <3>1, <3>2 DEF IInv, FirstInv
  <2>3. CASE ReadDocs
    <3> DEFINE o == Order(begun[1].format)
    <3>1. rpc = "docs.jsonl" /\ Opened("docs.jsonl")
      BY <2>3 DEF ReadDocs
    <3>2. {"docs.jsonl", "meta.json"} \subseteq Files
      BY FilesAre
    <3>3. file["meta.json"].whole
      BY <1>3, <3>1, <3>2, FirstOrder DEF IInv, BuildInv, OpenedInv, FirstInv
    <3>4. PICK k \in DOMAIN o : "meta.json" = o[k] /\ \A j \in 1..k : file[o[j]].whole
      BY <1>3, <3>2, <3>3 DEF IInv, FirstInv
    <3>5. k = 4 /\ o[3] = "docs.jsonl"
      BY <1>3, <3>4, FirstOrder, OrderFacts
    <3>6. Readable("docs.jsonl")
      BY <3>4, <3>5 DEF Readable
    <3> QED
      BY <2>2, <3>1, <3>2, <3>6
  <2>4. CASE Open \/ OpenDocs \/ ReadMasks
    <3>1. from' = from \/ \E g \in Files : Readable(g) /\ Opened(g)
      BY <2>4, FilesAre DEF Open, OpenDocs, ReadMasks, Early, Then
    <3> QED
      BY <2>1, <2>2, <3>1
  <2>5. CASE ~(Open \/ OpenDocs \/ ReadMasks \/ ReadDocs)
    <3>1. from' = from
      BY <2>5 DEF SearchStep, OpenStep, AnswerStep, Detect, OpenFails, AnswerV1, Garble,
         Probe, Missing, ReadPostings, ApplyMask, Scan
    <3> QED
      BY <2>1, <3>1
  <2> QED
    BY <2>3, <2>4, <2>5
<1> QED
  BY <1>1, <1>2, <1>3 DEF IInv, FirstInv, Latest, Running
-----------------------------------------------------------------------------
(* The lookup *)

LEMMA KeyFacts ==
  ASSUME IInv, rpc # "idle"
  PROVE  /\ query.grams \in Seq(Grams) /\ 1 \in DOMAIN query.grams
         /\ \A i \in DOMAIN query.grams : KeyOf[query.grams[i]] \in Nat
BY SegmentDirAssumption DEF IInv, LookupInv

LEMMA WriterLookup ==
  ASSUME IInv, Build
  PROVE  LookupInv'
<1>1. UNCHANGED rvars
  BY DEF Build, Begin, Create, Finish, Abandon
<1>2. rpc \in Reading => Records' = Records
  <2>1. CASE begun' = begun
    BY <1>1, <2>1 DEF Records, rvars
  <2>2. ASSUME NEW v \in {"v1", "v2"}, NEW c \in Corpora, Begin(v, c), rpc \in Reading
        PROVE Records' = Records
    BY <1>1, <2>2, Begun, RecordsFacts DEF Records, rvars
  <2>3. begun' = begun \/ \E v \in {"v1", "v2"}, c \in Corpora : Begin(v, c)
    BY DEF Build, Create, Finish, Abandon
  <2> QED
    BY <2>1, <2>2, <2>3
<1> QED
  BY <1>1, <1>2 DEF IInv, LookupInv, Reading, rvars, window, Key, Bracket

LEMMA SearchLookup ==
  ASSUME IInv, SearchStep
  PROVE  LookupInv'
<1> USE DEF Goto
<1>0. /\ UNCHANGED wvars /\ UNCHANGED query /\ rpc # "idle" /\ query \in Queries
  <2>1. UNCHANGED wvars /\ UNCHANGED query
    BY DEF SearchStep, OpenStep, AnswerStep, Detect, Open, OpenDocs, OpenFails, ReadMasks,
       ReadDocs, AnswerV1, Garble, Probe, Missing, ReadPostings, ApplyMask, Scan
  <2>2. "idle" \notin Early \cup DOMAIN Map
    BY DEF Early, Then, Map
  <2>3. rpc # "idle"
    BY <2>2 DEF SearchStep, OpenStep, AnswerStep, Detect, Open, OpenDocs, OpenFails, ReadMasks,
       ReadDocs, AnswerV1, Garble, Probe, Missing, ReadPostings, ApplyMask, Scan
  <2> QED
    BY <2>1, <2>3 DEF IInv, LookupInv
<1>1. /\ query.grams \in Seq(Grams) /\ 1 \in DOMAIN query.grams
      /\ \A i \in DOMAIN query.grams : KeyOf[query.grams[i]] \in Nat
  BY <1>0, KeyFacts
<1>2. CASE OpenDocs
  <2>1. /\ rpc = "docs.dat" /\ "docs.dat" \in Files /\ Readable("docs.dat")
        /\ Opened("docs.dat") /\ rpc' = "look" /\ nth' = 1 /\ lo' = 0 /\ hi' = Len(Records) - 1
    BY <1>2, FilesAre DEF OpenDocs, StartLookup
  <2>2. Records \in Seq(Nat) /\ Records' = Records
    BY <1>0, <2>1, RecordsFacts, ReadableFacts, FilesAre DEF Records, wvars
  <2> QED
    BY <1>0, <1>1, <2>1, <2>2 DEF LookupInv, Bracket
<1>3. CASE Probe
  <2>1. /\ rpc = "look" /\ lo <= hi /\ UNCHANGED <<from, nth>>
        /\ \/ Records[Mid + 1] < Key /\ lo' = LoAbove /\ UNCHANGED <<rpc, hi, entry>>
           \/ Records[Mid + 1] > Key /\ hi' = Mid - 1 /\ UNCHANGED <<rpc, lo, entry>>
           \/ /\ Records[Mid + 1] = Key /\ entry' = Mid
              /\ rpc' = "postings" /\ UNCHANGED <<lo, hi>>
    BY <1>3 DEF Probe
  <2>2. /\ Records \in Seq(Nat) /\ Increasing(Records)
    BY <2>1, RecordsFacts DEF Reading
  <2>3. Records' = Records /\ Key' = Key
    BY <1>0, <2>1 DEF Records, Key, wvars
  <2>4. /\ nth \in DOMAIN query.grams /\ Key \in Nat
        /\ hi < Len(Records) /\ Bracket(Records, Key, lo, hi)
    BY <1>0, <1>1, <2>1 DEF IInv, LookupInv, Key
  <2>5. lo \in Nat /\ hi \in Int /\ Mid \in Int /\ Mid = (lo + hi) \div 2
    BY DEF IInv, TypeOK, Mid
  <2>6. /\ Mid \in lo..hi /\ Mid + 1 \in 1..Len(Records)
        /\ Records[Mid + 1] < Key => Bracket(Records, Key, Mid + 1, hi)
        /\ Records[Mid + 1] > Key => Bracket(Records, Key, lo, Mid - 1)
    BY <2>1, <2>2, <2>4, <2>5, Halving
  <2>7. rpc' = "look" => hi' < Len(Records) /\ Bracket(Records, Key, lo', hi')
    BY <2>1, <2>4, <2>5, <2>6 DEF LoAbove
  <2>8. rpc' = "postings" => entry' + 1 \in 1..Len(Records) /\ Records[entry' + 1] = Key
    BY <2>1, <2>6
  <2>9. nth' \in DOMAIN query'.grams /\ query' \in Queries
    BY <1>0, <2>1, <2>4
  <2>10. rpc' = "look" => hi' < Len(Records') /\ Bracket(Records', Key', lo', hi')
    BY <2>3, <2>7
  <2>11. rpc' = "postings" => entry' + 1 \in 1..Len(Records') /\ Records'[entry' + 1] = Key'
    BY <2>3, <2>8
  <2> QED
    BY <2>9, <2>10, <2>11 DEF LookupInv
<1>4. CASE ReadPostings
  <2>1. CASE nth < Len(query.grams)
    <3>1. /\ rpc = "postings" /\ UNCHANGED from /\ rpc' = "look"
          /\ nth' = nth + 1 /\ lo' = 0 /\ hi' = Len(Records) - 1
      BY <1>4, <2>1 DEF ReadPostings, StartLookup
    <3>2. Records \in Seq(Nat) /\ Records' = Records
      BY <1>0, <3>1, RecordsFacts DEF Records, Reading, wvars
    <3>3. nth + 1 \in DOMAIN query.grams
      BY <1>1, <2>1, <3>1 DEF IInv, LookupInv
    <3> QED
      BY <1>0, <3>1, <3>2, <3>3 DEF LookupInv, Bracket
  <2>2. CASE ~(nth < Len(query.grams))
    <3>1. rpc' \in {"scan", "mask"}
      BY <1>4, <2>2 DEF ReadPostings
    <3> QED
      BY <1>0, <3>1 DEF LookupInv
  <2> QED
    BY <2>1, <2>2
<1>5. CASE ~OpenDocs /\ ~Probe /\ ~ReadPostings
  <2>1. CASE Open
    <3>1. PICK next \in Files : rpc' = next
      BY <2>1 DEF Open
    <3>2. rpc' \notin {"look", "postings"}
      BY <3>1, FilesAre
    <3> QED
      BY <1>0, <3>2 DEF LookupInv
  <2>2. CASE ~Open
    <3>1. rpc' \notin {"look", "postings"}
      BY <1>5, <2>2 DEF SearchStep, OpenStep, AnswerStep, Detect, OpenFails, ReadMasks,
         ReadDocs, AnswerV1, Garble, Missing, ApplyMask, Scan
    <3> QED
      BY <1>0, <3>1 DEF LookupInv
  <2> QED
    BY <2>1, <2>2
<1> QED
  BY <1>2, <1>3, <1>4, <1>5
-----------------------------------------------------------------------------
(* The invariant *)

LEMMA AskKeeps ==
  ASSUME IInv, NEW q \in Queries, Ask(q)
  PROVE  IInv'
<1>1. /\ rpc' = "detect" /\ query' = q /\ calm' \in BOOLEAN
      /\ UNCHANGED <<wvars, from, kept, window, acc, answer>>
  BY DEF Ask, Goto
<1>2. TypeOK'
  BY <1>1 DEF IInv, TypeOK, Map, wvars, window, Builds, Latest, Running
<1>3. BuildInv'
  BY <1>1, FilesAre DEF IInv, BuildInv, OpenedInv, Reading, wvars, Builds, Latest, Running
<1>4. FirstInv'
  BY <1>1 DEF IInv, FirstInv, wvars, Latest, Running
<1>5. LookupInv'
  BY <1>1 DEF LookupInv
<1> QED
  BY <1>2, <1>3, <1>4, <1>5 DEF IInv

LEMMA InitHolds == Init => IInv
<1> SUFFICES ASSUME Init PROVE IInv
  OBVIOUS
<1>1. /\ begun = << >> /\ Len(begun) = 0 /\ Builds = {} /\ ~Running
      /\ \A f \in Files : file[f] = Absent /\ from[f] = 0
  BY DEF Init, Builds, Running
<1>2. TypeOK
  <2>1. file \in [Files -> [of : Builds \cup {0}, whole : BOOLEAN]]
    BY DEF Init, Absent
  <2>2. from \in [Files -> Builds \cup {0}] /\ kept \in Nat /\ completed \in Builds \cup {0}
    BY DEF Init
  <2>3. rpc = "idle" /\ rpc \notin DOMAIN Map
    BY DEF Init, Map
  <2>4. \A n \in Builds : begun[n].format \in {"v1", "v2"} /\ begun[n].corpus \in Corpora
    BY <1>1
  <2>5. pos = 0 /\ pos \in 0..6 /\ writing = FALSE /\ calm = FALSE /\ query = NoQuery
    BY DEF Init
  <2>6. nth \in Nat /\ lo \in Nat /\ hi \in Int /\ entry \in Nat
    BY DEF Init
  <2> QED
    BY <1>1, <2>1, <2>2, <2>3, <2>4, <2>5, <2>6 DEF TypeOK
<1>3. BuildInv
  BY <1>1, FilesAre DEF Init, BuildInv, OpenedInv, Reading, Absent
<1>4. FirstInv /\ LookupInv
  BY <1>1 DEF Init, FirstInv, LookupInv, Latest
<1> QED
  BY <1>2, <1>3, <1>4 DEF IInv

LEMMA StepKeeps == IInv /\ [Next]_vars => IInv'
<1> SUFFICES ASSUME IInv, [Next]_vars PROVE IInv'
  OBVIOUS
<1>1. CASE Build
  BY <1>1, WriterTypes, WriterFirst, WriterLookup DEF IInv
<1>2. CASE SearchStep
  BY <1>2, SearchTypes, SearchFirst, SearchLookup DEF IInv
<1>3. ASSUME NEW q \in Queries, Ask(q) PROVE IInv'
  BY <1>3, AskKeeps
<1>4. CASE UNCHANGED vars
  <2>1. UNCHANGED <<file, begun, pos, writing, completed, rpc, query, from, kept, nth, lo, hi,
                    entry, acc, answer, calm>>
    BY <1>4 DEF vars, wvars, rvars, window
  <2>2. TypeOK'
    BY <2>1 DEF IInv, TypeOK, Builds, Latest, Running, Corpus, Ids
  <2>3. BuildInv' /\ FirstInv'
    BY <2>1 DEF IInv, BuildInv, OpenedInv, FirstInv, Builds, Latest, Running
  <2>4. LookupInv'
    BY <2>1 DEF IInv, LookupInv, Records, Key, Bracket
  <2> QED
    BY <2>2, <2>3, <2>4 DEF IInv
<1> QED
  BY <1>1, <1>2, <1>3, <1>4 DEF Next

THEOREM IInvHolds == Spec => []IInv
<1>1. Spec => Init /\ [][Next]_vars
  BY PTL DEF Spec
<1> QED
  BY <1>1, InitHolds, StepKeeps, PTL

\* Files and positions stay in range whatever builds and searches do, and a V2
\* search asks docs.dat only for documents it has: reader.rs:88-97 refuses a
\* docs.dat of another count, and every step after it only narrows the list.
THEOREM TypeCorrect == Spec => []TypeOK
BY IInvHolds, PTL DEF IInv

\* As long as a directory has seen one build, no reader meets a part of a file
\* it takes for whole or a map that changes: the order of the files
\* (segjson.rs:70-105, v2/writer.rs:45-94) and the CRCs are enough.
THEOREM FirstBuildIsUnmixed == Spec => []FirstBuildUnmixed
<1>1. IInv => FirstBuildUnmixed
  BY DEF IInv, FirstInv, FirstBuildUnmixed
<1> QED
  BY <1>1, IInvHolds, PTL

\* The binary search of lookup_gram is right for every set of keys and every
\* index (v2/reader.rs:382-399).
THEOREM LookupIsRight == Spec => []LookupRight
<1>1. IInv => LookupRight
  <2> SUFFICES ASSUME IInv PROVE LookupRight
    OBVIOUS
  <2>1. ASSUME rpc = "look", lo > hi, Key \in Range(Records) PROVE FALSE
    <3>1. Records \in Seq(Nat) /\ Bracket(Records, Key, lo, hi) /\ lo \in Nat /\ hi \in Int
      BY <2>1, RecordsFacts DEF IInv, LookupInv, TypeOK, Reading
    <3>2. PICK i \in 1..Len(Records) : Records[i] = Key
      BY <2>1, <3>1 DEF Range
    <3> QED
      BY <2>1, <3>1, <3>2 DEF Bracket
  <2>2. rpc = "postings" => Records[entry + 1] = Key
    BY DEF IInv, LookupInv
  <2> QED
    BY <2>1, <2>2 DEF LookupRight
<1> QED
  BY <1>1, IInvHolds, PTL
-----------------------------------------------------------------------------
(* Answers *)

\* The search meets one build, the first or the last, and no other.
Pure == Latest = 1 \/ Settled

\* What a build has written stays, until the next one; at its end all is there.
WholeInv ==
  LET o == Order(begun[Latest].format)
      Written(j) == file[o[j]] = [of |-> Latest, whole |-> TRUE]
  IN  /\ Running => completed # Latest /\ \A j \in 1..(pos - 1) : Written(j)
      /\ completed = Latest /\ Latest > 0 => ~Running /\ \A j \in DOMAIN o : Written(j)
      /\ calm => ~Running

\* What is opened is of that build, and in a settled directory nothing fails.
SeenInv ==
  /\ rpc \in {"idle", "detect"} => \A f \in Files : from[f] = 0
  /\ rpc \in {"answer", "done"} => Latest # 0
  /\ Settled =>
       /\ rpc \notin {"error", "garbled"}
       /\ rpc \in Range(V1Order) \cup {"answer"} => begun[Latest].format = "v1"
       /\ rpc \in Range(V2Order) \cup Reading => begun[Latest].format = "v2"
  /\ Pure =>
       /\ \A f \in Files : from[f] \in {0, Latest}
       /\ rpc \in {"field_masks.json", "docs.jsonl", "answer"} => from["grams.json"] = Latest
       /\ rpc \in {"docs.jsonl", "answer"} => from["field_masks.json"] = Latest
       /\ rpc = "answer" => from["docs.jsonl"] = Latest /\ kept = Len(Corpus(Latest))

\* No document the search should find is lost on the way.
DueInv ==
  /\ rpc = "mask" => query.field # NoField
  /\ Pure /\ rpc \in Reading => Due(Corpus(Latest)) \subseteq acc
  /\ Pure /\ rpc = "done" => answer = Due(Corpus(Latest))

AnswerInv == WholeInv /\ SeenInv /\ DueInv
-----------------------------------------------------------------------------
(* What a build holds *)

\* An entry is found under each key of the input, and its postings are the
\* documents that have the key.
LEMMA PostingsFacts ==
  ASSUME NEW b \in BuildSet
  PROVE  /\ \A k \in Keys(b.corpus) : \E i \in 1..Len(b.index) : b.index[i] = k
         /\ \A k \in Keys(b.corpus) : b.postings[k] = WithKey(b.corpus, k)
<1>1. PICK v \in {"v1", "v2"}, c \in Corpora : b = BuildOf(v, c)
  BY DEF BuildSet
<1>2. /\ b.corpus = c /\ b.index = Ascending(Keys(c))
      /\ b.postings = [k \in Keys(c) |-> DecodeIds(EncodeIds(WithKey(c, k)))]
  BY <1>1 DEF BuildOf
<1>3. Keys(c) \in SUBSET Nat /\ IsFiniteSet(Keys(c))
  BY SegmentDirAssumption DEF Keys
<1>4. \A k \in Keys(c) : \E i \in 1..Len(Ascending(Keys(c))) : Ascending(Keys(c))[i] = k
  <2>1. /\ Len(Ascending(Keys(c))) = Cardinality(Keys(c))
        /\ \A k \in Keys(c) : \E i \in 1..Cardinality(Keys(c)) : Ascending(Keys(c))[i] = k
    BY <1>3, AscendingFacts
  <2> QED
    BY <2>1
<1>5. ASSUME NEW k \in Keys(c) PROVE DecodeIds(EncodeIds(WithKey(c, k))) = WithKey(c, k)
  <2>1. Len(c) \in Nat
    BY SegmentDirAssumption
  <2>2. IsFiniteSet(0..(Len(c) - 1))
    BY <2>1, FS_Interval
  <2>3. WithKey(c, k) \subseteq 0..(Len(c) - 1)
    BY DEF WithKey, Ids
  <2>4. WithKey(c, k) \in SUBSET Nat /\ IsFiniteSet(WithKey(c, k))
    BY <2>2, <2>3, FS_Subset
  <2> QED
    BY <2>4, RoundTrip
<1> QED
  BY <1>2, <1>4, <1>5

\* A document a search should find has every key asked for, and the field.
LEMMA DueFacts ==
  ASSUME NEW c \in Corpora, NEW d \in Due(c)
  PROVE  /\ d \in Ids(c)
         /\ \A i \in DOMAIN query.grams :
              /\ d \in WithGram(c, query.grams[i])
              /\ KeyOf[query.grams[i]] \in Keys(c)
              /\ d \in WithKey(c, KeyOf[query.grams[i]])
         /\ query.field # NoField => d \in WithField(c, query.field)
<1>1. d \in Ids(c) /\ d + 1 \in DOMAIN c
  <2>1. Len(c) \in Nat /\ DOMAIN c = 1..Len(c)
    BY SegmentDirAssumption
  <2> QED
    BY <2>1 DEF Due, Verified, Ids
<1>2. PICK f \in DOMAIN c[d + 1] :
        query.field \in {NoField, f} /\ Range(query.grams) \subseteq c[d + 1][f]
  BY DEF Due, Verified
<1>3. \A i \in DOMAIN query.grams : query.grams[i] \in GramsOf(c[d + 1])
  BY <1>2 DEF GramsOf, Range
<1>4. \A i \in DOMAIN query.grams : KeyOf[query.grams[i]] \in Keys(c)
  BY <1>1, <1>3 DEF Keys
<1> QED
  BY <1>1, <1>2, <1>3, <1>4 DEF WithGram, WithKey, WithField

\* A scan of candidates among which all due are finds these.
LEMMA ScanFindsAll ==
  ASSUME NEW c, NEW ids, ids \subseteq Ids(c), Due(c) \subseteq ids
  PROVE  Verified(c, ids) = Due(c)
BY DEF Due, Verified
-----------------------------------------------------------------------------
(* The build *)


LEMMA WriterWhole ==
  ASSUME IInv, WholeInv, Build
  PROVE  WholeInv'
<1> DEFINE o == Order(begun[Latest].format)
<1>1. ASSUME NEW v \in {"v1", "v2"}, NEW c \in Corpora, Begin(v, c) PROVE WholeInv'
  <2>1. /\ Latest' = Latest + 1 /\ Latest \in Nat /\ completed' = completed
        /\ completed \in 0..Latest /\ pos' = 1 /\ calm' = FALSE
    BY <1>1, Begun DEF Begin, Latest, Builds, IInv, TypeOK, BuildInv
  <2>2. completed' # Latest' /\ Running' /\ pos' - 1 = 0
    BY <2>1 DEF Running
  <2> QED
    BY <2>1, <2>2 DEF WholeInv
<1>2. ASSUME Create \/ Finish \/ Abandon PROVE Running /\ ~calm /\ UNCHANGED begun /\ calm' = FALSE
  <2>1. Running /\ UNCHANGED begun /\ UNCHANGED calm
    BY <1>2 DEF Create, Finish, Abandon
  <2> QED
    BY <2>1 DEF WholeInv, IInv, TypeOK
<1>3. CASE Abandon
  <2>1. completed' # Latest' /\ ~Running' /\ calm' = FALSE
    BY <1>2, <1>3 DEF Abandon, WholeInv, Latest, Running
  <2> QED
    BY <2>1 DEF WholeInv
<1>4. ASSUME Create \/ Finish
      PROVE  /\ Latest' = Latest /\ o' = o /\ Latest \in Nat /\ completed # Latest
             /\ pos \in DOMAIN o /\ DOMAIN o = 1..Len(o) /\ Len(o) \in 4..6
             /\ \A j \in 1..(pos - 1) : j \in DOMAIN o /\ file'[o[j]] = [of |-> Latest, whole |-> TRUE]
  <2>1. /\ Latest \in Builds /\ begun[Latest].format \in {"v1", "v2"} /\ pos \in DOMAIN o
    BY <1>2, <1>4, AtFacts
  <2>2. /\ o \in Seq(Files) /\ Len(o) \in 4..6
        /\ \A j, k \in DOMAIN o : o[j] = o[k] => j = k
    BY <2>1, OrderFacts
  <2>3. Latest' = Latest /\ o' = o /\ Latest \in Nat
    <3>1. begun' = begun
      BY <1>2, <1>4
    <3>2. Latest' = Latest /\ o' = o
      BY <3>1 DEF Latest
    <3>3. Latest \in Nat
      BY <2>1 DEF Builds
    <3> QED
      BY <3>2, <3>3
  <2>4. completed # Latest /\ \A j \in 1..(pos - 1) : file[o[j]] = [of |-> Latest, whole |-> TRUE]
    BY <1>2, <1>4 DEF WholeInv
  <2>5. \A f \in Files : f # o[pos] => file'[f] = file[f]
    BY <1>4 DEF Create, Finish, Holds, At, IInv, TypeOK
  <2> HIDE DEF o
  <2>6. \A j \in 1..(pos - 1) : j \in DOMAIN o /\ o[j] \in Files /\ o[j] # o[pos]
    BY <2>1, <2>2
  <2>7. \A j \in 1..(pos - 1) : file'[o[j]] = [of |-> Latest, whole |-> TRUE]
    BY <2>4, <2>5, <2>6
  <2>8. DOMAIN o = 1..Len(o)
    BY <2>2
  <2> QED
    BY <2>1, <2>2, <2>3, <2>4, <2>6, <2>7, <2>8
<1>5. CASE Create
  <2>1. UNCHANGED <<pos, completed>>
    BY <1>5 DEF Create
  <2> HIDE DEF o
  <2>2. /\ Running' => completed' # Latest'
                       /\ \A j \in 1..(pos' - 1) : file'[o'[j]] = [of |-> Latest', whole |-> TRUE]
        /\ completed' # Latest'
    BY <1>4, <1>5, <2>1
  <2> QED
    BY <1>2, <1>5, <2>2 DEF WholeInv, o
<1>6. CASE Finish
  <2>1. file'[o[pos]] = [of |-> Latest, whole |-> TRUE]
    BY <1>2, <1>6, AtFacts DEF Finish, Holds, At, IInv, TypeOK
  <2>2. IF pos = Len(o) THEN pos' = 0 /\ completed' = Latest
                        ELSE pos' = pos + 1 /\ UNCHANGED completed
    BY <1>6 DEF Finish
  <2> HIDE DEF o
  <2>3. \A j \in 1..pos : file'[o[j]] = [of |-> Latest, whole |-> TRUE]
    <3>1. \A j \in 1..pos : j = pos \/ j \in 1..(pos - 1)
      BY <1>4, <1>6
    <3> QED
      BY <1>4, <1>6, <2>1, <3>1
  <2>4. CASE pos = Len(o)
    <3>1. /\ ~Running' /\ calm' = FALSE
          /\ \A j \in DOMAIN o' : file'[o'[j]] = [of |-> Latest', whole |-> TRUE]
      BY <1>2, <1>4, <1>6, <2>2, <2>3, <2>4 DEF Running
    <3> QED
      BY <3>1 DEF WholeInv, o
  <2>5. CASE pos # Len(o)
    <3>1. /\ completed' # Latest' /\ calm' = FALSE
          /\ \A j \in 1..(pos' - 1) : file'[o'[j]] = [of |-> Latest', whole |-> TRUE]
      <4>1. pos' - 1 = pos /\ completed' = completed
        BY <1>4, <1>6, <2>2, <2>5
      <4> QED
        BY <1>2, <1>4, <1>6, <2>3, <4>1
    <3> QED
      BY <3>1 DEF WholeInv, o
  <2> QED
    BY <2>4, <2>5
<1> QED
  BY <1>1, <1>3, <1>5, <1>6 DEF Build

LEMMA OtherWhole ==
  ASSUME IInv, WholeInv, SearchStep \/ (\E q \in Queries : Ask(q)) \/ UNCHANGED vars
  PROVE  WholeInv'
<1>1. UNCHANGED wvars /\ (calm' = calm \/ calm' = ~Running)
  BY DEF SearchStep, OpenStep, AnswerStep, Detect, Open, OpenDocs, OpenFails, ReadMasks,
     ReadDocs, AnswerV1, Garble, Probe, Missing, ReadPostings, ApplyMask, Scan, Ask, vars
<1>2. UNCHANGED <<file, begun, pos, completed>>
  BY <1>1 DEF wvars
<1>3. calm' => ~Running
  BY <1>1 DEF WholeInv
<1> QED
  BY <1>2, <1>3 DEF WholeInv, Latest, Running
-----------------------------------------------------------------------------
(* The search of one build *)

LEMMA OneBuild ==
  ASSUME IInv, SeenInv, Pure, NEW f \in Files, from[f] \in Builds
  PROVE  from[f] = Latest /\ Latest \in Builds
<1>1. from[f] # 0
  BY DEF Builds
<1> QED
  BY <1>1 DEF SeenInv

\* What a finished build has written can be read.
LEMMA SettledFile ==
  ASSUME IInv, WholeInv, Settled, NEW f \in Range(Order(begun[Latest].format))
  PROVE  file[f] = [of |-> Latest, whole |-> TRUE] /\ Readable(f)
<1>1. file[f] = [of |-> Latest, whole |-> TRUE]
  BY DEF WholeInv, Settled, Range
<1> QED
  BY <1>1 DEF Readable

\* With meta.json of the first build the rest of its files is there.
LEMMA MetaIsLast ==
  ASSUME IInv, Latest = 1, from["meta.json"] \in Builds
  PROVE  Readable("field_masks.json") /\ Readable("docs.jsonl")
<1> DEFINE o == Order(begun[1].format)
<1>1. "meta.json" \in Files /\ from["meta.json"] # 0
  BY FilesAre DEF Builds
<1>2. file["meta.json"].whole
  BY <1>1 DEF IInv, FirstInv
<1>3. PICK k \in DOMAIN o : "meta.json" = o[k] /\ \A j \in 1..k : file[o[j]].whole
  BY <1>1, <1>2 DEF IInv, FirstInv
<1>4. o = V1Order
  <2>1. begun[1].format \in {"v1", "v2"}
    BY FirstOrder
  <2>2. \A i \in 1..6 : V2Order[i] # "meta.json"
    BY DEF V2Order
  <2> QED
    BY <1>3, <2>1, <2>2, FilesAre DEF Order
<1>5. k = 4 /\ o[2] = "field_masks.json" /\ o[3] = "docs.jsonl"
  <2>1. k \in 1..4
    BY <1>3, <1>4, FilesAre
  <2> QED
    BY <1>3, <1>4, <2>1 DEF V1Order
<1>6. file["field_masks.json"].whole /\ file["docs.jsonl"].whole
  BY <1>3, <1>5
<1> QED
  BY <1>6 DEF Readable

\* What a V2 search reads is the one build.
LEMMA ReadsOne ==
  ASSUME IInv, WholeInv, SeenInv, Pure, rpc \in Reading
  PROVE  /\ Latest \in Builds /\ Corpus(Latest) \in Corpora /\ begun[Latest] \in BuildSet
         /\ begun[Latest].corpus = Corpus(Latest) /\ Records = begun[Latest].index
         /\ from["grams.dat"] = Latest /\ from["fields.dat"] = Latest
         /\ from["docs.dat"] = Latest /\ Sound
<1>1. /\ from["grams.idx"] \in Builds /\ from["grams.dat"] \in Builds
      /\ from["fields.idx"] \in Builds /\ from["fields.dat"] \in Builds
      /\ from["docs.dat"] \in Builds
  BY DEF IInv, BuildInv, OpenedInv, Reading
<1>2. \A f \in {"grams.idx", "grams.dat", "fields.idx", "fields.dat", "docs.dat"} :
        f \in Files /\ from[f] = Latest /\ Latest \in Builds
  BY <1>1, OneBuild, FilesAre
<1>3. begun[Latest] \in BuildSet /\ Corpus(Latest) \in Corpora
  <2>1. begun[Latest] \in BuildSet
    BY <1>2 DEF Builds, IInv, BuildInv
  <2> QED
    BY <2>1, BuildFacts DEF Corpus
<1>4. Sound
  <2>1. CASE Latest = 1
    BY <2>1, FirstSound
  <2>2. CASE Settled
    <3>1. begun[Latest].format = "v2"
      BY <2>2 DEF SeenInv
    <3>2. /\ Map[rpc] \in {"grams.idx", "grams.dat", "fields.dat", "docs.dat"}
          /\ By[rpc] \in {"grams.idx", "fields.idx"}
      BY DEF Reading, Map, By
    <3>3. Map[rpc] \in Range(V2Order)
      BY <3>2 DEF V2Order, Range
    <3>4. file[Map[rpc]] = [of |-> Latest, whole |-> TRUE]
      BY <2>2, <3>1, <3>3, SettledFile DEF Order
    <3> QED
      BY <1>2, <3>2, <3>4 DEF Sound
  <2> QED
    BY <2>1, <2>2 DEF Pure
<1> QED
  BY <1>2, <1>3, <1>4 DEF Records, Corpus

LEMMA WriterAnswer ==
  ASSUME IInv, WholeInv, SeenInv, DueInv, Build
  PROVE  SeenInv' /\ DueInv'
<1>0. UNCHANGED rvars
  BY DEF Build, Begin, Create, Finish, Abandon
<1>1. ASSUME NEW v \in {"v1", "v2"}, NEW c \in Corpora, Begin(v, c) PROVE SeenInv' /\ DueInv'
  <2>1. Latest' = Latest + 1 /\ Latest \in Nat /\ ~Settled' /\ Latest' # 0
    BY <1>1, Begun DEF Begin, Latest, Settled, IInv, BuildInv
  <2>2. ASSUME Latest' = 1
        PROVE  /\ \A f \in Files : from[f] = 0
               /\ rpc \notin Reading \cup {"field_masks.json", "docs.jsonl", "answer", "done"}
    <3>1. Latest = 0 /\ Builds = {}
      BY <2>1, <2>2 DEF Builds, Latest
    <3> QED
      BY <3>1 DEF IInv, TypeOK, BuildInv, OpenedInv, SeenInv
  <2>3. Pure' => Latest' = 1
    BY <2>1 DEF Pure
  <2>4. SeenInv'
    BY <1>0, <2>1, <2>2, <2>3 DEF SeenInv, rvars
  <2>5. DueInv'
    BY <1>0, <2>2, <2>3 DEF DueInv, rvars
  <2> QED
    BY <2>4, <2>5
<1>2. CASE Create \/ Finish \/ Abandon
  <2>1. Running /\ UNCHANGED <<begun, calm>>
    BY <1>2 DEF Create, Finish, Abandon
  <2>2. ~Settled' /\ Latest' = Latest
    BY <2>1 DEF WholeInv, Settled, Latest
  <2>3. Pure' => Pure
    BY <2>2 DEF Pure
  <2>4. /\ UNCHANGED <<rpc, from, kept, query, acc, answer>>
        /\ Corpus(Latest)' = Corpus(Latest) /\ Due(Corpus(Latest))' = Due(Corpus(Latest))
    BY <1>0, <2>1, <2>2 DEF rvars, Corpus, Due, Verified, Ids
  <2>5. SeenInv'
    BY <2>2, <2>3, <2>4 DEF SeenInv
  <2>6. DueInv'
    BY <2>3, <2>4 DEF DueInv
  <2> QED
    BY <2>5, <2>6
<1> QED
  BY <1>1, <1>2 DEF Build

\* A step of the search leaves the directory as it is.
LEMMA SearchStill ==
  ASSUME SearchStep
  PROVE  /\ UNCHANGED <<file, begun, query>> /\ Latest' = Latest
         /\ Settled' = Settled /\ Pure' = Pure
         /\ Corpus(Latest)' = Corpus(Latest) /\ Due(Corpus(Latest))' = Due(Corpus(Latest))
<1>1. UNCHANGED wvars /\ UNCHANGED query /\ UNCHANGED calm
  BY DEF SearchStep, OpenStep, AnswerStep, Detect, Open, OpenDocs, OpenFails, ReadMasks,
     ReadDocs, AnswerV1, Garble, Probe, Missing, ReadPostings, ApplyMask, Scan
<1>2. UNCHANGED <<file, begun, completed, query, calm>> /\ Latest' = Latest
  BY <1>1 DEF wvars, Latest
<1>3. Settled' = Settled
  BY <1>2, Zenon DEF Settled
<1>4. Pure' = Pure
  BY <1>2, <1>3, Zenon DEF Pure
<1>5. Corpus(Latest)' = Corpus(Latest) /\ Due(Corpus(Latest))' = Due(Corpus(Latest))
  BY <1>2 DEF Corpus, Due, Verified, Ids
<1> QED
  BY <1>2, <1>3, <1>4, <1>5

\* The file the search opens is of the one build.
LEMMA OpensOne ==
  ASSUME IInv, WholeInv, SeenInv, Pure, NEW f \in Files, Readable(f), Opened(f),
         Settled => f \in Range(Order(begun[Latest].format))
  PROVE  /\ from'[f] = Latest /\ \A g \in Files : from'[g] \in {0, Latest}
         /\ \A g \in Files \ {f} : from'[g] = from[g]
<1>1. /\ from'[f] = file[f].of /\ from'[f] \in Builds
      /\ \A g \in Files \ {f} : from'[g] = from[g]
  BY ReadableFacts
<1>2. from'[f] = Latest
  <2>1. CASE Latest = 1
    BY <1>1, <2>1 DEF Builds, Latest
  <2>2. CASE Settled
    BY <1>1, <2>2, SettledFile
  <2> QED
    BY <2>1, <2>2 DEF Pure
<1> QED
  BY <1>1, <1>2 DEF SeenInv

\* Each file the search opens is one of its format.
LEMMA OwnFormat ==
  ASSUME IInv, SeenInv, Settled, rpc \in Early \cup {"docs.dat", "field_masks.json", "docs.jsonl"}
  PROVE  rpc \in Range(Order(begun[Latest].format))
<1>1. rpc \in Range(V1Order) \/ rpc \in Range(V2Order)
  BY DEF Early, Then, V1Order, V2Order, Range
<1>2. CASE rpc \in Range(V1Order)
  BY <1>2 DEF SeenInv, Order
<1>3. CASE rpc \in Range(V2Order)
  <2>1. begun[Latest].format = "v2"
    BY <1>3 DEF SeenInv
  <2> QED
    BY <1>3, <2>1 DEF Order
<1> QED
  BY <1>1, <1>2, <1>3

LEMMA OpeningAnswer ==
  ASSUME IInv, WholeInv, SeenInv, DueInv, OpenStep
  PROVE  SeenInv' /\ DueInv'
<1> USE DEF Goto
<1>0. /\ UNCHANGED <<file, begun, query>> /\ Latest' = Latest
      /\ Settled' = Settled /\ Pure' = Pure
      /\ Corpus(Latest)' = Corpus(Latest) /\ Due(Corpus(Latest))' = Due(Corpus(Latest))
  BY SearchStill DEF SearchStep
<1>1. CASE Detect
  <2>1. /\ rpc = "detect" /\ rpc' = IF file["meta.bin"] # Absent THEN "meta.bin" ELSE "meta.json"
        /\ from' = from
    BY <1>1 DEF Detect
  <2>2. ASSUME Settled PROVE IF begun[Latest].format = "v2" THEN rpc' = "meta.bin"
                             ELSE rpc' = "meta.json" /\ begun[Latest].format = "v1"
    <3>1. begun[Latest].format \in {"v1", "v2"} /\ Latest # 0
      BY <2>2 DEF Settled, IInv, TypeOK, Builds, Latest, BuildInv
    <3>2. CASE begun[Latest].format = "v2"
      <4>1. "meta.bin" \in Range(Order(begun[Latest].format))
        BY <3>2 DEF Order, V2Order, Range
      <4>2. file["meta.bin"] # Absent
        BY <2>2, <4>1, SettledFile DEF Absent
      <4> QED
        BY <2>1, <3>2, <4>2
    <3>3. CASE begun[Latest].format = "v1"
      BY <2>1, <2>2, <3>3 DEF Settled
    <3> QED
      BY <3>1, <3>2, <3>3
  <2>3. rpc' \in {"meta.bin", "meta.json"}
    BY <2>1
  <2>4. "meta.bin" \notin Range(V1Order) /\ "meta.json" \notin Range(V2Order)
    BY DEF V1Order, V2Order, Range
  <2>5. SeenInv'
    BY <1>0, <2>1, <2>2, <2>3, <2>4 DEF SeenInv, Reading
  <2> QED
    BY <2>3, <2>5 DEF DueInv, Reading
<1>2. CASE Open
  <2>1. PICK next \in Files : <<rpc, next>> \in Then /\ rpc' = next
    BY <1>2 DEF Open
  <2>2. rpc \in Early /\ rpc \in Files /\ Readable(rpc) /\ Opened(rpc) /\ UNCHANGED <<kept, acc, answer>>
    BY <1>2, FilesAre DEF Open, Early, Then
  <2>3. Pure => /\ from'[rpc] = Latest /\ \A g \in Files : from'[g] \in {0, Latest}
                /\ \A g \in Files \ {rpc} : from'[g] = from[g]
    BY <2>2, OpensOne, OwnFormat
  <2>4. /\ rpc' \notin Reading \cup {"idle", "detect", "answer", "done", "error", "garbled", "docs.jsonl"}
        /\ rpc' = "field_masks.json" => rpc = "grams.json"
        /\ rpc \in Range(V1Order) <=> rpc' \in Range(V1Order)
        /\ rpc \in Range(V2Order) <=> rpc' \in Range(V2Order)
    BY <2>1 DEF Then, Reading, V1Order, V2Order, Range
  <2>5. SeenInv'
    BY <1>0, <2>3, <2>4 DEF SeenInv
  <2> QED
    BY <2>4, <2>5 DEF DueInv, Reading
<1>3. CASE OpenDocs
  <2>1. /\ rpc = "docs.dat" /\ "docs.dat" \in Files /\ "meta.bin" \in Files
        /\ Readable("docs.dat") /\ Opened("docs.dat")
        /\ acc' = Ids(Corpus(from["meta.bin"])) /\ rpc' = "look"
    BY <1>3, FilesAre DEF OpenDocs, StartLookup
  <2>2. Pure => \A g \in Files : from'[g] \in {0, Latest}
    BY <2>1, OpensOne, OwnFormat
  <2>3. Settled => begun[Latest].format = "v2"
    <3>1. rpc \in Range(V2Order)
      BY <2>1 DEF V2Order, Range
    <3> QED
      BY <3>1 DEF SeenInv
  <2>4. "look" \notin Range(V1Order)
    BY DEF V1Order, Range
  <2>5. SeenInv'
    BY <1>0, <2>1, <2>2, <2>3, <2>4 DEF SeenInv
  <2>6. Pure => Due(Corpus(Latest)) \subseteq acc'
    <3>1. from["meta.bin"] \in Builds
      BY <2>1 DEF IInv, BuildInv, OpenedInv
    <3>2. Pure => from["meta.bin"] = Latest
      BY <2>1, <3>1, OneBuild
    <3> QED
      BY <2>1, <3>2 DEF Due, Verified
  <2> QED
    BY <1>0, <2>1, <2>5, <2>6 DEF DueInv
<1>4. CASE OpenFails
  <2>1. /\ rpc' = "error" /\ UNCHANGED <<from, kept, acc, answer>>
        /\ \/ rpc \in Early \cup {"docs.dat"} /\ ~Readable(rpc)
           \/ rpc = "docs.dat" /\ Readable(rpc) /\ ~CountsAgree
           \/ rpc = "docs.jsonl" /\ ~Readable(rpc)
    BY <1>4 DEF OpenFails
  <2>2. ASSUME Settled PROVE FALSE
    <3>1. /\ file[rpc] = [of |-> Latest, whole |-> TRUE] /\ Readable(rpc)
      BY <2>1, <2>2, OwnFormat, SettledFile
    <3>2. rpc = "docs.dat" /\ ~CountsAgree
      BY <2>1, <3>1
    <3>3. from["meta.bin"] \in Builds /\ "meta.bin" \in Files
      BY <3>2, FilesAre DEF IInv, BuildInv, OpenedInv
    <3>4. from["meta.bin"] = Latest
      BY <2>2, <3>3, OneBuild DEF Pure
    <3> QED
      BY <3>1, <3>2, <3>4 DEF CountsAgree
  <2>3. SeenInv'
    BY <1>0, <2>1, <2>2 DEF SeenInv
  <2> QED
    BY <2>1, <2>3 DEF DueInv, Reading
<1>5. CASE ReadMasks
  <2>1. /\ rpc = "field_masks.json" /\ "field_masks.json" \in Files /\ "grams.json" \in Files
        /\ rpc' = "docs.jsonl" /\ IF Readable(rpc) THEN Opened(rpc) ELSE UNCHANGED from
    BY <1>5, FilesAre DEF ReadMasks
  <2>2. ASSUME Pure PROVE Readable(rpc)
    <3>1. CASE Latest = 1
      BY <2>1, <3>1, MetaIsLast DEF IInv, BuildInv, OpenedInv
    <3>2. CASE Settled
      BY <2>1, <3>2, OwnFormat, SettledFile
    <3> QED
      BY <2>2, <3>1, <3>2 DEF Pure
  <2>3. Pure => /\ from'["field_masks.json"] = Latest /\ \A g \in Files : from'[g] \in {0, Latest}
                /\ from'["grams.json"] = from["grams.json"]
    BY <2>1, <2>2, OpensOne, OwnFormat
  <2>4. Settled => begun[Latest].format = "v1"
    <3>1. rpc \in Range(V1Order)
      BY <2>1 DEF V1Order, Range
    <3> QED
      BY <3>1 DEF SeenInv
  <2>5. "docs.jsonl" \notin Range(V2Order)
    BY DEF V2Order, Range
  <2>6. SeenInv'
    BY <1>0, <2>1, <2>3, <2>4, <2>5 DEF SeenInv, Reading
  <2> QED
    BY <2>1, <2>6 DEF DueInv, Reading
<1>6. CASE ReadDocs
  <2>1. /\ rpc = "docs.jsonl" /\ "docs.jsonl" \in Files
        /\ {"grams.json", "field_masks.json"} \subseteq Files
        /\ Opened("docs.jsonl") /\ rpc' = "answer"
        /\ kept' \in (IF Readable(rpc) THEN {Len(Corpus(file[rpc].of))}
                      ELSE 0..Len(Corpus(file[rpc].of)))
    BY <1>6, FilesAre DEF ReadDocs
  <2>2. from["meta.json"] \in Builds /\ Latest # 0
    BY <2>1 DEF IInv, BuildInv, OpenedInv, Builds, Latest
  <2>3. ASSUME Pure PROVE Readable(rpc)
    <3>1. CASE Latest = 1
      BY <2>1, <2>2, <3>1, MetaIsLast
    <3>2. CASE Settled
      BY <2>1, <3>2, OwnFormat, SettledFile
    <3> QED
      BY <2>3, <3>1, <3>2 DEF Pure
  <2>4. Pure => /\ from'["docs.jsonl"] = Latest /\ \A g \in Files : from'[g] \in {0, Latest}
                /\ from'["grams.json"] = from["grams.json"]
                /\ from'["field_masks.json"] = from["field_masks.json"]
    BY <2>1, <2>3, OpensOne, OwnFormat
  <2>5. Pure => kept' = Len(Corpus(Latest))
    <3>1. from'["docs.jsonl"] = file["docs.jsonl"].of
      BY <2>1 DEF Opened, IInv, TypeOK
    <3> QED
      BY <2>1, <2>3, <2>4, <3>1
  <2>6. Settled => begun[Latest].format = "v1"
    <3>1. rpc \in Range(V1Order)
      BY <2>1 DEF V1Order, Range
    <3> QED
      BY <3>1 DEF SeenInv
  <2>7. "answer" \notin Range(V2Order)
    BY DEF V2Order, Range
  <2>8. SeenInv'
    BY <1>0, <2>1, <2>2, <2>4, <2>5, <2>6, <2>7 DEF SeenInv, Reading
  <2> QED
    BY <2>1, <2>8 DEF DueInv, Reading
<1> QED
  BY <1>1, <1>2, <1>3, <1>4, <1>5, <1>6 DEF OpenStep

LEMMA AnsweringAnswer ==
  ASSUME IInv, WholeInv, SeenInv, DueInv, AnswerStep
  PROVE  SeenInv' /\ DueInv'
<1> USE DEF Goto
<1>0. /\ UNCHANGED <<file, begun, query>> /\ Latest' = Latest
      /\ Settled' = Settled /\ Pure' = Pure
      /\ Corpus(Latest)' = Corpus(Latest) /\ Due(Corpus(Latest))' = Due(Corpus(Latest))
  BY SearchStill DEF SearchStep
<1>1. UNCHANGED <<from, kept>> /\ rpc \in Reading \cup {"answer"}
  BY DEF AnswerStep, AnswerV1, Garble, Probe, Missing, ReadPostings, ApplyMask, Scan, Map, Reading
<1>2. Latest # 0
  <2>1. rpc \in Reading => from["docs.dat"] \in Builds
    BY DEF IInv, BuildInv, OpenedInv
  <2> QED
    BY <1>1, <2>1 DEF Builds, Latest, SeenInv
<1>3. Pure /\ Garble => FALSE
  BY ReadsOne DEF Garble, Map, Reading
<1>4. rpc' \in Reading => rpc \in Reading
  BY DEF AnswerStep, AnswerV1, Garble, Probe, Missing, ReadPostings, ApplyMask, Scan, Map, Reading
<1>5. rpc' \in Reading \cup {"done", "garbled"} /\ (rpc' = "garbled" => Garble)
  BY DEF AnswerStep, AnswerV1, Garble, Probe, Missing, ReadPostings, ApplyMask, Scan, Reading
<1>6. SeenInv'
  <2>1. rpc' \notin Range(V1Order) /\ rpc' \notin Range(V2Order)
    BY <1>5 DEF Reading, V1Order, V2Order, Range
  <2>2. rpc' \notin {"idle", "detect", "answer", "error", "field_masks.json", "docs.jsonl"}
    BY <1>5 DEF Reading
  <2>3. Settled => rpc' # "garbled"
    BY <1>3, <1>5 DEF Pure
  <2> QED
    BY <1>0, <1>1, <1>2, <1>4, <2>1, <2>2, <2>3 DEF SeenInv
<1> DEFINE c == Corpus(Latest)
<1>7. ASSUME Pure
      PROVE  /\ c \in Corpora
             /\ rpc \in Reading => acc \subseteq Ids(c)
  <2>1. begun[Latest] \in BuildSet
    <3>1. Latest \in Builds
      BY <1>2 DEF Builds, Latest, IInv, BuildInv
    <3> QED
      BY <3>1 DEF Builds, IInv, BuildInv
  <2>2. c \in Corpora
    BY <2>1, BuildFacts DEF Corpus
  <2>3. rpc \in Reading => acc \subseteq Ids(Corpus(from["docs.dat"]))
    BY DEF IInv, TypeOK, Map, Reading
  <2> QED
    BY <1>7, <2>2, <2>3, ReadsOne
<1>8. CASE AnswerV1
  <2> DEFINE candidates == {d \in Ids(c) : \A i \in DOMAIN query.grams :
                               d \in WithGram(c, query.grams[i])}
             mask == IF query.field = NoField THEN candidates ELSE WithField(c, query.field)
             ids == candidates \cap mask \cap 0..(kept - 1)
  <2>1. rpc = "answer" /\ rpc' = "done"
    BY <1>8 DEF AnswerV1
  <2>2. ASSUME Pure PROVE answer' = Due(c)
    <3>1. /\ from["grams.json"] = Latest /\ from["docs.jsonl"] = Latest
          /\ from["field_masks.json"] = Latest /\ Latest # 0 /\ kept = Len(c)
      BY <1>2, <2>1, <2>2 DEF SeenInv
    <3>2. answer' = Verified(c, ids)
      BY <1>8, <3>1 DEF AnswerV1
    <3>3. ids \subseteq Ids(c)
      OBVIOUS
    <3>4. ASSUME NEW d \in Due(c) PROVE d \in ids
      <4>1. /\ d \in Ids(c) /\ \A i \in DOMAIN query.grams : d \in WithGram(c, query.grams[i])
            /\ query.field # NoField => d \in WithField(c, query.field)
        BY <1>7, <2>2, DueFacts
      <4>2. d \in 0..(kept - 1)
        BY <3>1, <4>1 DEF Ids
      <4> QED
        BY <4>1, <4>2
    <3> HIDE DEF ids, c
    <3> QED
      BY <3>2, <3>3, <3>4, ScanFindsAll
  <2> QED
    BY <1>0, <1>6, <2>1, <2>2 DEF DueInv, Reading
<1>9. CASE Garble
  <2>1. rpc' = "garbled"
    BY <1>9 DEF Garble
  <2> QED
    BY <1>0, <1>3, <1>6, <1>9, <2>1 DEF DueInv, Reading
<1>10. CASE Probe
  <2>1. rpc = "look" /\ rpc' \in {"look", "postings"} /\ acc' = acc
    BY <1>10 DEF Probe
  <2> QED
    BY <1>0, <1>6, <2>1 DEF DueInv, Reading
<1>11. CASE Missing
  <2>1. rpc = "look" /\ lo > hi /\ answer' = {} /\ rpc' = "done"
    BY <1>11 DEF Missing
  <2>2. ASSUME Pure PROVE Due(c) = {}
    <3>1. SUFFICES ASSUME NEW d \in Due(c) PROVE FALSE
      OBVIOUS
    <3>2. nth \in DOMAIN query.grams /\ Bracket(Records, Key, lo, hi) /\ lo \in Nat /\ hi \in Int
      BY <2>1 DEF IInv, LookupInv, TypeOK
    <3>3. Key \in Keys(c)
      BY <1>7, <2>2, <3>2, DueFacts DEF Key
    <3>4. \E i \in 1..Len(Records) : Records[i] = Key
      <4>1. /\ begun[Latest] \in BuildSet /\ begun[Latest].corpus = c
            /\ Records = begun[Latest].index
        BY <2>1, <2>2, ReadsOne DEF Reading
      <4>2. \E i \in 1..Len(begun[Latest].index) : begun[Latest].index[i] = Key
        BY <3>3, <4>1, PostingsFacts
      <4> QED
        BY <4>1, <4>2
    <3> QED
      BY <2>1, <3>2, <3>4 DEF Bracket
  <2> QED
    BY <1>0, <1>6, <2>1, <2>2 DEF DueInv, Reading
<1>12. CASE ReadPostings
  <2>1. /\ rpc = "postings" /\ acc' = acc \cap begun[from["grams.dat"]].postings[Records[entry + 1]]
        /\ rpc' = "mask" => query.field # NoField /\ rpc' \in Reading
    BY <1>12 DEF ReadPostings, Reading
  <2>2. rpc' \in Reading
    BY <1>12 DEF ReadPostings, Reading
  <2>3. ASSUME Pure PROVE Due(c) \subseteq acc'
    <3>1. SUFFICES ASSUME NEW d \in Due(c) PROVE d \in acc'
      OBVIOUS
    <3>2. nth \in DOMAIN query.grams /\ Records[entry + 1] = Key
      BY <2>1 DEF IInv, LookupInv
    <3>3. Key \in Keys(c) /\ d \in WithKey(c, Key)
      BY <1>7, <2>3, <3>2, DueFacts DEF Key
    <3>4. begun[from["grams.dat"]].postings[Key] = WithKey(c, Key)
      BY <2>1, <2>3, <3>3, ReadsOne, PostingsFacts DEF Reading
    <3>5. d \in acc
      BY <2>1, <2>3 DEF DueInv, Reading
    <3> QED
      BY <2>1, <3>2, <3>3, <3>4, <3>5
  <2>4. rpc' # "done"
    BY <2>2 DEF Reading
  <2> QED
    BY <1>0, <1>6, <2>1, <2>3, <2>4 DEF DueInv
<1>13. CASE ApplyMask
  <2>1. /\ rpc = "mask" /\ rpc' = "scan"
        /\ acc' = acc \cap WithField(Corpus(from["fields.dat"]), query.field)
    BY <1>13 DEF ApplyMask
  <2>2. ASSUME Pure PROVE Due(c) \subseteq acc'
    <3>1. SUFFICES ASSUME NEW d \in Due(c) PROVE d \in acc'
      OBVIOUS
    <3>2. query.field # NoField /\ d \in acc
      BY <2>1, <2>2 DEF DueInv, Reading
    <3>3. d \in WithField(c, query.field)
      BY <1>7, <2>2, <3>2, DueFacts
    <3>4. Corpus(from["fields.dat"]) = c
      BY <2>1, <2>2, ReadsOne DEF Reading
    <3> QED
      BY <2>1, <3>2, <3>3, <3>4
  <2> QED
    BY <1>0, <1>6, <2>1, <2>2 DEF DueInv
<1>14. CASE Scan
  <2>1. rpc = "scan" /\ rpc' = "done" /\ answer' = Verified(Corpus(from["docs.dat"]), acc)
    BY <1>14 DEF Scan
  <2>2. ASSUME Pure PROVE answer' = Due(c)
    <3>1. Corpus(from["docs.dat"]) = c
      BY <2>1, <2>2, ReadsOne DEF Reading
    <3>2. acc \subseteq Ids(c) /\ Due(c) \subseteq acc
      BY <1>7, <2>1, <2>2 DEF DueInv, Reading
    <3> HIDE DEF c
    <3> QED
      BY <2>1, <3>1, <3>2, ScanFindsAll
  <2> QED
    BY <1>0, <1>6, <2>1, <2>2 DEF DueInv, Reading
<1> QED
  BY <1>8, <1>9, <1>10, <1>11, <1>12, <1>13, <1>14 DEF AnswerStep
-----------------------------------------------------------------------------
LEMMA AskAnswer ==
  ASSUME IInv, WholeInv, SeenInv, DueInv, NEW q \in Queries, Ask(q)
  PROVE  SeenInv' /\ DueInv'
<1>1. /\ rpc = "idle" /\ rpc' = "detect" /\ UNCHANGED from
  BY DEF Ask, Goto
<1>2. \A f \in Files : from'[f] = 0
  BY <1>1 DEF SeenInv
<1>3. "detect" \notin Range(V1Order) /\ "detect" \notin Range(V2Order)
  BY DEF V1Order, V2Order, Range
<1> QED
  BY <1>1, <1>2, <1>3 DEF SeenInv, DueInv, Reading

LEMMA IdleAnswer ==
  ASSUME SeenInv, DueInv, UNCHANGED vars
  PROVE  SeenInv' /\ DueInv'
<1>1. UNCHANGED <<file, begun, completed, rpc, query, from, kept, acc, answer, calm>>
  BY DEF vars, wvars, rvars
<1>2. /\ Latest' = Latest /\ Corpus(Latest)' = Corpus(Latest)
      /\ Due(Corpus(Latest))' = Due(Corpus(Latest))
  BY <1>1 DEF Latest, Corpus, Due, Verified, Ids
<1>3. Settled' = Settled
  BY <1>1, <1>2, Zenon DEF Settled
<1>4. Pure' = Pure
  BY <1>2, <1>3, Zenon DEF Pure
<1> QED
  BY <1>1, <1>2, <1>3, <1>4 DEF SeenInv, DueInv

LEMMA AnswerInit == Init => AnswerInv
<1> SUFFICES ASSUME Init PROVE AnswerInv
  OBVIOUS
<1>1. /\ begun = << >> /\ Latest = 0 /\ ~Running /\ rpc = "idle" /\ calm = FALSE
      /\ \A f \in Files : from[f] = 0
  BY DEF Init, Latest, Running
<1>2. ~Settled /\ ~Pure
  BY <1>1 DEF Settled, Pure
<1> QED
  BY <1>1, <1>2 DEF AnswerInv, WholeInv, SeenInv, DueInv, Reading

LEMMA AnswerStepKeeps == IInv /\ AnswerInv /\ [Next]_vars => AnswerInv'
<1> SUFFICES ASSUME IInv, AnswerInv, [Next]_vars PROVE AnswerInv'
  OBVIOUS
<1>1. WholeInv /\ SeenInv /\ DueInv
  BY DEF AnswerInv
<1>2. CASE Build
  BY <1>1, <1>2, WriterWhole, WriterAnswer DEF AnswerInv
<1>3. CASE SearchStep
  BY <1>1, <1>3, OtherWhole, OpeningAnswer, AnsweringAnswer DEF AnswerInv, SearchStep
<1>4. ASSUME NEW q \in Queries, Ask(q) PROVE AnswerInv'
  BY <1>1, <1>4, OtherWhole, AskAnswer DEF AnswerInv
<1>5. CASE UNCHANGED vars
  BY <1>1, <1>5, OtherWhole, IdleAnswer DEF AnswerInv
<1> QED
  BY <1>2, <1>3, <1>4, <1>5 DEF Next

\* A search of the first build finds all or reports an error; one of a finished
\* build is answered and finds what is in it, in both formats and for every
\* input: no document is lost between the texts, the postings as they are
\* encoded, the search for their keys and the files they are read from
\* (v2/reader.rs:129-302, segjson.rs:159-213).
THEOREM SearchesAnswerTheBuild == Spec => []AnswersTheBuild
<1>1. IInv /\ AnswerInv => AnswersTheBuild
  <2> SUFFICES ASSUME IInv, AnswerInv, rpc \in Ends PROVE
        /\ Latest = 1 => rpc = "error" \/ answer = Due(Corpus(1))
        /\ Settled => rpc = "done" /\ answer = Due(Corpus(Latest))
    BY DEF AnswersTheBuild
  <2>1. ASSUME Latest = 1 PROVE rpc = "error" \/ answer = Due(Corpus(1))
    BY <2>1 DEF AnswerInv, DueInv, Pure, Ends, IInv, FirstInv
  <2>2. ASSUME Settled PROVE rpc = "done" /\ answer = Due(Corpus(Latest))
    BY <2>2 DEF AnswerInv, SeenInv, DueInv, Pure, Ends
  <2> QED
    BY <2>1, <2>2
<1>2. Spec => Init /\ [][Next]_vars
  BY PTL DEF Spec
<1> QED
  BY <1>1, <1>2, AnswerInit, AnswerStepKeeps, IInvHolds, PTL
=============================================================================
