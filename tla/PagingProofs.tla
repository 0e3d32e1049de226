---------------------------- MODULE PagingProofs ----------------------------
(***************************************************************************)
(* Theorems about Paging for any number of segments and documents, any      *)
(* limits, hot windows and generations: what following the cursor shows     *)
(* twice and what it passes over.                                           *)
(***************************************************************************)
EXTENDS Paging, NaturalSets

\* The page under way: hits of segments searched and merged, as the scan from
\* the client's cursor finds them.
PageInv ==
  fate # Idle =>
    \A i \in 1..Len(page) :
      /\ page[i].seg \in Segs \ todo /\ fate[page[i].seg] = "searched"
      /\ page[i].doc \in HitsOf(page[i].seg)

\* A part that was merged: its place in the new cursor, and every match the scan
\* verified has its ext_id on the page, unless the page is full.
Merged(s) ==
  /\ fate[s] = "searched" =>
       /\ after[s] = LastDocid(s)
       /\ \A d \in HitsOf(s) : Len(page) >= size \/ Seen(page, HitAt(s, d))
  /\ fate[s] \in {"none", "lost"} => after[s] = NoPos

PartsInv ==
  fate # Idle =>
    \A s \in Segs : IF s \in todo THEN fate[s] \in {"searched", "failed", "skipped"}
                    ELSE Merged(s)

\* Between two pages no part is left over.
Resting == fate = Idle => todo = {}

\* What was delivered of a steady segment lies before the cursor.
BehindCursor == \A x \in delivered : x[1] \in steady => x[2] <= cursor[x[1]]

IInv ==
  /\ TypeOK /\ Resting /\ PageInv /\ PartsInv
  /\ BehindCursor /\ OncePerSteadySegment /\ AmplePagesLoseNothing
-----------------------------------------------------------------------------
LEMMA DocSets ==
  ASSUME NEW S \in SUBSET Docs
  PROVE  S \in SUBSET Nat /\ IsFiniteSet(S)
<1>1. IsFiniteSet(Docs) /\ Docs \subseteq Nat
  BY FS_Interval, PagingAssumption DEF Docs
<1> QED
  BY <1>1, FS_Subset
-----------------------------------------------------------------------------
(* One scan *)

LEMMA MaxOfDocs ==
  ASSUME NEW S \in SUBSET Docs, S # {}
  PROVE  Max(S) \in S /\ \A x \in S : x <= Max(S)
<1>1. S \in SUBSET Nat /\ MaxDoc \in Nat /\ \A x \in S : x <= MaxDoc
  BY PagingAssumption DEF Docs
<1> QED
  BY <1>1, MaxFacts

\* A scan goes through the candidates beyond the cursor without a gap, and its
\* last_docid is where it stood last.
LEMMA ScanFacts ==
  ASSUME TypeOK, NEW s \in Segs
  PROVE  /\ Left(s) \in SUBSET Docs /\ Scanned(s) \subseteq Left(s)
         /\ Verified(s) \subseteq Scanned(s) /\ HitsOf(s) \subseteq Verified(s)
         /\ HitsOf(s) = Verified(s) \cap match[s]
         /\ \A d \in Left(s) : cursor[s] < d
         /\ Left(s) # {} => Scanned(s) # {}
         /\ cursor[s] \in Docs \cup {NoPos} /\ LastDocid(s) \in Docs
         /\ cursor[s] <= LastDocid(s)
         /\ \A d \in Scanned(s) : d <= LastDocid(s)
         /\ \A d \in match[s] : d <= LastDocid(s) => d <= cursor[s] \/ d \in Scanned(s)
<1>0. /\ cand[s] \in SUBSET Docs /\ match[s] \subseteq cand[s]
      /\ cursor[s] \in Docs \cup {NoPos} /\ budget \in Nat
  BY PagingAssumption DEF TypeOK
<1>1. /\ MaxDoc \in Nat /\ 0 \in Docs /\ NoPos = -1 /\ HitCap \in Nat \ {0}
      /\ \A d \in Docs : d \in Nat /\ d <= MaxDoc
  BY PagingAssumption DEF Docs, NoPos
<1>2. cursor[s] \in Int
  BY <1>0, <1>1
<1>3. /\ Left(s) \in SUBSET Docs /\ Scanned(s) \subseteq Left(s)
      /\ Verified(s) \subseteq Scanned(s) /\ HitsOf(s) \subseteq Verified(s)
      /\ HitsOf(s) = Verified(s) \cap match[s]
      /\ \A d \in Left(s) : cursor[s] < d
  BY <1>0, <1>1, <1>2 DEF Left, Scanned, Verified, HitsOf
\* Without a gap: what is before a document scanned was scanned.
<1>4. ASSUME NEW c \in Left(s), NEW d \in Scanned(s), c <= d PROVE c \in Scanned(s)
  <2> DEFINE L == Left(s)
             M == Left(s) \cap match[s]
  <2>1. L \in SUBSET Docs /\ M \in SUBSET Docs /\ c \in Int /\ d \in Int /\ c \in L
    BY <1>1, <1>3
  <2>2. Upto(L, d) <= budget + 1 /\ Upto(M, d - 1) < HitCap
    BY <1>4 DEF Scanned
  <2> HIDE DEF L, M
  <2>3. Upto(L, c) <= Upto(L, d) /\ Upto(L, c) \in Nat /\ Upto(L, d) \in Nat
    BY <1>4, <2>1, DocSets, UptoFacts
  <2>4. Upto(M, c - 1) <= Upto(M, d - 1) /\ Upto(M, c - 1) \in Nat /\ Upto(M, d - 1) \in Nat
    <3>1. c - 1 \in Int /\ d - 1 \in Int /\ c - 1 <= d - 1
      BY <1>4, <2>1
    <3> QED
      BY <2>1, <3>1, DocSets, UptoFacts
  <2>5. Upto(L, c) <= budget + 1 /\ Upto(M, c - 1) < HitCap
    BY <1>0, <1>1, <2>2, <2>3, <2>4
  <2> QED
    BY <2>1, <2>5 DEF Scanned, L, M
\* The first candidate is scanned.
<1>5. ASSUME Left(s) # {} PROVE Scanned(s) # {}
  <2>1. Left(s) \in SUBSET Nat
    BY <1>1, <1>3
  <2>2. PICK d \in Left(s) : \A c \in Left(s) : d <= c
    BY <1>5, <2>1, LeastNatural
  <2> DEFINE L == Left(s)
             M == Left(s) \cap match[s]
  <2>3. L \in SUBSET Docs /\ M \in SUBSET Docs /\ d \in Int /\ d - 1 \in Int
    BY <1>1, <1>3
  <2>4. Upto(L, d - 1) = 0 /\ Upto(M, d - 1) = 0
    <3>1. \A c \in Left(s) : ~ (c <= d - 1)
      BY <2>1, <2>2
    <3>2. {c \in L : c <= d - 1} = {} /\ {c \in M : c <= d - 1} = {}
      BY <3>1
    <3> QED
      BY <3>2, FS_EmptySet DEF Upto
  <2> HIDE DEF L, M
  <2>5. Upto(L, d) <= 1 /\ Upto(L, d) \in Nat
    <3>1. L \in SUBSET Nat /\ IsFiniteSet(L)
      BY <2>3, DocSets
    <3>2. Upto(L, d) = Upto(L, d - 1) + (IF d \in L THEN 1 ELSE 0)
      BY <2>3, <3>1, UptoStep
    <3> QED
      BY <2>3, <2>4, <3>1, <3>2, UptoFacts
  <2>6. Upto(L, d) <= budget + 1 /\ Upto(M, d - 1) < HitCap
    BY <1>0, <1>1, <2>4, <2>5
  <2>7. d \in Scanned(s)
    BY <2>6 DEF Scanned, L, M
  <2> QED
    BY <2>7
<1>6. CASE Scanned(s) # {}
  <2>1. Max(Scanned(s)) \in Scanned(s) /\ \A d \in Scanned(s) : d <= Max(Scanned(s))
    BY <1>3, <1>6, MaxOfDocs
  <2>2. LastDocid(s) = Max(Scanned(s))
    BY <1>6 DEF LastDocid
  <2>3. LastDocid(s) \in Docs /\ cursor[s] <= LastDocid(s)
    BY <1>1, <1>2, <1>3, <2>1, <2>2
  <2>4. ASSUME NEW d \in match[s], d <= LastDocid(s), ~ (d <= cursor[s]) PROVE d \in Scanned(s)
    <3>1. d \in cand[s] /\ d > cursor[s]
      BY <1>0, <1>1, <1>2, <2>4
    <3>2. d \in Left(s)
      BY <3>1 DEF Left
    <3> QED
      BY <1>4, <2>1, <2>2, <2>4, <3>2
  <2> QED
    BY <1>0, <1>3, <2>1, <2>2, <2>3, <2>4
<1>7. CASE Scanned(s) = {}
  <2>1. Left(s) = {}
    BY <1>5, <1>7
  <2> DEFINE m == LastDocid(s)
  <2>2. m = Max({cursor[s], 0})
    BY <1>7 DEF LastDocid
  <2>3. m \in {cursor[s], 0} /\ cursor[s] <= m /\ 0 <= m
    <3>1. \E x \in {cursor[s], 0} : \A y \in {cursor[s], 0} : x >= y
      BY <1>2
    <3> QED
      BY <1>2, <2>2, <3>1 DEF Max
  <2>4. m \in Docs
    BY <1>0, <1>1, <2>3
  <2>5. \A d \in match[s] : d <= cursor[s]
    <3>1. \A d \in cand[s] : ~ (d > cursor[s])
      BY <2>1 DEF Left
    <3> QED
      BY <1>0, <1>1, <1>2, <3>1
  <2> QED
    BY <1>0, <1>3, <1>5, <1>7, <2>3, <2>4, <2>5
<1> QED
  BY <1>5, <1>6, <1>7
-----------------------------------------------------------------------------
(* One merge *)

\* m is what taking the first k hits of hs makes of the page p: what was there
\* stays, what is new is one of them, and none is turned away without a reason.
Taken(m, p, hs, k) ==
  /\ m \in Seq(Hits) /\ Len(p) <= Len(m)
  /\ \A i \in 1..Len(p) : m[i] = p[i]
  /\ \A i \in 1..Len(m) : i <= Len(p) \/ \E j \in 1..k : m[i] = hs[j]
  /\ \A j \in 1..k : Len(m) >= size \/ Seen(m, hs[j])

LEMMA TakeOne ==
  ASSUME NEW p \in Seq(Hits), NEW hs \in Seq(Hits), NEW k \in 0..(Len(hs) - 1),
         NEW m, Taken(m, p, hs, k), size \in Nat
  PROVE  Taken(Take(m, hs[k + 1]), p, hs, k + 1)
<1> DEFINE h == hs[k + 1]
           t == Take(m, h)
<1>1. /\ m \in Seq(Hits) /\ h \in Hits /\ k + 1 \in 1..(k + 1) /\ k \in Nat
      /\ Len(p) \in Nat /\ Len(m) \in Nat /\ Len(p) <= Len(m)
      /\ DOMAIN m = 1..Len(m)
  BY DEF Taken
<1>2. CASE Len(m) >= size \/ Seen(m, h)
  <2>1. t = m
    BY <1>2 DEF Take
  <2>2. \A j \in 1..(k + 1) : Len(m) >= size \/ Seen(m, hs[j])
    <3>1. \A j \in 1..(k + 1) : j \in 1..k \/ j = k + 1
      BY <1>1
    <3> QED
      BY <1>2, <3>1 DEF Taken
  <2>3. \A i \in 1..Len(m) : i <= Len(p) \/ \E j \in 1..(k + 1) : m[i] = hs[j]
    <3>1. \A j \in 1..k : j \in 1..(k + 1)
      BY <1>1
    <3> QED
      BY <3>1 DEF Taken
  <2> QED
    BY <2>1, <2>2, <2>3 DEF Taken
<1>3. CASE ~ (Len(m) >= size \/ Seen(m, h))
  <2>1. t = Append(m, h)
    BY <1>3 DEF Take
  <2> HIDE DEF h, t
  <2>2. /\ t \in Seq(Hits) /\ Len(t) = Len(m) + 1 /\ t[Len(m) + 1] = h
        /\ \A i \in 1..Len(m) : t[i] = m[i]
        /\ DOMAIN t = 1..(Len(m) + 1)
    BY <1>1, <2>1
  <2>3. /\ Len(p) <= Len(t)
        /\ \A i \in 1..Len(p) : t[i] = p[i]
    <3>1. \A i \in 1..Len(p) : i \in 1..Len(m) /\ m[i] = p[i]
      BY <1>1 DEF Taken
    <3> QED
      BY <1>1, <2>2, <3>1
  <2>4. \A i \in 1..Len(t) : i <= Len(p) \/ \E j \in 1..(k + 1) : t[i] = hs[j]
    <3> TAKE i \in 1..Len(t)
    <3>1. CASE i \in 1..Len(m)
      <4>1. i <= Len(p) \/ \E j \in 1..k : m[i] = hs[j]
        BY <3>1 DEF Taken
      <4>2. \A j \in 1..k : j \in 1..(k + 1)
        BY <1>1
      <4> QED
        BY <2>2, <3>1, <4>1, <4>2
    <3>2. CASE i = Len(m) + 1
      BY <1>1, <2>2, <3>2 DEF h
    <3> QED
      BY <1>1, <2>2, <3>1, <3>2
  <2>5. \A j \in 1..(k + 1) : Len(t) >= size \/ Seen(t, hs[j])
    <3> TAKE j \in 1..(k + 1)
    <3>1. CASE j \in 1..k
      <4>1. Len(m) >= size \/ Seen(m, hs[j])
        BY <3>1 DEF Taken
      <4>2. Seen(m, hs[j]) => Seen(t, hs[j])
        <5>1. \A i \in DOMAIN m : i \in DOMAIN t /\ t[i] = m[i]
          BY <1>1, <2>2
        <5> QED
          BY <5>1 DEF Seen
      <4>3. Len(m) >= size => Len(t) >= size
        BY <1>1, <2>2
      <4> QED
        BY <4>1, <4>2, <4>3
    <3>2. CASE j = k + 1
      <4>1. Len(m) + 1 \in DOMAIN t /\ t[Len(m) + 1] = hs[j]
        BY <1>1, <2>2, <3>2 DEF h
      <4> QED
        BY <4>1 DEF Seen
    <3> QED
      BY <1>1, <3>1, <3>2
  <2> QED
    BY <2>2, <2>3, <2>4, <2>5 DEF Taken, h, t
<1> QED
  BY <1>2, <1>3

IsTaken(f, p, hs) ==
  f = [k \in 0..Len(hs) |-> IF k = 0 THEN p ELSE Take(f[k - 1], hs[k])]

Begun(f, p, hs, m) ==
  /\ f = [k \in 0..Len(hs) |-> f[k]] /\ f[0] = p
  /\ \A k \in 1..m : f[k] = Take(f[k - 1], hs[k])

LEMMA TakenExists ==
  ASSUME NEW p, NEW hs \in Seq(Hits)
  PROVE  \E f : IsTaken(f, p, hs)
<1> DEFINE N0 == Len(hs)
           S == {m \in 0..N0 : \E f : Begun(f, p, hs, m)}
<1>0. N0 \in Nat
  OBVIOUS
<1>1. 0 \in S
  <2> DEFINE f == [k \in 0..N0 |-> p]
  <2>1. f = [k \in 0..N0 |-> f[k]] /\ f[0] = p
    BY <1>0
  <2>2. Begun(f, p, hs, 0)
    BY <2>1 DEF Begun
  <2> QED
    BY <1>0, <2>2
<1>2. ASSUME NEW m \in 0..(N0 - 1), m \in S PROVE m + 1 \in S
  <2>1. PICK f : Begun(f, p, hs, m)
    BY <1>2
  <2> DEFINE g == [k \in 0..N0 |-> IF k = m + 1 THEN Take(f[m], hs[m + 1]) ELSE f[k]]
  <2>2. /\ \A k \in 0..N0 : k # m + 1 => g[k] = f[k]
        /\ g[m + 1] = Take(f[m], hs[m + 1])
        /\ g = [k \in 0..N0 |-> g[k]]
    BY <1>0
  <2> HIDE DEF g
  <2>3. g[0] = p
    BY <1>0, <2>1, <2>2 DEF Begun
  <2>4. \A k \in 1..(m + 1) : g[k] = Take(g[k - 1], hs[k])
    <3> TAKE k \in 1..(m + 1)
    <3>1. CASE k = m + 1
      <4>1. g[m] = f[m] /\ k - 1 = m
        BY <1>0, <2>2, <3>1
      <4> QED
        BY <2>2, <3>1, <4>1
    <3>2. CASE k # m + 1
      <4>1. /\ k \in 1..m /\ k \in 0..N0 /\ k - 1 \in 0..N0
            /\ k - 1 # m + 1 /\ k # m + 1
        BY <1>0, <3>2
      <4> QED
        BY <2>1, <2>2, <4>1 DEF Begun
    <3> QED
      BY <3>1, <3>2
  <2>5. Begun(g, p, hs, m + 1)
    BY <2>2, <2>3, <2>4 DEF Begun
  <2> QED
    BY <1>0, <2>5
<1>3. N0 \in S
  <2>1. 0..N0 \subseteq S
    <3> HIDE DEF S, N0
    <3> QED
      BY <1>0, <1>1, <1>2, InductionUpTo
  <2> QED
    BY <1>0, <2>1
<1>4. PICK f : Begun(f, p, hs, N0)
  BY <1>3
<1>5. \A k \in 0..N0 : f[k] = IF k = 0 THEN p ELSE Take(f[k - 1], hs[k])
  BY <1>0, <1>4 DEF Begun
<1>6. f = [k \in 0..N0 |-> IF k = 0 THEN p ELSE Take(f[k - 1], hs[k])]
  BY <1>4, <1>5 DEF Begun
<1> QED
  BY <1>6 DEF IsTaken

LEMMA MergeFacts ==
  ASSUME NEW p \in Seq(Hits), NEW hs \in Seq(Hits), size \in Nat
  PROVE  Taken(Merge(p, hs), p, hs, Len(hs))
<1> DEFINE f == CHOOSE g : IsTaken(g, p, hs)
           S == {k \in 0..Len(hs) : Taken(f[k], p, hs, k)}
<1>0. Len(hs) \in Nat /\ Len(p) \in Nat
  OBVIOUS
<1>1. IsTaken(f, p, hs)
  BY TakenExists
<1>2. Merge(p, hs) = f[Len(hs)]
  BY DEF Merge, IsTaken
<1> HIDE DEF f
<1>3. \A k \in 0..Len(hs) : f[k] = IF k = 0 THEN p ELSE Take(f[k - 1], hs[k])
  BY <1>1 DEF IsTaken
<1>4. 0 \in S
  <2>1. f[0] = p
    BY <1>0, <1>3
  <2>2. Taken(p, p, hs, 0)
    BY <1>0 DEF Taken
  <2> QED
    BY <1>0, <2>1, <2>2
<1>5. ASSUME NEW k \in 0..(Len(hs) - 1), k \in S PROVE k + 1 \in S
  <2>1. k + 1 \in 0..Len(hs) /\ k + 1 # 0 /\ (k + 1) - 1 = k
    BY <1>0
  <2>2. f[k + 1] = Take(f[k], hs[k + 1])
    BY <1>3, <2>1
  <2>3. Taken(f[k], p, hs, k)
    BY <1>5
  <2>4. Taken(Take(f[k], hs[k + 1]), p, hs, k + 1)
    BY <2>3, TakeOne
  <2> QED
    BY <2>1, <2>2, <2>4
<1>6. 0..Len(hs) \subseteq S
  <2> HIDE DEF S
  <2> QED
    BY <1>0, <1>4, <1>5, InductionUpTo
<1> QED
  BY <1>0, <1>2, <1>6

\* What a part brings to the page: the hits of its scan, all of them.
LEMMA PartFacts ==
  ASSUME TypeOK, NEW s \in Segs
  PROVE  /\ PartHits(s) \in Seq(Hits)
         /\ \A k \in 1..Len(PartHits(s)) :
              /\ fate[s] = "searched"
              /\ PartHits(s)[k].seg = s /\ PartHits(s)[k].doc \in HitsOf(s)
         /\ fate[s] = "searched" =>
              \A d \in HitsOf(s) : \E k \in 1..Len(PartHits(s)) : PartHits(s)[k] = HitAt(s, d)
<1>1. CASE fate[s] # "searched"
  <2>1. PartHits(s) = << >>
    BY <1>1 DEF PartHits
  <2> QED
    BY <1>1, <2>1
<1>2. CASE fate[s] = "searched"
  <2> DEFINE H == HitsOf(s)
             c == Cardinality(H)
             docs == Ascending(H)
             hs == [i \in DOMAIN docs |-> HitAt(s, docs[i])]
  <2>1. H \in SUBSET Docs
    BY ScanFacts
  <2>2. H \in SUBSET Nat /\ IsFiniteSet(H)
    BY <2>1, DocSets
  <2>3. PartHits(s) = hs
    BY <1>2 DEF PartHits, HitSeq
  <2>4. \A d \in H : HitAt(s, d) \in Hits /\ HitAt(s, d).seg = s /\ HitAt(s, d).doc = d
    BY <2>1 DEF HitAt, Hits, Exts
  <2> HIDE DEF c, H
  <2>5. /\ c \in Nat /\ docs \in Seq(H) /\ Len(docs) = c
        /\ \A i \in 1..c : docs[i] \in H
        /\ \A d \in H : \E i \in 1..c : docs[i] = d
    BY <2>2, AscendingFacts DEF c
  <2> HIDE DEF docs
  <2>6. DOMAIN docs = 1..c
    BY <2>5
  <2>7. hs \in Seq(Hits) /\ Len(hs) = c /\ \A i \in 1..c : hs[i] = HitAt(s, docs[i])
    BY <2>4, <2>5, <2>6
  <2> HIDE DEF hs
  <2> QED
    BY <1>2, <2>3, <2>4, <2>5, <2>7 DEF H
<1> QED
  BY <1>1, <1>2
-----------------------------------------------------------------------------
(* The invariant *)

LEMMA Constants ==
  ASSUME TypeOK
  PROVE  /\ size \in Nat /\ 0 \in Docs /\ NoPos \notin Docs /\ Hot \notin Segs
         /\ \A d \in Docs : d \in Nat
         /\ \A s \in Segs : match[s] \subseteq Docs
BY PagingAssumption DEF TypeOK, Docs, NoPos, Hot, Segs

LEMMA InitHolds == Init => IInv
<1> SUFFICES ASSUME Init PROVE IInv
  OBVIOUS
<1>1. PICK shape \in [Segs -> Shapes] :
        /\ cand = [s \in Segs |-> shape[s][1]]
        /\ match = [s \in Segs |-> shape[s][2]]
  BY DEF Init
<1>2. /\ cand \in [Segs -> SUBSET Docs] /\ \A s \in Segs : match[s] \subseteq cand[s]
  <2>1. \A s \in Segs : shape[s] \in Shapes
    OBVIOUS
  <2>2. \A s \in Segs : shape[s][2] \subseteq shape[s][1] /\ shape[s][1] \subseteq Docs
    BY <2>1, PagingAssumption
  <2> QED
    BY <1>1, <2>2
<1>3. gen \in DOMAIN listed
  <2>1. listed \in Seq(SUBSET Segs \ {{}}) /\ listed # << >>
    BY PagingAssumption DEF Init
  <2> QED
    BY <2>1 DEF Init
<1>4. /\ cursor \in [Segs -> Docs \cup {NoPos}] /\ after \in [Segs -> Docs \cup {NoPos}]
      /\ \A s \in Segs : cursor[s] = NoPos
  BY DEF Init
<1>5. fate \in [Segs -> {"none", "searched", "failed", "lost", "skipped"}] /\ fate = Idle
  BY DEF Init, Idle
<1>6. /\ at \in 0..gen /\ pin \in 0..at /\ faults \in 0..MaxFaults
      /\ size \in Pages /\ budget \in Budgets /\ listed \in Histories
      /\ todo = {} /\ page \in Seq(Hits) /\ steady \subseteq Segs
      /\ delivered = {} /\ repeated = {} /\ exts = {} /\ ample = Segs
  BY PagingAssumption DEF Init
<1>7. TypeOK
  BY <1>2, <1>3, <1>4, <1>5, <1>6 DEF TypeOK
<1>8. \A s \in Segs : \A d \in match[s] : ~ (d <= cursor[s])
  <2>1. \A s \in Segs : \A d \in match[s] : d \in Nat
    BY <1>7, Constants
  <2> QED
    BY <1>4, <2>1 DEF NoPos
<1>9. Resting /\ PageInv /\ PartsInv
  BY <1>5, <1>6 DEF PageInv, PartsInv, Resting
<1>10. BehindCursor /\ OncePerSteadySegment /\ AmplePagesLoseNothing
  BY <1>6, <1>8 DEF BehindCursor, OncePerSteadySegment, AmplePagesLoseNothing
<1> QED
  BY <1>7, <1>9, <1>10 DEF IInv

\* As long as the query and the cursor are the same, so is every scan.
LEMMA SameScan ==
  ASSUME UNCHANGED <<query, cursor>>, NEW s
  PROVE  /\ HitsOf(s)' = HitsOf(s) /\ Scanned(s)' = Scanned(s)
         /\ Verified(s)' = Verified(s) /\ LastDocid(s)' = LastDocid(s)
<1>1. UNCHANGED <<cand, match, budget>>
  BY DEF query
<1>2. Left(s)' = Left(s)
  BY <1>1 DEF Left
<1>3. Scanned(s)' = Scanned(s)
  BY <1>1, <1>2 DEF Scanned
<1>4. Verified(s)' = Verified(s)
  BY <1>1, <1>2, <1>3 DEF Verified
<1>5. HitsOf(s)' = HitsOf(s)
  BY <1>1, <1>4 DEF HitsOf
<1>6. LastDocid(s)' = LastDocid(s)
  BY <1>3 DEF LastDocid
<1> QED
  BY <1>3, <1>4, <1>5, <1>6

LEMMA StepPublish ==
  ASSUME IInv, Publish
  PROVE  IInv'
<1>1. /\ UNCHANGED <<query, at, pin, cursor, fate, todo, page, after>>
      /\ UNCHANGED <<faults, steady, delivered, repeated, exts, ample>>
      /\ gen < Len(listed) /\ gen' = gen + 1
  BY DEF Publish
<1>2. UNCHANGED <<cand, match, size, budget, listed>>
  BY <1>1 DEF query
<1>3. gen' \in DOMAIN listed /\ gen' > gen /\ gen \in Nat /\ gen' \in Nat
  <2>1. listed \in Seq(SUBSET Segs \ {{}}) /\ gen \in DOMAIN listed
    BY PagingAssumption DEF IInv, TypeOK
  <2> QED
    BY <1>1, <2>1
<1>4. TypeOK'
  <2>1. at \in 0..gen'
    BY <1>3 DEF IInv, TypeOK
  <2> QED
    BY <1>1, <1>2, <1>3, <2>1 DEF IInv, TypeOK
<1>5. \A s \in Segs : Merged(s) => Merged(s)'
  BY <1>1, <1>2, SameScan DEF Merged
<1>6. Resting' /\ PageInv' /\ PartsInv'
  BY <1>1, <1>5, SameScan DEF IInv, Resting, PageInv, PartsInv
<1>7. BehindCursor' /\ OncePerSteadySegment' /\ AmplePagesLoseNothing'
  BY <1>1, <1>2 DEF IInv, BehindCursor, OncePerSteadySegment, AmplePagesLoseNothing
<1> QED
  BY <1>4, <1>6, <1>7 DEF IInv

LEMMA StepAsk ==
  ASSUME IInv, Ask
  PROVE  IInv'
<1>1. /\ UNCHANGED <<query, gen, pin, cursor, steady, delivered, repeated, exts, ample>>
      /\ fate = Idle /\ at' = gen
      /\ fate' \in Fates /\ faults' = faults + Cardinality(Faulty(fate'))
      /\ faults + Cardinality(Faulty(fate')) <= MaxFaults
      /\ todo' = {s \in listed[gen] : fate'[s] # "lost"}
      /\ page' = << >> /\ after' = [s \in Segs |-> NoPos]
  BY DEF Ask
<1>2. UNCHANGED <<cand, match, size, budget, listed>>
  BY <1>1 DEF query
<1>3. /\ fate' \in [Segs -> {"none", "searched", "failed", "lost", "skipped"}]
      /\ \A s \in Segs : fate'[s] = "none" <=> s \notin listed[gen]
  BY <1>1 DEF Fates
<1>4. listed[gen] \subseteq Segs /\ gen \in Nat
  <2>1. listed \in Seq(SUBSET Segs \ {{}}) /\ gen \in DOMAIN listed
    BY PagingAssumption DEF IInv, TypeOK
  <2> QED
    BY <2>1
<1>5. faults' \in 0..MaxFaults
  <2>1. IsFiniteSet(Segs)
    BY FS_Interval, PagingAssumption DEF Segs
  <2>2. Cardinality(Faulty(fate')) \in Nat
    <3>1. Faulty(fate') \subseteq Segs
      BY DEF Faulty
    <3> QED
      BY <2>1, <3>1, FS_Subset, FS_CardinalityType
  <2>3. faults \in Nat /\ MaxFaults \in Nat
    BY PagingAssumption DEF IInv, TypeOK
  <2> QED
    BY <1>1, <2>2, <2>3
<1>6. TypeOK'
  <2>1. at' \in 0..gen /\ pin \in 0..at'
    BY <1>1, <1>4 DEF IInv, TypeOK
  <2>2. /\ todo' \subseteq Segs /\ page' \in Seq(Hits)
        /\ after' \in [Segs -> Docs \cup {NoPos}]
    BY <1>1, <1>4
  <2> QED
    BY <1>1, <1>2, <1>3, <1>5, <2>1, <2>2 DEF IInv, TypeOK
<1>7. Resting' /\ PageInv'
  <2>1. fate' = Idle => \A s \in Segs : fate'[s] = "none"
    BY DEF Idle
  <2> QED
    BY <1>1, <1>3, <1>4, <2>1 DEF Resting, PageInv
<1>8. PartsInv'
  <2>1. \A s \in Segs : s \notin todo' => fate'[s] \in {"none", "lost"}
    BY <1>1, <1>3
  <2>2. \A s \in Segs : s \in todo' => fate'[s] \in {"searched", "failed", "skipped"}
    BY <1>1, <1>3
  <2>3. \A s \in Segs : s \notin todo' => Merged(s)'
    BY <1>1, <2>1 DEF Merged
  <2> QED
    BY <2>2, <2>3 DEF PartsInv
<1>9. BehindCursor' /\ OncePerSteadySegment' /\ AmplePagesLoseNothing'
  BY <1>1, <1>2 DEF IInv, BehindCursor, OncePerSteadySegment, AmplePagesLoseNothing
<1> QED
  BY <1>6, <1>7, <1>8, <1>9 DEF IInv

LEMMA StepMerge ==
  ASSUME IInv, NEW s \in Segs, MergePart(s)
  PROVE  IInv'
<1>0. TypeOK /\ size \in Nat /\ page \in Seq(Hits)
  BY Constants DEF IInv, TypeOK
<1>1. /\ UNCHANGED <<query, gen, at, pin, cursor, fate, faults, steady, delivered>>
      /\ UNCHANGED <<repeated, exts, ample>>
      /\ s \in todo /\ todo' = todo \ {s}
      /\ page' = Merge(page, PartHits(s))
      /\ after' = [after EXCEPT ![s] = IF fate[s] = "searched" THEN LastDocid(s) ELSE 0]
  BY DEF MergePart
<1>2. UNCHANGED <<cand, match, size, budget, listed>>
  BY <1>1 DEF query
<1>3. /\ PartHits(s) \in Seq(Hits)
      /\ \A k \in 1..Len(PartHits(s)) :
           /\ fate[s] = "searched" /\ PartHits(s)[k].seg = s /\ PartHits(s)[k].doc \in HitsOf(s)
      /\ fate[s] = "searched" =>
           \A d \in HitsOf(s) : \E k \in 1..Len(PartHits(s)) : PartHits(s)[k] = HitAt(s, d)
  BY <1>0, PartFacts
<1>4. Taken(page', page, PartHits(s), Len(PartHits(s)))
  BY <1>0, <1>1, <1>3, MergeFacts
<1>5. /\ page' \in Seq(Hits) /\ Len(page) \in Nat /\ Len(page') \in Nat /\ Len(page) <= Len(page')
      /\ \A i \in 1..Len(page) : i \in 1..Len(page') /\ page'[i] = page[i]
      /\ \A i \in 1..Len(page') :
           i \in 1..Len(page) \/ \E k \in 1..Len(PartHits(s)) : page'[i] = PartHits(s)[k]
      /\ DOMAIN page = 1..Len(page) /\ DOMAIN page' = 1..Len(page')
  BY <1>0, <1>4 DEF Taken
<1>6. /\ HitsOf(s) \subseteq Docs /\ LastDocid(s) \in Docs
      /\ Scanned(s) \subseteq Docs /\ 0 \in Docs
  BY <1>0, ScanFacts, Constants
<1>7. fate # Idle /\ fate[s] \in {"searched", "failed", "skipped"}
  <2>1. fate # Idle => fate[s] \in {"searched", "failed", "skipped"}
    BY <1>1 DEF IInv, PartsInv
  <2>2. fate = Idle => todo = {}
    BY DEF IInv, Resting
  <2> QED
    BY <1>1, <2>1, <2>2
<1>8. TypeOK'
  <2>1. after' \in [Segs -> Docs \cup {NoPos}]
    BY <1>0, <1>1, <1>6 DEF TypeOK
  <2>2. todo' \subseteq Segs
    BY <1>0, <1>1 DEF TypeOK
  <2> QED
    BY <1>0, <1>1, <1>2, <1>5, <2>1, <2>2 DEF TypeOK
<1>9. Resting'
  BY <1>1, <1>7 DEF Resting
<1>10. PageInv'
  <2> SUFFICES ASSUME NEW i \in 1..Len(page')
               PROVE  /\ page'[i].seg \in Segs \ todo' /\ fate[page'[i].seg] = "searched"
                      /\ page'[i].doc \in HitsOf(page'[i].seg)
    BY <1>1, SameScan DEF PageInv
  <2>1. CASE i \in 1..Len(page)
    <3>1. /\ page[i].seg \in Segs \ todo /\ fate[page[i].seg] = "searched"
          /\ page[i].doc \in HitsOf(page[i].seg)
      BY <1>7, <2>1 DEF IInv, PageInv
    <3> QED
      BY <1>1, <1>5, <2>1, <3>1
  <2>2. CASE i \notin 1..Len(page)
    <3>1. PICK k \in 1..Len(PartHits(s)) : page'[i] = PartHits(s)[k]
      BY <1>5, <2>2
    <3> QED
      BY <1>1, <1>3, <3>1
  <2> QED
    BY <2>1, <2>2
<1>11. PartsInv'
  \* The part just merged.
  <2>1. Merged(s)'
    <3>1. after'[s] = (IF fate[s] = "searched" THEN LastDocid(s) ELSE 0)
      BY <1>0, <1>1 DEF TypeOK
    <3>2. fate[s] = "searched" =>
            \A d \in HitsOf(s) : Len(page') >= size \/ Seen(page', HitAt(s, d))
      <4> SUFFICES ASSUME fate[s] = "searched", NEW d \in HitsOf(s)
                   PROVE  Len(page') >= size \/ Seen(page', HitAt(s, d))
        OBVIOUS
      <4>1. PICK k \in 1..Len(PartHits(s)) : PartHits(s)[k] = HitAt(s, d)
        BY <1>3
      <4> QED
        BY <1>4, <4>1 DEF Taken
    <3> QED
      BY <1>1, <1>2, <1>7, <3>1, <3>2, SameScan DEF Merged
  \* Those merged before: what they had on the page is still there.
  <2>2. ASSUME NEW t \in Segs, t # s, Merged(t) PROVE Merged(t)'
    <3>1. after'[t] = after[t] /\ fate' = fate
      BY <1>0, <1>1, <2>2 DEF TypeOK
    <3>2. \A h : Seen(page, h) => Seen(page', h)
      BY <1>5 DEF Seen
    <3>3. Len(page) >= size => Len(page') >= size
      BY <1>0, <1>5
    <3> QED
      BY <1>1, <1>2, <2>2, <3>1, <3>2, <3>3, SameScan DEF Merged
  <2> QED
    BY <1>1, <1>7, <2>1, <2>2 DEF IInv, PartsInv
<1>12. BehindCursor' /\ OncePerSteadySegment' /\ AmplePagesLoseNothing'
  BY <1>1, <1>2 DEF IInv, BehindCursor, OncePerSteadySegment, AmplePagesLoseNothing
<1> QED
  BY <1>8, <1>9, <1>10, <1>11, <1>12 DEF IInv

\* The hot part: nothing of a segment comes with it.
LEMMA HotFacts ==
  ASSUME TypeOK, NEW hot \in HotWindows
  PROVE  LET hs == SubSeq(hot, 1, Min({size, Len(hot)}))
         IN  hs \in Seq(Hits) /\ \A k \in 1..Len(hs) : hs[k].seg = Hot
<1> DEFINE HotHits == [seg : {Hot}, doc : Docs, ext : Exts]
           m == Min({size, Len(hot)})
<1>1. hot \in Seq(HotHits)
  BY PagingAssumption
<1>2. m \in Nat /\ m <= Len(hot)
  <2>1. size \in Nat /\ Len(hot) \in Nat
    BY <1>1, Constants
  <2>2. \E x \in {size, Len(hot)} : \A y \in {size, Len(hot)} : x <= y
    BY <2>1
  <2>3. m \in {size, Len(hot)} /\ m <= Len(hot)
    BY <2>2 DEF Min
  <2> QED
    BY <2>1, <2>3
<1>4. HotHits \subseteq Hits /\ \A h \in HotHits : h.seg = Hot
  BY DEF Hits
<1> HIDE DEF m, HotHits
<1>3. /\ SubSeq(hot, 1, m) \in Seq(HotHits)
      /\ \A k \in 1..Len(SubSeq(hot, 1, m)) : SubSeq(hot, 1, m)[k] \in HotHits
  <2>1. /\ Len(SubSeq(hot, 1, m)) = m
        /\ \A k \in 1..m : SubSeq(hot, 1, m)[k] = hot[k] /\ k \in 1..Len(hot)
    BY <1>1, <1>2
  <2>2. SubSeq(hot, 1, m) = [k \in 1..m |-> hot[k]]
    BY <1>1, <1>2
  <2> QED
    BY <1>1, <1>2, <2>1, <2>2
<1>5. SubSeq(hot, 1, m) \in Seq(Hits)
  BY <1>3, <1>4
<1> QED
  BY <1>3, <1>4, <1>5 DEF m

LEMMA StepRespond ==
  ASSUME IInv, Respond
  PROVE  IInv'
<1>0. TypeOK /\ size \in Nat /\ page \in Seq(Hits) /\ Hot \notin Segs /\ steady \subseteq Segs
  BY Constants DEF IInv, TypeOK
<1> DEFINE shown == {<<page'[i].seg, page'[i].doc>> : i \in DOMAIN page'}
<1>1. /\ UNCHANGED <<query, gen, at, todo, after, faults>>
      /\ fate # Idle /\ todo = {}
      /\ repeated' = repeated \cup (delivered \cap shown)
      /\ delivered' = delivered \cup shown
      /\ cursor' = after /\ pin' = at
      /\ exts' = exts \cup {page'[i].ext : i \in DOMAIN page'}
      /\ steady' = {s \in steady : fate[s] = "searched"}
      /\ ample' = {s \in ample :
                     \/ fate[s] \in {"none", "lost"}
                     \/ /\ fate[s] = "searched" /\ Len(page') < size
                        /\ Scanned(s) = Verified(s)}
      /\ fate' = Idle
  BY DEF Respond
<1>2. PICK hot \in HotWindows : page' = Merge(page, SubSeq(hot, 1, Min({size, Len(hot)})))
  BY DEF Respond
<1>3. UNCHANGED <<cand, match, size, budget, listed>>
  BY <1>1 DEF query
<1> DEFINE hs == SubSeq(hot, 1, Min({size, Len(hot)}))
<1>4. hs \in Seq(Hits) /\ \A k \in 1..Len(hs) : hs[k].seg = Hot
  BY <1>0, HotFacts
<1> HIDE DEF hs
<1>5. Taken(page', page, hs, Len(hs))
  BY <1>0, <1>2, <1>4, MergeFacts DEF hs
<1>6. /\ page' \in Seq(Hits) /\ Len(page) \in Nat /\ Len(page') \in Nat
      /\ \A i \in 1..Len(page) : i \in 1..Len(page') /\ page'[i] = page[i]
      /\ \A i \in 1..Len(page') :
           i \in 1..Len(page) \/ \E k \in 1..Len(hs) : page'[i] = hs[k]
      /\ DOMAIN page = 1..Len(page) /\ DOMAIN page' = 1..Len(page')
  BY <1>0, <1>5 DEF Taken
\* What is shown of a segment was found by the scan of this page.
<1>7. \A x \in shown : x[1] \in Segs => fate[x[1]] = "searched" /\ x[2] \in HitsOf(x[1])
  <2> SUFFICES ASSUME NEW i \in 1..Len(page'), page'[i].seg \in Segs
               PROVE  fate[page'[i].seg] = "searched" /\ page'[i].doc \in HitsOf(page'[i].seg)
    BY <1>6
  <2>1. i \in 1..Len(page)
    BY <1>0, <1>4, <1>6
  <2> QED
    BY <1>1, <1>6, <2>1 DEF IInv, PageInv
\* An ext_id on the page is among those answered.
<1>8. \A h : Seen(page, h) => h.ext \in exts'
  BY <1>1, <1>6 DEF Seen
<1>9. shown \subseteq Places
  <2> SUFFICES ASSUME NEW i \in 1..Len(page')
               PROVE  <<page'[i].seg, page'[i].doc>> \in Places
    BY <1>6
  <2>1. page'[i] \in Hits
    BY <1>6
  <2>2. page'[i].seg \in Segs \cup {Hot} /\ page'[i].doc \in Docs
    BY <2>1 DEF Hits
  <2> QED
    BY <2>2 DEF Places
<1> HIDE DEF shown
<1>10. \A s \in Segs : Merged(s)
  BY <1>1 DEF IInv, PartsInv
<1>11. TypeOK'
  <2>1. cursor' \in [Segs -> Docs \cup {NoPos}] /\ after' \in [Segs -> Docs \cup {NoPos}]
    BY <1>0, <1>1 DEF TypeOK
  <2>2. fate' \in [Segs -> {"none", "searched", "failed", "lost", "skipped"}]
    BY <1>1 DEF Idle
  <2>3. at' \in 0..gen' /\ pin' \in 0..at'
    BY <1>0, <1>1, PagingAssumption DEF TypeOK
  <2>4. delivered' \subseteq Places /\ repeated' \subseteq delivered' /\ steady' \subseteq Segs
    BY <1>0, <1>1, <1>9 DEF TypeOK
  <2>5. exts' \subseteq Exts /\ ample' \subseteq Segs
    <3>1. \A i \in DOMAIN page' : page'[i].ext \in Exts
      <4>1. \A h \in Hits : h.ext \in Exts
        BY DEF Hits
      <4> QED
        BY <1>6, <4>1
    <3> QED
      BY <1>0, <1>1, <3>1 DEF TypeOK
  <2> QED
    BY <1>0, <1>1, <1>3, <1>6, <2>1, <2>2, <2>3, <2>4, <2>5 DEF TypeOK
<1>12. Resting' /\ PageInv' /\ PartsInv'
  BY <1>1 DEF Resting, PageInv, PartsInv
<1>13. BehindCursor'
  <2> SUFFICES ASSUME NEW x \in delivered \cup shown, x[1] \in steady, fate[x[1]] = "searched"
               PROVE  x[2] <= after[x[1]]
    BY <1>1 DEF BehindCursor
  <2> DEFINE s == x[1]
  <2>1. s \in Segs /\ after[s] = LastDocid(s) /\ x[2] \in Docs /\ x \in Places
    BY <1>0, <1>9, <1>10 DEF Merged, TypeOK, Places
  <2>2. /\ cursor[s] <= LastDocid(s) /\ LastDocid(s) \in Docs
        /\ cursor[s] \in Docs \cup {NoPos}
        /\ \A d \in HitsOf(s) : d <= LastDocid(s)
    BY <1>0, <2>1, ScanFacts
  <2>3. CASE x \in delivered
    <3>1. x[2] <= cursor[s]
      BY <2>3 DEF IInv, BehindCursor
    <3>2. x[2] \in Int /\ cursor[s] \in Int /\ LastDocid(s) \in Int
      BY <1>0, <2>1, <2>2, Constants DEF NoPos
    <3> QED
      BY <2>1, <2>2, <3>1, <3>2
  <2>4. CASE x \in shown
    BY <1>7, <2>1, <2>2, <2>4
  <2> QED
    BY <2>3, <2>4
<1>14. OncePerSteadySegment'
  <2> SUFFICES ASSUME NEW x \in repeated \cup (delivered \cap shown),
                      x[1] \in steady, fate[x[1]] = "searched"
               PROVE  FALSE
    BY <1>1 DEF OncePerSteadySegment
  <2>1. x \in delivered /\ x \in shown
    BY DEF IInv, OncePerSteadySegment
  <2>2. x[1] \in Segs /\ x[2] \in HitsOf(x[1]) /\ x[2] <= cursor[x[1]]
    BY <1>0, <1>7, <2>1 DEF IInv, BehindCursor
  <2>3. x[2] \in Nat /\ cursor[x[1]] < x[2] /\ cursor[x[1]] \in Int
    <3>1. /\ x[2] \in Docs /\ cursor[x[1]] < x[2] /\ cursor[x[1]] \in Docs \cup {NoPos}
      BY <1>0, <2>2, ScanFacts
    <3> QED
      BY <1>0, <3>1, Constants DEF NoPos
  <2> QED
    BY <2>2, <2>3
<1>15. AmplePagesLoseNothing'
  <2> SUFFICES ASSUME NEW s \in ample', NEW d \in match[s], d <= after[s]
               PROVE  Ext[<<s, d>>] \in exts'
    <3>1. cursor' = after /\ match' = match
      BY <1>1, <1>3
    <3> QED
      BY <3>1 DEF AmplePagesLoseNothing
  <2>1. s \in ample /\ s \in Segs /\ d \in Docs /\ d \in Nat /\ Merged(s) /\ exts \subseteq exts'
    BY <1>0, <1>1, <1>10, Constants DEF TypeOK
  <2>2. CASE fate[s] = "searched"
    <3>1. Len(page') < size /\ Scanned(s) = Verified(s)
      BY <1>1, <2>2
    <3>2. d <= LastDocid(s)
      BY <2>1, <2>2 DEF Merged
    <3>3. d <= cursor[s] \/ d \in HitsOf(s)
      BY <1>0, <2>1, <3>1, <3>2, ScanFacts
    <3>4. CASE d <= cursor[s]
      BY <2>1, <3>4 DEF IInv, AmplePagesLoseNothing
    <3>5. CASE d \in HitsOf(s)
      <4>1. Len(page) >= size \/ Seen(page, HitAt(s, d))
        BY <2>1, <2>2, <3>5 DEF Merged
      <4>2. ~ (Len(page) >= size)
        <5>1. Len(page) <= Len(page')
          BY <1>5 DEF Taken
        <5> QED
          BY <1>0, <1>6, <3>1, <5>1
      <4>3. HitAt(s, d).ext = Ext[<<s, d>>]
        BY DEF HitAt
      <4> QED
        BY <1>8, <4>1, <4>2, <4>3
    <3> QED
      BY <3>3, <3>4, <3>5
  \* Of a segment that was not asked, or whose task panicked, nothing is passed.
  <2>3. CASE fate[s] \in {"none", "lost"}
    <3>1. after[s] = NoPos
      BY <2>1, <2>3 DEF Merged
    <3> QED
      BY <2>1, <3>1 DEF NoPos
  <2>4. fate[s] \in {"none", "lost", "searched"}
    BY <1>1
  <2> QED
    BY <2>2, <2>3, <2>4
<1> QED
  BY <1>11, <1>12, <1>13, <1>14, <1>15 DEF IInv

LEMMA StepKeeps == IInv /\ [Next]_vars => IInv'
<1> SUFFICES ASSUME IInv, [Next]_vars PROVE IInv'
  OBVIOUS
<1>1. CASE Next
  BY <1>1, StepPublish, StepAsk, StepMerge, StepRespond DEF Next
<1>2. CASE UNCHANGED vars
  <2>1. /\ UNCHANGED <<query, gen, at, pin, cursor, fate, todo, page, after>>
        /\ UNCHANGED <<faults, steady, delivered, repeated, exts, ample>>
        /\ UNCHANGED <<cand, match, size, budget, listed>>
    BY <1>2 DEF vars, query
  <2>2. TypeOK' /\ Resting'
    BY <2>1 DEF IInv, TypeOK, Resting
  <2>3. PageInv' /\ PartsInv'
    BY <2>1, SameScan DEF IInv, PageInv, PartsInv, Merged
  <2>4. BehindCursor' /\ OncePerSteadySegment' /\ AmplePagesLoseNothing'
    BY <2>1 DEF IInv, BehindCursor, OncePerSteadySegment, AmplePagesLoseNothing
  <2> QED
    BY <2>2, <2>3, <2>4 DEF IInv
<1> QED
  BY <1>1, <1>2

LEMMA Holds == Spec => []IInv
<1>1. Spec => Init /\ [][Next]_vars
  BY PTL DEF Spec
<1> QED
  BY <1>1, InitHolds, StepKeeps, PTL
-----------------------------------------------------------------------------
(* Progress *)

IsHitSum(g, f) ==
  g = [k \in 0..N |->
         IF k = 0 THEN 0
         ELSE g[k - 1] + (IF f[k] = "searched" THEN Cardinality(HitsOf(k)) ELSE 0)]

\* The recursive function in HitsBefore exists.
LEMMA HitSumExists ==
  ASSUME TypeOK, NEW f
  PROVE  \E g : IsHitSum(g, f)
<1> DEFINE w(k) == IF f[k] = "searched" THEN Cardinality(HitsOf(k)) ELSE 0
           step == [k \in 1..N |-> [x \in Nat |-> x + w(k)]]
<1>0. N \in Nat
  BY PagingAssumption
<1>1. \A k \in 1..N : w(k) \in Nat
  <2> TAKE k \in 1..N
  <2>1. HitsOf(k) \in SUBSET Docs
    BY ScanFacts DEF Segs
  <2>2. Cardinality(HitsOf(k)) \in Nat
    BY <2>1, DocSets, FS_CardinalityType
  <2> QED
    BY <2>2
<1> HIDE DEF w
<1>2. step \in [1..N -> [Nat -> Nat]]
  BY <1>1
<1>3. \A k \in 1..N : \A x \in Nat : step[k][x] = x + w(k)
  OBVIOUS
<1> HIDE DEF step
<1>4. PICK g \in [0..N -> Nat] : Goes(g, 0, step, N)
  BY <1>0, <1>2, Iterates
<1>5. g[0] = 0 /\ \A k \in 1..N : g[k] = step[k][g[k - 1]]
  BY <1>4 DEF Goes
<1>6. \A k \in 0..N : g[k] = IF k = 0 THEN 0 ELSE g[k - 1] + w(k)
  <2> TAKE k \in 0..N
  <2>1. CASE k # 0
    <3>1. k \in 1..N /\ k - 1 \in 0..N
      BY <1>0, <2>1
    <3>2. g[k - 1] \in Nat
      BY <1>4, <3>1
    <3> QED
      BY <1>3, <1>5, <2>1, <3>1, <3>2
  <2> QED
    BY <1>5, <2>1
<1>7. g = [k \in 0..N |-> IF k = 0 THEN 0 ELSE g[k - 1] + w(k)]
  BY <1>4, <1>6
<1> QED
  BY <1>7 DEF IsHitSum, w

\* Without a hit before s no page is full when s is launched.
LEMMA NoHitsBefore ==
  ASSUME TypeOK, NEW f, NEW s \in Segs,
         \A t \in Segs : t < s /\ f[t] = "searched" => HitsOf(t) = {}
  PROVE  HitsBefore(f, s) = 0
<1> DEFINE g == CHOOSE h : IsHitSum(h, f)
           S == {k \in 0..(s - 1) : g[k] = 0}
<1>0. N \in Nat /\ s \in 1..N /\ s - 1 \in Nat
  BY PagingAssumption DEF Segs
<1>1. IsHitSum(g, f)
  BY HitSumExists
<1>2. HitsBefore(f, s) = g[s - 1]
  BY DEF HitsBefore, IsHitSum
<1> HIDE DEF g
<1>3. \A k \in 0..N :
        g[k] = IF k = 0 THEN 0
               ELSE g[k - 1] + (IF f[k] = "searched" THEN Cardinality(HitsOf(k)) ELSE 0)
  BY <1>1 DEF IsHitSum
<1>4. 0 \in S
  BY <1>0, <1>3
<1>5. ASSUME NEW k \in 0..((s - 1) - 1), k \in S PROVE k + 1 \in S
  <2>1. /\ k + 1 \in 0..N /\ k + 1 # 0 /\ (k + 1) - 1 = k /\ k + 1 \in Segs
        /\ k + 1 < s /\ k + 1 \in 0..(s - 1) /\ g[k] = 0
    BY <1>0, <1>5 DEF Segs
  <2>2. f[k + 1] = "searched" => Cardinality(HitsOf(k + 1)) = 0
    BY <2>1, FS_EmptySet
  <2>3. g[k + 1] = g[k] + (IF f[k + 1] = "searched" THEN Cardinality(HitsOf(k + 1)) ELSE 0)
    BY <1>3, <2>1
  <2>4. g[k + 1] = 0
    BY <2>1, <2>2, <2>3
  <2> QED
    BY <2>1, <2>4
<1>6. 0..(s - 1) \subseteq S
  <2> HIDE DEF S
  <2> QED
    BY <1>0, <1>4, <1>5, InductionUpTo
<1> QED
  BY <1>0, <1>2, <1>6

\* The page under way asks the segments of its generation, and skips one only if
\* a segment before it has hits.
FatesInv ==
  fate # Idle =>
    /\ at \in DOMAIN listed
    /\ \A s \in Segs :
         /\ fate[s] = "none" <=> s \notin listed[at]
         /\ fate[s] = "skipped" /\ size > 0 =>
              \E t \in Segs : t < s /\ fate[t] = "searched" /\ HitsOf(t) # {}

LEMMA FatesHold == Spec => []FatesInv
<1>1. Init => FatesInv
  BY DEF Init, FatesInv
<1>2. IInv /\ FatesInv /\ [Next]_vars => FatesInv'
  <2> SUFFICES ASSUME IInv, FatesInv, [Next]_vars PROVE FatesInv'
    OBVIOUS
  <2>1. TypeOK
    BY DEF IInv
  <2>2. CASE UNCHANGED <<query, cursor, fate, at>>
    <3>1. UNCHANGED <<size, listed, fate, at>> /\ \A t \in Segs : HitsOf(t)' = HitsOf(t)
      BY <2>2, SameScan DEF query
    <3> QED
      BY <3>1 DEF FatesInv
  <2>3. CASE Ask
    <3>1. /\ UNCHANGED <<query, cursor>> /\ at' = gen /\ fate' \in Fates
      BY <2>3 DEF Ask
    <3>2. UNCHANGED <<size, listed>> /\ \A t \in Segs : HitsOf(t)' = HitsOf(t)
      BY <3>1, SameScan DEF query
    <3>3. size \in Nat /\ gen \in DOMAIN listed
      BY <2>1, Constants DEF TypeOK
    <3> SUFFICES ASSUME NEW s \in Segs
                 PROVE  /\ fate'[s] = "none" <=> s \notin listed[gen]
                        /\ fate'[s] = "skipped" /\ size > 0 =>
                             \E t \in Segs : t < s /\ fate'[t] = "searched" /\ HitsOf(t) # {}
      BY <3>1, <3>2, <3>3 DEF FatesInv
    <3>4. /\ fate'[s] = "none" <=> s \notin listed[gen]
          /\ fate'[s] = "skipped" => size <= HitsBefore(fate', s)
      BY <3>1 DEF Fates
    <3>5. fate'[s] = "skipped" /\ size > 0 => HitsBefore(fate', s) # 0
      BY <3>3, <3>4
    <3> QED
      BY <2>1, <3>4, <3>5, NoHitsBefore
  <2>4. CASE Respond
    BY <2>4 DEF Respond, FatesInv
  <2>5. CASE Publish
    BY <2>2, <2>5 DEF Publish
  <2>6. ASSUME NEW s \in Segs, MergePart(s) PROVE FatesInv'
    BY <2>2, <2>6 DEF MergePart
  <2>7. CASE UNCHANGED vars
    BY <2>2, <2>7 DEF vars
  <2> QED
    BY <2>3, <2>4, <2>5, <2>6, <2>7 DEF Next
<1> QED
  BY <1>1, <1>2, Holds, PTL DEF Spec

\* The cursor goes from c to LastDocid(s): less is left, if anything was.
LEMMA ScanGoesOn ==
  ASSUME TypeOK, TypeOK', NEW s \in Segs, UNCHANGED query, cursor'[s] = LastDocid(s)
  PROVE  /\ Left(s)' \subseteq Left(s)
         /\ Left(s) # {} => Left(s)' # Left(s)
<1>1. /\ cand' = cand /\ cand[s] \in SUBSET Docs /\ cursor[s] \in Docs \cup {NoPos}
      /\ LastDocid(s) \in Docs /\ cursor[s] <= LastDocid(s)
      /\ Left(s) \in SUBSET Docs /\ Scanned(s) \subseteq Left(s)
      /\ \A d \in Scanned(s) : d <= LastDocid(s)
  BY ScanFacts DEF TypeOK, query
<1>2. \A d \in Docs \cup {NoPos} : d \in Int
  BY Constants DEF NoPos
<1>3. Left(s)' = {d \in cand[s] : d > LastDocid(s)}
  BY <1>1 DEF Left
<1>4. Left(s)' \subseteq Left(s)
  <2> SUFFICES ASSUME NEW d \in cand[s], d > LastDocid(s) PROVE d > cursor[s]
    BY <1>3 DEF Left
  <2> QED
    BY <1>1, <1>2
<1>5. ASSUME Left(s) # {} PROVE Left(s)' # Left(s)
  <2>1. PICK d \in Scanned(s) : TRUE
    BY <1>5, ScanFacts
  <2>2. d \in Left(s) /\ d <= LastDocid(s) /\ d \in Int /\ LastDocid(s) \in Int
    BY <1>1, <1>2
  <2>3. d \notin Left(s)'
    BY <1>3, <2>2
  <2> QED
    BY <2>2, <2>3
<1> QED
  BY <1>4, <1>5
-----------------------------------------------------------------------------
(* What following the cursor gives *)

\* Cursors, pages and what was delivered stay what their types say; among them
\* that the cursor names documents and the pin is not newer than the manifest.
THEOREM TypeCorrect == Spec => []TypeOK
BY Holds, PTL DEF IInv

\* However the parts come in, whatever the limits cut off and whatever else
\* fails, no document of a segment searched on every page is shown twice.
THEOREM NoneIsShownTwice == Spec => []OncePerSteadySegment
BY Holds, PTL DEF IInv

\* A client whose pages were never full, and whose scans of a segment kept within
\* their budget, has been shown every match of it that the cursor has passed, or a
\* document of the same ext_id.
THEOREM ShortPagesLoseNothing == Spec => []AmplePagesLoseNothing
BY Holds, PTL DEF IInv

\* A page on which nothing failed leaves less of the first segment that had
\* anything left, and still nothing of those before it: no segment up to it can
\* have been skipped, as there was no hit before it, and no scan stands still.
THEOREM PagesMoveOn == Spec => NoPageWasted
<1> DEFINE Moves ==
      (/\ fate # Idle /\ fate' = Idle /\ size > 0
       /\ \A s \in listed[at] : fate[s] \in {"searched", "skipped"})
      => \A s \in listed[at] :
           (Left(s) # {} /\ \A t \in listed[at] : t < s => Left(t) = {})
           => /\ Left(s)' \subseteq Left(s) /\ Left(s)' # Left(s)
              /\ \A t \in listed[at] : t < s => Left(t)' = {}
<1>1. IInv /\ IInv' /\ FatesInv /\ [Next]_vars => [Moves]_vars
  <2> SUFFICES ASSUME IInv, IInv', FatesInv, Next,
                      fate # Idle, fate' = Idle, size > 0,
                      \A s \in listed[at] : fate[s] \in {"searched", "skipped"},
                      NEW s \in listed[at], Left(s) # {},
                      \A t \in listed[at] : t < s => Left(t) = {}
               PROVE  /\ Left(s)' \subseteq Left(s) /\ Left(s)' # Left(s)
                      /\ \A t \in listed[at] : t < s => Left(t)' = {}
    BY DEF Moves
  <2>1. TypeOK /\ TypeOK' /\ PartsInv
    BY DEF IInv
  <2>2. Respond
    BY DEF Next, Publish, Ask, MergePart
  <2>3. UNCHANGED query /\ cursor' = after /\ todo = {}
    BY <2>2 DEF Respond
  <2>4. \A t \in Segs : t \in listed[at] <=> fate[t] # "none"
    BY DEF FatesInv
  <2>5. listed[at] \subseteq Segs
    <3>1. listed \in Seq(SUBSET Segs \ {{}}) /\ at \in DOMAIN listed
      BY <2>1, PagingAssumption DEF TypeOK, FatesInv
    <3> QED
      BY <3>1
  \* No segment up to s was skipped.
  <2>6. \A t \in listed[at] : t < s \/ t = s => fate[t] = "searched"
    <3> SUFFICES ASSUME NEW t \in listed[at], t < s \/ t = s, fate[t] = "skipped" PROVE FALSE
      OBVIOUS
    <3>1. PICK u \in Segs : u < t /\ fate[u] = "searched" /\ HitsOf(u) # {}
      BY <2>5 DEF FatesInv
    <3>2. u \in listed[at] /\ u < s
      <4>1. u \in Int /\ t \in Int /\ s \in Int
        BY <2>5 DEF Segs
      <4> QED
        BY <2>4, <3>1, <4>1
    <3>3. Left(u) = {} /\ HitsOf(u) \subseteq Left(u)
      BY <2>1, <3>2, ScanFacts
    <3> QED
      BY <3>1, <3>3
  <2>7. \A t \in listed[at] : t < s \/ t = s =>
          Left(t)' \subseteq Left(t) /\ (Left(t) # {} => Left(t)' # Left(t))
    <3> SUFFICES ASSUME NEW t \in listed[at], t < s \/ t = s
                 PROVE  Left(t)' \subseteq Left(t) /\ (Left(t) # {} => Left(t)' # Left(t))
      OBVIOUS
    <3>1. t \in Segs /\ fate[t] = "searched"
      BY <2>5, <2>6
    <3>2. Merged(t)
      BY <2>1, <2>3, <3>1 DEF PartsInv
    <3>3. cursor'[t] = LastDocid(t)
      BY <2>3, <3>1, <3>2 DEF Merged
    <3> QED
      BY <2>1, <2>3, <3>1, <3>3, ScanGoesOn
  <2> QED
    BY <2>7
<1>2. Spec => [][Next]_vars
  BY PTL DEF Spec
<1>3. Spec => [][Moves]_vars
  BY <1>1, <1>2, Holds, FatesHold, PTL
<1> QED
  BY <1>3 DEF NoPageWasted, Moves
=============================================================================
