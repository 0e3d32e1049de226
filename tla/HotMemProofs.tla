--------------------------- MODULE HotMemProofs -----------------------------
(***************************************************************************)
(* Proofs about HotMem for every set of calls, every set of keys, every    *)
(* batch size and every capacity.                                          *)
(***************************************************************************)
EXTENDS HotMem, NaturalSets, SequenceTheorems

\* What an eviction leaves of a sequence: its newest Cap elements.
LEMMA KeepNewestFacts ==
  ASSUME NEW S, NEW w \in Seq(S)
  PROVE  /\ KeepNewest(w) \in Seq(S)
         /\ Len(KeepNewest(w)) = Smaller(Len(w), Cap)
         /\ \A i \in 1..Len(KeepNewest(w)) :
              KeepNewest(w)[i] = w[Len(w) - Len(KeepNewest(w)) + i]
<1> USE HotMemAssumption
<1>1. CASE Len(w) <= Cap
  BY <1>1 DEF KeepNewest, Smaller
<1>2. CASE ~(Len(w) <= Cap)
  <2> DEFINE m == Len(w) - Cap + 1
  <2>1. KeepNewest(w) = SubSeq(w, m, Len(w))
    BY <1>2 DEF KeepNewest
  <2>2. m \in 1..Len(w)
    BY <1>2
  <2>3. /\ SubSeq(w, m, Len(w)) \in Seq(S)
        /\ Len(SubSeq(w, m, Len(w))) = Cap
        /\ \A i \in 1..Cap : SubSeq(w, m, Len(w))[i] = w[m + i - 1]
    BY <2>2
  <2>4. Smaller(Len(w), Cap) = Cap
    BY <1>2 DEF Smaller
  <2>5. \A i \in 1..Cap : m + i - 1 = Len(w) - Cap + i
    OBVIOUS
  <2> QED
    BY <2>1, <2>3, <2>4, <2>5
<1> QED
  BY <1>1, <1>2

\* A batch is a sequence of documents, numbered from where the last one ended.
LEMMA BatchFacts ==
  ASSUME TypeOK, NEW r \in Requests
  PROVE  /\ Batch(r) \in Seq(Doc)
         /\ Len(Batch(r)) = size[r]
         /\ \A i \in 1..size[r] :
              /\ Batch(r)[i].doc_id = Smaller(Len(window) + i - 1, Cap)
              /\ Batch(r)[i].seq = pushed + i
<1> USE HotMemAssumption
<1>1. size[r] \in Nat /\ pushed \in Nat /\ Len(window) \in Nat
  BY DEF TypeOK
<1>2. ASSUME NEW i \in 1..size[r]
      PROVE  [req |-> r, doc_id |-> Smaller(Len(window) + i - 1, Cap),
              seq |-> pushed + i] \in Doc
  BY <1>1 DEF Doc, Smaller
<1> QED
  BY <1>1, <1>2 DEF Batch
-----------------------------------------------------------------------------
\* A step keeps the types.
LEMMA TypeStep == TypeOK /\ [Next]_vars => TypeOK'
<1> USE HotMemAssumption
<1> SUFFICES ASSUME TypeOK, [Next]_vars PROVE TypeOK'
  OBVIOUS
<1>1. ASSUME NEW r \in Requests, NEW k \in Keys \cup {NoKey},
             NEW n \in 0..MaxBatch, MarkKey(r, k, n)
      PROVE  TypeOK'
  BY <1>1 DEF MarkKey, Call, TypeOK
<1>2. ASSUME NEW r \in Requests, NEW k \in Keys, NEW n \in 0..MaxBatch,
             Replay(r, k, n)
      PROVE  TypeOK'
  BY <1>2 DEF Replay, Call, Return, TypeOK
<1>3. ASSUME NEW r \in Requests, Admit(r) PROVE TypeOK'
  BY <1>3 DEF Admit, TypeOK
<1>4. ASSUME NEW r \in Requests, Refuse(r) PROVE TypeOK'
  BY <1>4 DEF Refuse, Return, TypeOK
<1>5. ASSUME NEW r \in Requests, Push(r) PROVE TypeOK'
  <2>1. window \o Batch(r) \in Seq(Doc)
    BY BatchFacts DEF TypeOK
  <2>2. window' \in Seq(Doc)
    BY <1>5, <2>1, KeepNewestFacts DEF Push
  <2>3. pushed' \in Nat
    BY <1>5 DEF Push, TypeOK
  <2> QED
    BY <1>5, <2>2, <2>3 DEF Push, Return, TypeOK
<1>6. CASE UNCHANGED vars
  BY <1>6 DEF vars, TypeOK
<1> QED
  BY <1>1, <1>2, <1>3, <1>4, <1>5, <1>6 DEF Next, Apply

\* The window holds only well-formed documents, the replies only the answers
\* of apply, whatever calls run (hot.rs:60-95).
THEOREM TypeCorrect == Spec => []TypeOK
<1>1. Init => TypeOK
  BY HotMemAssumption DEF Init, TypeOK
<1> QED
  BY <1>1, TypeStep, PTL DEF Spec

\* What one step of a call changes: itself, and the keys only when it begins.
LEMMA ApplyOwn ==
  ASSUME TypeOK, NEW r \in Requests, Apply(r)
  PROVE  /\ \A q \in Requests : q # r =>
              pc'[q] = pc[q] /\ reply'[q] = reply[q] /\ key'[q] = key[q]
         /\ pc[r] # "done" /\ pc'[r] # "idle"
         /\ reply'[r] # reply[r] => pc'[r] = "done"
         /\ pc[r] # "idle" =>
              key'[r] = key[r] /\ seen' = seen /\ (reply'[r] = "idempotent" => reply[r] = "idempotent")
         /\ pc[r] = "idle" =>
              \/ key'[r] \in seen /\ seen' = seen /\ reply'[r] = "idempotent"
              \/ key'[r] \notin seen /\ seen' = (seen \cup {key'[r]}) \ {NoKey} /\ reply' = reply
<1>1. ASSUME NEW k \in Keys \cup {NoKey}, NEW n \in 0..MaxBatch, MarkKey(r, k, n)
      PROVE  /\ key' = [key EXCEPT ![r] = k] /\ pc' = [pc EXCEPT ![r] = "marked"] /\ reply' = reply
             /\ pc[r] = "idle" /\ k \notin seen /\ seen' = (seen \cup {k}) \ {NoKey}
  BY <1>1 DEF MarkKey, Call
<1>2. ASSUME NEW k \in Keys, NEW n \in 0..MaxBatch, Replay(r, k, n)
      PROVE  /\ key' = [key EXCEPT ![r] = k] /\ pc' = [pc EXCEPT ![r] = "done"]
             /\ reply' = [reply EXCEPT ![r] = "idempotent"]
             /\ pc[r] = "idle" /\ k \in seen /\ seen' = seen
  BY <1>2 DEF Replay, Call, Return
<1>3. ASSUME Admit(r) \/ Refuse(r) \/ Push(r)
      PROVE  /\ key' = key /\ seen' = seen /\ pc[r] \in {"marked", "admitted"}
             /\ \/ pc' = [pc EXCEPT ![r] = "admitted"] /\ reply' = reply
                \/ /\ pc' = [pc EXCEPT ![r] = "done"]
                   /\ \E a \in {"backpressure", "added"} : reply' = [reply EXCEPT ![r] = a]
  BY <1>3 DEF Admit, Refuse, Push, Return
<1> QED
  BY <1>1, <1>2, <1>3 DEF Apply, TypeOK
-----------------------------------------------------------------------------
\* Which id a document got is decided by its place in the order of arrival:
\* the strengthening under which the shape of the window is inductive.
IdFromSeq ==
  \A i \in 1..Len(window) :
    window[i].doc_id = Smaller(window[i].seq - 1, Cap)

WindowInv == TypeOK /\ WindowIsRecent /\ IdFromSeq

\* One batch pushed onto a recent window leaves a recent window.
LEMMA PushKeepsWindow ==
  ASSUME WindowInv, NEW r \in Requests, Push(r)
  PROVE  WindowIsRecent' /\ IdFromSeq'
<1> USE HotMemAssumption
<1> DEFINE b == Batch(r)
           c == window \o b
           n == size[r]
<1>1. /\ b \in Seq(Doc) /\ Len(b) = n
      /\ \A i \in 1..n : /\ b[i].doc_id = Smaller(Len(window) + i - 1, Cap)
                         /\ b[i].seq = pushed + i
  BY BatchFacts DEF WindowInv
<1>2. /\ n \in Nat /\ pushed \in Nat /\ window \in Seq(Doc)
      /\ Len(window) \in Nat
  BY DEF WindowInv, TypeOK
<1>3. /\ Len(window) = Smaller(pushed, Cap)
      /\ \A i \in 1..Len(window) : window[i].seq = pushed - Len(window) + i
      /\ \A i \in 1..Len(window) :
           window[i].doc_id = Smaller(window[i].seq - 1, Cap)
  BY DEF WindowInv, WindowIsRecent, IdFromSeq
<1>4. /\ c \in Seq(Doc) /\ Len(c) = Len(window) + n
      /\ \A i \in 1..Len(c) :
           c[i] = IF i <= Len(window) THEN window[i] ELSE b[i - Len(window)]
  BY <1>1, <1>2
<1>5. ASSUME NEW i \in 1..Len(c)
      PROVE  /\ c[i].seq = pushed - Len(window) + i
             /\ c[i].doc_id = Smaller(c[i].seq - 1, Cap)
  <2>1. CASE i <= Len(window)
    BY <1>2, <1>3, <1>4, <2>1
  <2>2. CASE ~(i <= Len(window))
    <3>1. i - Len(window) \in 1..n
      BY <1>2, <1>4, <2>2
    <3>2. c[i].seq = pushed + (i - Len(window))
      BY <1>1, <1>4, <2>2, <3>1
    <3>3. c[i].doc_id = Smaller(Len(window) + (i - Len(window)) - 1, Cap)
      BY <1>1, <1>4, <2>2, <3>1
    <3>4. Smaller(i - 1, Cap) = Smaller(pushed + (i - Len(window)) - 1, Cap)
      BY <1>2, <1>3, <3>1 DEF Smaller
    <3> QED
      BY <1>2, <3>1, <3>2, <3>3, <3>4
  <2> QED
    BY <2>1, <2>2
<1>6. /\ Len(window') = Smaller(Len(c), Cap)
      /\ \A i \in 1..Len(window') : window'[i] = c[Len(c) - Len(window') + i]
  BY <1>4, KeepNewestFacts DEF Push
<1>7. pushed' = pushed + n
  BY DEF Push
<1>8. Len(window') = Smaller(pushed', Cap)
  BY <1>2, <1>3, <1>4, <1>6, <1>7 DEF Smaller
<1>9. ASSUME NEW i \in 1..Len(window')
      PROVE  /\ window'[i].seq = pushed' - Len(window') + i
             /\ window'[i].doc_id = Smaller(window'[i].seq - 1, Cap)
  <2>1. Len(c) \in Nat /\ Len(window') \in Nat /\ Len(window') <= Len(c)
    BY <1>2, <1>4, <1>6 DEF Smaller
  <2>2. Len(c) - Len(window') + i \in 1..Len(c)
    BY <2>1
  <2>3. pushed - Len(window) + (Len(c) - Len(window') + i)
          = pushed' - Len(window') + i
    <3> HIDE DEF c, n
    <3> QED
      BY <1>2, <1>4, <1>7, <2>1
  <2> QED
    BY <1>5, <1>6, <2>2, <2>3
<1> QED
  BY <1>8, <1>9 DEF WindowIsRecent, IdFromSeq

LEMMA WindowInductive == WindowInv /\ TypeOK' /\ [Next]_vars => WindowInv'
<1> SUFFICES ASSUME WindowInv, TypeOK', [Next]_vars PROVE WindowInv'
  OBVIOUS
<1>1. CASE UNCHANGED <<window, pushed>>
  BY <1>1 DEF WindowInv, WindowIsRecent, IdFromSeq
<1>2. ASSUME NEW r \in Requests, Push(r) PROVE WindowInv'
  BY <1>2, PushKeepsWindow DEF WindowInv
<1> QED
  BY <1>1, <1>2 DEF Next, Apply, MarkKey, Replay, Admit, Refuse, vars

LEMMA WindowInvariant == Spec => []WindowInv
<1>1. Init => WindowIsRecent /\ IdFromSeq
  BY HotMemAssumption DEF Init, WindowIsRecent, IdFromSeq, Smaller
<1>2. Init /\ TypeOK => WindowInv
  BY <1>1 DEF WindowInv
<1> QED
  BY <1>2, WindowInductive, TypeCorrect, PTL DEF Spec

\* The window never exceeds cap, holds the newest documents and keeps them in
\* the order they arrived, under any interleaving of the calls.
THEOREM WindowCorrect == Spec => []WindowIsRecent
  BY WindowInvariant, PTL DEF WindowInv

\* The ids of the window are strictly increasing below Cap.
THEOREM IdsCorrect == Spec => []IdsIncrease
<1>1. WindowInv => IdsIncrease
  <2> SUFFICES ASSUME WindowInv, NEW i \in 1..Len(window),
                      NEW j \in 1..Len(window), i < j
               PROVE  \/ window[i].doc_id < window[j].doc_id
                      \/ window[i].doc_id = Cap /\ window[j].doc_id = Cap
    BY DEF IdsIncrease
  <2>1. pushed \in Nat /\ Len(window) \in Nat
    BY DEF WindowInv, TypeOK
  <2>2. /\ window[i].doc_id = Smaller(pushed - Len(window) + i - 1, Cap)
        /\ window[j].doc_id = Smaller(pushed - Len(window) + j - 1, Cap)
    BY <2>1 DEF WindowInv, WindowIsRecent, IdFromSeq
  <2> QED
    BY <2>1, <2>2, HotMemAssumption DEF Smaller
<1> QED
  BY <1>1, WindowInvariant, PTL
-----------------------------------------------------------------------------
\* One turn of the loop over the batch: the next document of call r, the n-th
\* ever pushed, gets the length of the window as its id.
PushOne(w, r, n) ==
  LET g == Append(w, [req |-> r, doc_id |-> Len(w), seq |-> n])
  IN  IF Len(g) > Cap THEN Tail(g) ELSE g

\* f[k] is the window after k turns.
Turns(f, r) ==
  /\ f[0] = window
  /\ \A k \in 1..size[r] : f[k] = PushOne(f[k - 1], r, pushed + k)

LoopIsPush ==
  \A r \in Requests :
    /\ \E f : Turns(f, r)
    /\ \A f : Turns(f, r) => f[size[r]] = KeepNewest(window \o Batch(r))

\* To evict after each document leaves what evicting once at the end leaves.
LEMMA KeepOneMore ==
  ASSUME NEW S, NEW v \in Seq(S), NEW c \in S
  PROVE  KeepNewest(Append(v, c)) =
           LET g == Append(KeepNewest(v), c) IN IF Len(g) > Cap THEN Tail(g) ELSE g
<1> USE HotMemAssumption
<1> DEFINE w == Append(v, c)
           k == KeepNewest(v)
           g == Append(k, c)
           a == KeepNewest(w)
<1>1. /\ Len(v) \in Nat /\ w \in Seq(S) /\ Len(w) = Len(v) + 1 /\ w[Len(v) + 1] = c
      /\ \A i \in 1..Len(v) : w[i] = v[i]
  BY AppendProperties
<1>2. /\ k \in Seq(S) /\ Len(k) = Smaller(Len(v), Cap)
      /\ \A i \in 1..Len(k) : k[i] = v[Len(v) - Len(k) + i]
  BY KeepNewestFacts
<1> HIDE DEF k, w
<1>3. /\ a \in Seq(S) /\ Len(a) = Smaller(Len(w), Cap)
      /\ \A i \in 1..Len(a) : a[i] = w[Len(w) - Len(a) + i]
  BY <1>1, KeepNewestFacts
<1>4. /\ g \in Seq(S) /\ Len(g) = Len(k) + 1 /\ g[Len(k) + 1] = c
      /\ \A i \in 1..Len(k) : g[i] = k[i]
  <2>1. k \in Seq(S) /\ c \in S
    BY <1>2
  <2>2. /\ Append(k, c) \in Seq(S) /\ Len(Append(k, c)) = Len(k) + 1
        /\ \A i \in 1..Len(k) : Append(k, c)[i] = k[i]
        /\ Append(k, c)[Len(k) + 1] = c
    BY <2>1, AppendProperties
  <2> QED
    BY <2>2
<1> HIDE DEF a, g
<1>5. CASE Len(v) < Cap
  <2>1. Len(k) = Len(v) /\ Len(a) = Len(v) + 1 /\ Len(g) = Len(v) + 1 /\ ~ (Len(g) > Cap)
    BY <1>1, <1>2, <1>3, <1>4, <1>5 DEF Smaller
  <2>2. \A i \in 1..Len(g) : a[i] = g[i]
    <3> TAKE i \in 1..Len(g)
    <3>1. a[i] = w[i]
      <4>1. Len(w) - Len(a) + i = i /\ i \in 1..Len(a)
        BY <1>1, <2>1
      <4> QED
        BY <1>3, <4>1
    <3>2. CASE i <= Len(v)
      <4>1. i \in 1..Len(v) /\ i \in 1..Len(k) /\ Len(v) - Len(k) + i = i
        BY <1>1, <2>1, <3>2
      <4> QED
        BY <1>1, <1>2, <1>4, <3>1, <4>1
    <3>3. CASE ~ (i <= Len(v))
      <4>1. i = Len(v) + 1 /\ i = Len(k) + 1
        BY <1>1, <2>1, <3>3
      <4> QED
        BY <1>1, <1>4, <3>1, <4>1
    <3> QED
      BY <3>2, <3>3
  <2>3. a = g
    BY <1>3, <1>4, <2>1, <2>2, SeqEqual
  <2> QED
    BY <2>1, <2>3 DEF a, g, w, k
<1>6. CASE ~ (Len(v) < Cap)
  <2> DEFINE h == Tail(g)
  <2>1. Len(k) = Cap /\ Len(a) = Cap /\ Len(g) = Cap + 1 /\ Len(g) > Cap
    BY <1>1, <1>2, <1>3, <1>4, <1>6 DEF Smaller
  <2>2. /\ h \in Seq(S) /\ Len(h) = Cap /\ \A i \in 1..Cap : h[i] = g[i + 1]
    <3>1. g # << >>
      BY <1>4, <2>1
    <3> QED
      BY <1>4, <2>1, <3>1, HeadTailProperties
  <2> HIDE DEF h
  <2>3. \A i \in 1..Cap : a[i] = h[i]
    <3> TAKE i \in 1..Cap
    <3>1. a[i] = w[Len(v) + 1 - Cap + i]
      <4>1. Len(w) - Len(a) + i = Len(v) + 1 - Cap + i /\ i \in 1..Len(a)
        BY <1>1, <2>1
      <4> QED
        BY <1>3, <4>1
    <3>2. CASE i < Cap
      <4>1. /\ i + 1 \in 1..Len(k) /\ Len(v) - Len(k) + (i + 1) = Len(v) + 1 - Cap + i
            /\ Len(v) + 1 - Cap + i \in 1..Len(v)
        BY <1>1, <1>6, <2>1, <3>2
      <4>2. h[i] = v[Len(v) + 1 - Cap + i]
        BY <1>2, <1>4, <2>2, <4>1
      <4> QED
        BY <1>1, <3>1, <4>1, <4>2
    <3>3. CASE ~ (i < Cap)
      <4>1. Len(v) + 1 - Cap + i = Len(v) + 1 /\ i + 1 = Len(k) + 1
        BY <1>1, <2>1, <3>3
      <4> QED
        BY <1>1, <1>4, <2>2, <3>1, <4>1
    <3> QED
      BY <3>2, <3>3
  <2>4. a = h
    BY <1>3, <2>1, <2>2, <2>3, SeqEqual
  <2> QED
    BY <2>1, <2>4 DEF a, h, g, w, k
<1> QED
  BY <1>5, <1>6

\* Push does what the loop over the batch does document by document, for every
\* window and every batch (hot.rs:73-92).
THEOREM PushIsTheLoop == Spec => []LoopIsPush
<1>1. ASSUME WindowInv PROVE LoopIsPush
  <2> SUFFICES ASSUME NEW r \in Requests
               PROVE  /\ \E f : Turns(f, r)
                      /\ \A f : Turns(f, r) => f[size[r]] = KeepNewest(window \o Batch(r))
    BY DEF LoopIsPush
  <2> USE HotMemAssumption
  <2> DEFINE b == Batch(r)
             n == size[r]
             W(k) == window \o SubSeq(b, 1, k)
             f == [k \in 0..n |-> KeepNewest(W(k))]
  <2>1. /\ window \in Seq(Doc) /\ Len(window) \in Nat /\ Len(window) <= Cap /\ n \in Nat
        /\ b \in Seq(Doc) /\ Len(b) = n /\ pushed \in Nat
    <3>1. TypeOK
      BY <1>1 DEF WindowInv
    <3>2. b \in Seq(Doc) /\ Len(b) = n
      BY <3>1, BatchFacts
    <3>3. window \in Seq(Doc) /\ n \in Nat /\ pushed \in Nat /\ Len(window) \in Nat
      BY <3>1 DEF TypeOK
    <3>4. Len(window) <= Cap
      BY <1>1, <3>3 DEF WindowInv, WindowIsRecent, Smaller
    <3> QED
      BY <3>2, <3>3, <3>4
  <2>2. \A k \in 1..n : b[k] = [req |-> r, doc_id |-> Smaller(Len(window) + k - 1, Cap),
                                seq |-> pushed + k]
    BY DEF Batch
  <2> HIDE DEF b, n
  <2>3. \A k \in 0..n : SubSeq(b, 1, k) \in Seq(Doc) /\ Len(SubSeq(b, 1, k)) = k
    BY <2>1
  <2>4. \A k \in 0..n : W(k) \in Seq(Doc) /\ Len(W(k)) = Len(window) + k
    BY <2>1, <2>3
  <2>5. \A k \in 1..n : k - 1 \in 0..n /\ W(k) = Append(W(k - 1), b[k]) /\ b[k] \in Doc
    <3> TAKE k \in 1..n
    <3>1. k - 1 \in 0..n /\ b[k] \in Doc /\ 1 \in 1..Len(b) /\ k \in 1..Len(b)
      BY <2>1
    <3>2. SubSeq(b, 1, k) = SubSeq(b, 1, k - 1) \o <<b[k]>>
      BY <2>1, <3>1, SubSeqRecursiveSecond
    <3> DEFINE p == SubSeq(b, 1, k - 1)
               c == <<b[k]>>
    <3>3. p \in Seq(Doc) /\ c \in Seq(Doc)
      BY <2>3, <3>1
    <3> HIDE DEF p, c
    <3>4. window \o (p \o c) = (window \o p) \o c /\ window \o p \in Seq(Doc)
      BY <2>1, <3>3, ConcatAssociative
    <3>5. (window \o p) \o <<b[k]>> = Append(window \o p, b[k])
      BY <3>1, <3>4, AppendIsConcat
    <3> QED
      BY <3>1, <3>2, <3>4, <3>5 DEF p, c
  <2>6. f[0] = window
    <3>1. SubSeq(b, 1, 0) = << >>
      BY SubSeqEmpty
    <3>2. W(0) = window
      BY <2>1, <3>1, ConcatEmptySeq
    <3>3. KeepNewest(window) = window
      BY <2>1 DEF KeepNewest
    <3>4. f[0] = KeepNewest(W(0))
      BY <2>1
    <3> HIDE DEF f, W
    <3> QED
      BY <3>2, <3>3, <3>4
  <2>7. \A k \in 1..n : f[k] = PushOne(f[k - 1], r, pushed + k)
    <3> TAKE k \in 1..n
    <3> DEFINE v == W(k - 1)
               c == [req |-> r, doc_id |-> Len(KeepNewest(v)), seq |-> pushed + k]
    <3>1. v \in Seq(Doc) /\ Len(v) = Len(window) + (k - 1) /\ W(k) = Append(v, b[k]) /\ b[k] \in Doc
      BY <2>4, <2>5
    <3> HIDE DEF v
    <3>2. Len(KeepNewest(v)) = Smaller(Len(v), Cap)
      BY <3>1, KeepNewestFacts
    <3>3. b[k] = c
      <4>1. Len(window) + k - 1 = Len(window) + (k - 1)
        BY <2>1
      <4> QED
        BY <2>2, <3>1, <3>2, <4>1
    <3>4. KeepNewest(Append(v, b[k])) =
            LET g == Append(KeepNewest(v), b[k]) IN IF Len(g) > Cap THEN Tail(g) ELSE g
      BY <3>1, KeepOneMore
    <3>5. KeepNewest(W(k)) = PushOne(KeepNewest(v), r, pushed + k)
      BY <3>1, <3>3, <3>4 DEF PushOne
    <3>6. f[k] = KeepNewest(W(k)) /\ f[k - 1] = KeepNewest(v)
      BY <2>5 DEF v
    <3> QED
      BY <3>5, <3>6
  <2>8. f[n] = KeepNewest(window \o b)
    <3>1. SubSeq(b, 1, n) = b /\ n \in 0..n
      BY <2>1, SubSeqFull
    <3> QED
      BY <3>1
  <2> HIDE DEF f
  <2>9. Turns(f, r)
    BY <2>6, <2>7 DEF Turns, n
  <2>10. ASSUME NEW g, Turns(g, r) PROVE g[n] = f[n]
    <3> DEFINE S == {k \in 0..n : g[k] = f[k]}
    <3>1. 0 \in S
      BY <2>1, <2>6, <2>10 DEF Turns
    <3>2. ASSUME NEW k \in 0..(n - 1), k \in S PROVE k + 1 \in S
      <4>1. k + 1 \in 1..n /\ (k + 1) - 1 = k /\ k + 1 \in 0..n
        BY <2>1
      <4>2. g[k + 1] = PushOne(g[(k + 1) - 1], r, pushed + (k + 1))
        BY <2>10, <4>1 DEF Turns, n
      <4>3. f[k + 1] = PushOne(f[(k + 1) - 1], r, pushed + (k + 1))
        BY <2>7, <4>1
      <4> QED
        BY <3>2, <4>1, <4>2, <4>3
    <3>3. 0..n \subseteq S
      <4> HIDE DEF S
      <4> QED
        BY <2>1, <3>1, <3>2, InductionUpTo
    <3> QED
      BY <2>1, <3>3
  <2> QED
    BY <2>8, <2>9, <2>10 DEF n, b
<1> QED
  BY <1>1, WindowInvariant, PTL
-----------------------------------------------------------------------------
\* A full window stays full, and only a full window refuses: backpressure is
\* permanent for every capacity.
THEOREM BackpressureIsPermanent == Spec => []RefusedMeansFull
<1> USE HotMemAssumption
<1>1. Init => RefusedMeansFull
  BY DEF Init, RefusedMeansFull
<1>2. WindowInv /\ WindowInv' /\ RefusedMeansFull /\ [Next]_vars
        => RefusedMeansFull'
  <2> SUFFICES ASSUME WindowInv, WindowInv', RefusedMeansFull, [Next]_vars
               PROVE  RefusedMeansFull'
    OBVIOUS
  <2> USE DEF RefusedMeansFull, WindowInv, TypeOK
  <2>1. ASSUME NEW r \in Requests, NEW k \in Keys \cup {NoKey},
               NEW n \in 0..MaxBatch, MarkKey(r, k, n)
        PROVE  RefusedMeansFull'
    BY <2>1 DEF MarkKey
  <2>2. ASSUME NEW r \in Requests, NEW k \in Keys, NEW n \in 0..MaxBatch,
               Replay(r, k, n)
        PROVE  RefusedMeansFull'
    BY <2>2 DEF Replay, Return
  <2>3. ASSUME NEW r \in Requests, Admit(r) PROVE RefusedMeansFull'
    BY <2>3 DEF Admit
  <2>4. ASSUME NEW r \in Requests, Refuse(r) PROVE RefusedMeansFull'
    <3>1. Len(window) = Cap
      BY <2>4 DEF Refuse, WindowIsRecent, Smaller
    <3> QED
      BY <2>4, <3>1 DEF Refuse
  <2>5. ASSUME NEW r \in Requests, Push(r) PROVE RefusedMeansFull'
    <3>1. Len(window) = Cap => Len(window') = Cap
      BY <2>5 DEF Push, WindowIsRecent, Smaller
    <3>2. (\E q \in Requests : reply'[q] = "backpressure")
            => \E q \in Requests : reply[q] = "backpressure"
      BY <2>5 DEF Push, Return
    <3> QED
      BY <3>1, <3>2
  <2>6. CASE UNCHANGED vars
    BY <2>6 DEF vars
  <2> QED
    BY <2>1, <2>2, <2>3, <2>4, <2>5, <2>6 DEF Next, Apply
<1> QED
  BY <1>1, <1>2, WindowInvariant, PTL DEF Spec
-----------------------------------------------------------------------------
\* Every key a call has been let through with is recorded: what makes the
\* check-and-insert of MarkKey exclude a second call.
KeysRecorded ==
  \A r \in Requests :
    pc[r] # "idle" /\ key[r] # NoKey => key[r] \in seen

\* A call has no answer before it returns.
RunningUnanswered ==
  \A r \in Requests : pc[r] # "done" => reply[r] = "none"

\* Two calls with the same key are never both past the idempotency check.
THEOREM KeyAdmitsOnce == Spec => []AtMostOncePerKey
<1> DEFINE I == KeysRecorded /\ RunningUnanswered /\ AtMostOncePerKey
<1>1. Init => I
  BY DEF Init, KeysRecorded, RunningUnanswered, AtMostOncePerKey
<1>2. TypeOK /\ I /\ [Next]_vars => I'
  <2> SUFFICES ASSUME TypeOK, I, [Next]_vars PROVE I'
    OBVIOUS
  <2> USE HotMemAssumption DEF TypeOK, KeysRecorded, RunningUnanswered,
                               AtMostOncePerKey
  <2>1. ASSUME NEW r \in Requests, NEW k \in Keys \cup {NoKey},
               NEW n \in 0..MaxBatch, MarkKey(r, k, n)
        PROVE  I'
    <3>1. KeysRecorded' /\ RunningUnanswered'
      BY <2>1 DEF MarkKey, Call
    <3>2. \A q \in Requests \ {r} : pc[q] # "idle" /\ k # NoKey => key[q] # k
      BY <2>1 DEF MarkKey, Call
    <3>3. AtMostOncePerKey'
      BY <2>1, <3>2 DEF MarkKey, Call
    <3> QED
      BY <3>1, <3>3
  <2>2. ASSUME NEW r \in Requests, NEW k \in Keys, NEW n \in 0..MaxBatch,
               Replay(r, k, n)
        PROVE  I'
    BY <2>2 DEF Replay, Call, Return
  <2>3. ASSUME NEW r \in Requests, Admit(r) PROVE I'
    BY <2>3 DEF Admit
  <2>4. ASSUME NEW r \in Requests, Refuse(r) PROVE I'
    BY <2>4 DEF Refuse, Return
  <2>5. ASSUME NEW r \in Requests, Push(r) PROVE I'
    BY <2>5 DEF Push, Return
  <2>6. CASE UNCHANGED vars
    BY <2>6 DEF vars
  <2> QED
    BY <2>1, <2>2, <2>3, <2>4, <2>5, <2>6 DEF Next, Apply
<1> QED
  BY <1>1, <1>2, TypeCorrect, PTL DEF Spec
=============================================================================
