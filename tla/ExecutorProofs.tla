--------------------------- MODULE ExecutorProofs ---------------------------
(***************************************************************************)
(* Theorems about Executor for any number of segments, hits, page sizes and *)
(* permits, and that it implements ScatterGather.                           *)
(***************************************************************************)
EXTENDS Executor, NaturalSets, FiniteSetTheorems, TLAPS

\* Inputs are launched in order, and the loop is where its input is.
LaunchInv ==
  /\ \A i \in Segs : task[i] = "none" <=> next <= i
  /\ loop = "start" => next = 1
  /\ loop \in {"acquire", "wait"} => next <= n
  /\ loop \in {"drain", "done"} => next = n + 1

\* Once an input is skipped, or a search has been started late, the page is
\* full, and the loop is not on its way to start another.
Full == total >= page /\ loop \notin {"acquire", "wait"}

StopInv ==
  /\ \A i \in Segs : task[i] = "skipped" => Full
  /\ \A i, j \in Segs : task[i] = "skipped" /\ i < j /\ j < next => task[j] = "skipped"
  /\ late <= 1 /\ (late = 1 => Full)

\* Every part sent is in the channel or collected, once.
Sent == {i \in Segs : task[i] \in {"skipped", "sent", "ended"}}

OneOfEach(s, S) ==
  /\ \A j, k \in 1..Len(s) : s[j] = s[k] => j = k
  /\ \A j \in 1..Len(s) : s[j] \in S
  /\ \A i \in S : \E j \in 1..Len(s) : s[j] = i

PartInv ==
  /\ loop # "dropped" => OneOfEach(parts \o chan, Sent)
  /\ loop = "start" => parts = << >> /\ chan = << >>
  /\ loop = "done" => chan = << >> /\ Holders = {}

\* The counter holds the hits of the searches that were counted, and a segment
\* that is not searched has none.
Counted == {i \in Segs : task[i] \in {"counted", "sent", "ended"}}

CountInv ==
  /\ total = HitsOf(Counted)
  /\ \A i \in Segs : task[i] \in {"none", "skipped"} => hits[i] = 0

IInv ==
  /\ TypeOK /\ PermitsConserved
  /\ LaunchInv /\ StopInv /\ PartInv /\ CountInv
-----------------------------------------------------------------------------
(* Sequences and sets *)

LEMMA SendOne ==
  ASSUME NEW S, NEW s \in Seq(Segs), NEW t \in Seq(Segs), NEW i \in Segs, i \notin S,
         OneOfEach(s \o t, S)
  PROVE  OneOfEach(s \o Append(t, i), S \cup {i})
<1> DEFINE all == s \o t
           more == s \o Append(t, i)
<1>1. /\ Len(all) \in Nat /\ Len(more) = Len(all) + 1
      /\ more[Len(all) + 1] = i
      /\ \A j \in 1..Len(all) : more[j] = all[j]
  OBVIOUS
<1>2. /\ \A j, k \in 1..Len(all) : all[j] = all[k] => j = k
      /\ \A j \in 1..Len(all) : all[j] \in S /\ all[j] # i
      /\ \A x \in S : \E j \in 1..Len(all) : all[j] = x
  BY DEF OneOfEach
<1> HIDE DEF all, more
<1>3. ASSUME NEW j \in 1..Len(more), NEW k \in 1..Len(more), more[j] = more[k] PROVE j = k
  <2>1. CASE j \in 1..Len(all) /\ k \in 1..Len(all)
    BY <1>1, <1>2, <1>3, <2>1
  <2>2. CASE ~(j \in 1..Len(all) /\ k \in 1..Len(all))
    BY <1>1, <1>2, <1>3, <2>2
  <2> QED
    BY <2>1, <2>2
<1>4. \A j \in 1..Len(more) : more[j] \in S \cup {i}
  BY <1>1, <1>2
<1>5. ASSUME NEW x \in S \cup {i} PROVE \E j \in 1..Len(more) : more[j] = x
  <2>1. CASE x = i
    BY <1>1, <2>1
  <2>2. CASE x \in S
    <3>1. PICK j \in 1..Len(all) : all[j] = x
      BY <1>2, <2>2
    <3> QED
      BY <1>1, <3>1
  <2> QED
    BY <2>1, <2>2
<1> QED
  BY <1>3, <1>4, <1>5 DEF OneOfEach, more

LEMMA CollectOne ==
  ASSUME NEW s \in Seq(Segs), NEW t \in Seq(Segs), t # << >>
  PROVE  /\ Append(s, Head(t)) \o Tail(t) = s \o t
         /\ Append(s, Head(t)) \in Seq(Segs) /\ Tail(t) \in Seq(Segs)
<1> DEFINE a == Append(s, Head(t)) \o Tail(t)
           b == s \o t
<1>1. a \in Seq(Segs) /\ b \in Seq(Segs) /\ Len(a) = Len(b)
  OBVIOUS
<1>2. \A k \in 1..Len(a) : a[k] = b[k]
  OBVIOUS
<1>3. Append(s, Head(t)) \in Seq(Segs) /\ Tail(t) \in Seq(Segs)
  OBVIOUS
<1> HIDE DEF a, b
<1>4. a = b
  BY <1>1, <1>2
<1> QED
  BY <1>3, <1>4 DEF a, b

\* How many tasks hold a permit.
LEMMA HoldersFacts ==
  ASSUME TypeOK
  PROVE  IsFiniteSet(Holders) /\ Cardinality(Holders) \in Nat
<1>1. IsFiniteSet(Segs)
  BY FS_Interval, ExecutorAssumption DEF Segs
<1>2. IsFiniteSet(Holders)
  BY <1>1, FS_Subset DEF Holders
<1> QED
  BY <1>2, FS_CardinalityType

LEMMA Took ==
  ASSUME TypeOK, NEW i \in Segs, Holders' = Holders \cup {i}, i \notin Holders
  PROVE  Cardinality(Holders') = Cardinality(Holders) + 1
BY HoldersFacts, FS_AddElement

LEMMA Gave ==
  ASSUME TypeOK, NEW i \in Holders, Holders' = Holders \ {i}
  PROVE  Cardinality(Holders') = Cardinality(Holders) - 1 /\ Cardinality(Holders) >= 1
<1>1. Cardinality(Holders') = Cardinality(Holders) - 1
  BY HoldersFacts, FS_RemoveElement
<1>2. Cardinality(Holders) # 0
  BY HoldersFacts, FS_EmptySet
<1> QED
  BY <1>1, <1>2, HoldersFacts
-----------------------------------------------------------------------------
(* Sums *)

\* What makes f the sums of w over the first inputs.
IsSum(f, w) == f = [k \in 0..MaxInputs |-> IF k = 0 THEN 0 ELSE f[k - 1] + w[k]]

LEMMA SumExists ==
  ASSUME NEW w \in [Segs -> Int]
  PROVE  \E f \in [0..MaxInputs -> Int] : IsSum(f, w)
<1> DEFINE step == [k \in 1..MaxInputs |-> [t \in Int |-> t + w[k]]]
<1>1. MaxInputs \in Nat /\ \A k \in 1..MaxInputs : w[k] \in Int
  BY ExecutorAssumption DEF Segs
<1>2. step \in [1..MaxInputs -> [Int -> Int]]
  BY <1>1
<1>3. \A k \in 1..MaxInputs, t \in Int : step[k][t] = t + w[k]
  BY <1>1
<1> HIDE DEF step
<1>4. PICK f \in [0..MaxInputs -> Int] : Goes(f, 0, step, MaxInputs)
  <2>1. 0 \in Int
    OBVIOUS
  <2> QED
    BY <1>1, <1>2, <2>1, Iterates, Zenon
<1>5. \A k \in 0..MaxInputs : k # 0 => k \in 1..MaxInputs /\ f[k - 1] \in Int
  BY <1>1
<1>6. \A k \in 0..MaxInputs : f[k] = IF k = 0 THEN 0 ELSE f[k - 1] + w[k]
  BY <1>3, <1>4, <1>5 DEF Goes
<1> QED
  BY <1>6 DEF IsSum

Steadily(f, w) ==
  /\ f[0] = 0
  /\ \A k \in 0..(MaxInputs - 1) :
       /\ k + 1 \in Segs /\ k + 1 \in 0..MaxInputs /\ w[k + 1] \in Int
       /\ f[k + 1] = f[k] + w[k + 1]

LEMMA SumSteps ==
  ASSUME NEW w \in [Segs -> Int], NEW f, IsSum(f, w)
  PROVE  Steadily(f, w)
<1>0. MaxInputs \in Nat
  BY ExecutorAssumption
<1>1. \A k \in 0..MaxInputs : f[k] = IF k = 0 THEN 0 ELSE f[k - 1] + w[k]
  BY DEF IsSum
<1>2. f[0] = 0
  BY <1>0, <1>1
<1>3. ASSUME NEW k \in 0..(MaxInputs - 1)
      PROVE  /\ k + 1 \in Segs /\ k + 1 \in 0..MaxInputs /\ w[k + 1] \in Int
             /\ f[k + 1] = f[k] + w[k + 1]
  <2>1. k + 1 \in Segs /\ k + 1 \in 0..MaxInputs /\ k \in 0..MaxInputs /\ k + 1 # 0 /\ (k + 1) - 1 = k
    BY <1>0 DEF Segs
  <2>2. f[k + 1] = f[k] + w[k + 1]
    BY <1>1, <2>1
  <2> QED
    BY <2>1, <2>2
<1> QED
  BY <1>2, <1>3 DEF Steadily

LEMMA TotalIsSum ==
  ASSUME NEW w \in [Segs -> Int]
  PROVE  \E f \in [0..MaxInputs -> Int] : IsSum(f, w) /\ Total(w) = f[MaxInputs]
<1> DEFINE f == CHOOSE g : IsSum(g, w)
<1>1. IsSum(f, w)
  BY SumExists
<1>2. Total(w) = f[MaxInputs]
  BY DEF Total, IsSum
<1> HIDE DEF f
<1>3. PICK g \in [0..MaxInputs -> Int] : IsSum(g, w)
  BY SumExists
<1> DEFINE S == {k \in 0..MaxInputs : f[k] = g[k]}
<1>0. Steadily(f, w) /\ Steadily(g, w)
  BY <1>1, <1>3, SumSteps
<1>4. 0 \in S /\ \A k \in 0..(MaxInputs - 1) : k \in S => k + 1 \in S
  BY <1>0, ExecutorAssumption DEF Steadily
<1>5. 0..MaxInputs \subseteq S
  <2> HIDE DEF S
  <2> QED
    BY <1>4, InductionUpTo, ExecutorAssumption
<1>6. f = g
  BY <1>1, <1>3, <1>5 DEF IsSum
<1> QED
  BY <1>2, <1>3, <1>6

\* One number more, so much more in the total.
LEMMA TotalGrows ==
  ASSUME NEW w \in [Segs -> Int], NEW i \in Segs, NEW d \in Int
  PROVE  Total([w EXCEPT ![i] = w[i] + d]) = Total(w) + d /\ Total(w) \in Int
<1> DEFINE v == [w EXCEPT ![i] = w[i] + d]
<1>1. v \in [Segs -> Int] /\ v[i] = w[i] + d /\ \A j \in Segs : j # i => v[j] = w[j]
  OBVIOUS
<1> HIDE DEF v
<1>2. PICK f \in [0..MaxInputs -> Int] : IsSum(f, w) /\ Total(w) = f[MaxInputs]
  BY TotalIsSum
<1>3. PICK g \in [0..MaxInputs -> Int] : IsSum(g, v) /\ Total(v) = g[MaxInputs]
  BY <1>1, TotalIsSum
<1> DEFINE S == {k \in 0..MaxInputs : g[k] = f[k] + (IF k >= i THEN d ELSE 0)}
<1>0. Steadily(f, w) /\ Steadily(g, v)
  BY <1>1, <1>2, <1>3, SumSteps
<1>4. 0 \in S
  BY <1>0, ExecutorAssumption DEF Steadily, Segs
<1>5. ASSUME NEW k \in 0..(MaxInputs - 1), k \in S PROVE k + 1 \in S
  <2>1. /\ f[k + 1] = f[k] + w[k + 1] /\ g[k + 1] = g[k] + v[k + 1]
        /\ k + 1 \in Segs /\ k + 1 \in 0..MaxInputs
        /\ w[k + 1] \in Int /\ f[k] \in Int
    <3>1. k \in 0..MaxInputs
      BY ExecutorAssumption
    <3> QED
      BY <1>0, <1>2, <3>1 DEF Steadily
  <2>2. g[k] = f[k] + (IF k >= i THEN d ELSE 0)
    BY <1>5
  <2>3. CASE k + 1 = i
    <3>1. ~ (k >= i) /\ k + 1 >= i
      BY <2>3 DEF Segs
    <3>2. g[k] = f[k] + 0 /\ v[k + 1] = w[k + 1] + d
      BY <1>1, <2>2, <2>3, <3>1
    <3>3. g[k + 1] = f[k + 1] + d
      BY <2>1, <3>2
    <3> QED
      BY <2>1, <3>1, <3>3
  <2>4. CASE k + 1 # i
    <3>1. v[k + 1] = w[k + 1] /\ (k + 1 >= i <=> k >= i) /\ g[k + 1] = g[k] + w[k + 1]
      BY <1>1, <2>1, <2>4 DEF Segs
    <3>2. g[k + 1] = f[k + 1] + (IF k >= i THEN d ELSE 0)
      BY <2>1, <2>2, <3>1
    <3> QED
      BY <2>1, <3>1, <3>2
  <2> QED
    BY <2>3, <2>4
<1>6. 0..MaxInputs \subseteq S
  <2> HIDE DEF S
  <2> QED
    BY <1>4, <1>5, InductionUpTo, ExecutorAssumption
<1>7. g[MaxInputs] = f[MaxInputs] + d
  BY <1>6, ExecutorAssumption DEF Segs
<1> QED
  BY <1>2, <1>3, <1>7, ExecutorAssumption DEF v

LEMMA NoTotal ==
  ASSUME NEW w \in [Segs -> Int], \A i \in Segs : w[i] = 0
  PROVE  Total(w) = 0
<1>1. PICK f \in [0..MaxInputs -> Int] : IsSum(f, w) /\ Total(w) = f[MaxInputs]
  BY TotalIsSum
<1> DEFINE S == {k \in 0..MaxInputs : f[k] = 0}
<1>0. Steadily(f, w)
  BY <1>1, SumSteps
<1>2. 0 \in S /\ \A k \in 0..(MaxInputs - 1) : k \in S => k + 1 \in S
  BY <1>0, ExecutorAssumption DEF Steadily
<1>3. 0..MaxInputs \subseteq S
  <2> HIDE DEF S
  <2> QED
    BY <1>2, InductionUpTo, ExecutorAssumption
<1> QED
  BY <1>1, <1>3, ExecutorAssumption
-----------------------------------------------------------------------------
(* The invariant *)

LEMMA InitHolds == Init => IInv
<1> SUFFICES ASSUME Init PROVE IInv
  OBVIOUS
<1>1. TypeOK
  <2>1. permits \in Nat \ {0} /\ free \in 0..permits
    BY ExecutorAssumption DEF Init, AtLeastOne
  <2>2. n \in 0..MaxInputs /\ page \in Pages /\ next \in 1..(n + 1) /\ loop \in LoopSteps
    BY ExecutorAssumption DEF Init, LoopSteps
  <2>3. task \in [Segs -> TaskSteps] /\ hits \in [Segs -> 0..MaxHits]
    BY ExecutorAssumption DEF Init, TaskSteps
  <2>4. /\ total \in Nat /\ saturated \in Nat /\ late \in Nat
        /\ chan \in Seq(Segs) /\ parts \in Seq(Segs)
    BY DEF Init
  <2>5. deadline \in BOOLEAN /\ hit \in BOOLEAN
    BY Zenon DEF Init
  <2> QED
    BY <2>1, <2>2, <2>3, <2>4, <2>5 DEF TypeOK
<1>2. Holders = {}
  BY DEF Init, Holders
<1>3. PermitsConserved
  <2>1. Cardinality(Holders) = 0
    BY <1>2, FS_EmptySet
  <2> QED
    BY <1>1, <2>1 DEF Init, PermitsConserved, TypeOK
<1>4. LaunchInv /\ StopInv
  BY <1>1 DEF Init, LaunchInv, StopInv, Full, Segs, TypeOK
<1>5. PartInv
  BY <1>2 DEF Init, PartInv, OneOfEach, Sent
<1>6. CountInv
  <2>1. Counted = {} /\ \A i \in Segs : hits[i] = 0
    BY DEF Init, Counted
  <2>2. HitsOf(Counted) = 0
    BY <2>1, NoTotal DEF HitsOf
  <2> QED
    BY <2>1, <2>2 DEF Init, CountInv
<1> QED
  BY <1>1, <1>3, <1>4, <1>5, <1>6 DEF IInv

\* The launch loop has inputs in range.
LEMMA NextInput ==
  ASSUME IInv, next <= n
  PROVE  next \in Segs /\ task[next] = "none" /\ next + 1 \in 1..(n + 1) /\ next \in Nat
BY ExecutorAssumption DEF IInv, TypeOK, LaunchInv, Segs

\* The steps by what they change of the tasks.
Launching == LaunchNow \/ LaunchWaited
Quiet == ReturnEmpty \/ Start \/ NotFull \/ Saturate \/ Close \/ Return \/ Deadline

LEMMA Steps ==
  ASSUME Next
  PROVE  \/ Quiet \/ Launching \/ Skip \/ Collect \/ Drop
         \/ \E i \in Segs : Found(i) \/ Count(i) \/ Send(i) \/ Panic(i) \/ End(i)
BY DEF Next, RunAll, Task, Quiet, Launching

LEMMA LaunchStep ==
  ASSUME IInv, Launching
  PROVE  /\ loop \in {"acquire", "wait"} /\ loop' = "check" /\ next <= n /\ next' = next + 1
         /\ free > 0 /\ free' = free - 1
         /\ task' = [task EXCEPT ![next] = "searching"]
         /\ late' = (IF total >= page THEN late + 1 ELSE late)
         /\ saturated' \in Nat
         /\ UNCHANGED <<n, page, deadline, permits, hits, total, chan, parts, hit>>
BY DEF Launching, LaunchNow, LaunchWaited, Launch, Goto, IInv, TypeOK, LaunchInv, args

LEMMA StepTypes ==
  ASSUME IInv, Next
  PROVE  TypeOK'
<1> USE DEF Goto
<1>0. TypeOK
  BY DEF IInv
<1>1. CASE Quiet
  <2>1. /\ UNCHANGED <<n, page, deadline, permits, free, next, task, hits, total, chan, parts,
                        late>>
        /\ loop' \in LoopSteps
    BY <1>0, <1>1 DEF Quiet, ReturnEmpty, Start, NotFull, Saturate, Close, Return, Deadline,
       TypeOK, LoopSteps, args
  <2>2. saturated' \in Nat
    BY <1>0, <1>1 DEF Quiet, ReturnEmpty, Start, NotFull, Saturate, Close, Return, Deadline, TypeOK
  <2>3. hit' \in BOOLEAN
    <3>1. hit' = hit \/ hit' = deadline \/ hit' = TRUE
      BY <1>1, Zenon DEF Quiet, ReturnEmpty, Start, NotFull, Saturate, Close, Return, Deadline
    <3> QED
      BY <1>0, <3>1, Zenon DEF TypeOK
  <2> QED
    BY <1>0, <2>1, <2>2, <2>3 DEF TypeOK
<1>2. CASE Launching
  <2>1. /\ loop' = "check" /\ next' = next + 1 /\ free > 0 /\ free' = free - 1
        /\ task' = [task EXCEPT ![next] = "searching"]
        /\ late' = (IF total >= page THEN late + 1 ELSE late)
        /\ saturated' \in Nat
        /\ UNCHANGED <<n, page, deadline, permits, hits, total, chan, parts, hit>>
    BY <1>2, LaunchStep
  <2>2. next' \in 1..(n + 1)
    BY <1>2, <2>1, LaunchStep, NextInput
  <2>3. free' \in 0..permits /\ late' \in Nat
    BY <1>0, <2>1 DEF TypeOK
  <2>4. task' \in [Segs -> TaskSteps] /\ loop' \in LoopSteps
    BY <1>0, <2>1 DEF TypeOK, TaskSteps, LoopSteps
  <2> QED
    BY <1>0, <2>1, <2>2, <2>3, <2>4 DEF TypeOK
<1>3. CASE Skip
  BY <1>3, NextInput DEF Skip, IInv, TypeOK, TaskSteps, args
<1>4. CASE Collect
  BY <1>4, CollectOne DEF Collect, IInv, TypeOK, args
<1>5. CASE Drop
  BY <1>5 DEF Drop, IInv, TypeOK, LoopSteps, args
<1>6. ASSUME NEW i \in Segs, Found(i) \/ Count(i) \/ Send(i) PROVE TypeOK'
  <2>1. /\ \E t \in TaskSteps : task' = [task EXCEPT ![i] = t]
        /\ hits' \in [Segs -> 0..MaxHits] /\ total' \in Nat /\ chan' \in Seq(Segs)
    <3>1. \E t \in TaskSteps : task' = [task EXCEPT ![i] = t]
      BY <1>6 DEF Found, Count, Send, Step, TaskSteps
    <3>2. hits' \in [Segs -> 0..MaxHits]
      BY <1>0, <1>6 DEF Found, Count, Send, TypeOK
    <3>3. hits[i] \in Nat
      BY <1>0, ExecutorAssumption DEF TypeOK
    <3>4. total' \in Nat
      BY <1>0, <1>6, <3>3 DEF Found, Count, Send, TypeOK
    <3>5. chan' \in Seq(Segs)
      <4>1. chan' = chan \/ chan' = Append(chan, i)
        BY <1>6 DEF Found, Count, Send
      <4>2. chan \in Seq(Segs) /\ i \in Segs
        BY <1>0 DEF TypeOK
      <4> QED
        BY <4>1, <4>2
    <3> QED
      BY <3>1, <3>2, <3>4, <3>5
  <2>2. UNCHANGED <<n, page, deadline, permits, free, loop, next, saturated, parts, hit, late>>
    BY <1>6 DEF Found, Count, Send, args
  <2> QED
    BY <2>1, <2>2 DEF IInv, TypeOK
<1>7. ASSUME NEW i \in Segs, Panic(i) \/ End(i) PROVE TypeOK'
  <2>1. /\ \E t \in TaskSteps : task' = [task EXCEPT ![i] = t]
        /\ i \in Holders /\ free' = free + 1
    BY <1>7 DEF Panic, End, Step, TaskSteps, Holders
  <2>2. UNCHANGED <<n, page, deadline, permits, loop, next, hits, total, saturated, chan, parts,
                    hit, late>>
    BY <1>7 DEF Panic, End, args
  <2>3. Cardinality(Holders) >= 1
    <3>1. Cardinality(Holders) # 0
      BY <2>1, HoldersFacts, FS_EmptySet DEF IInv
    <3> QED
      BY <3>1, HoldersFacts DEF IInv
  <2>4. free + 1 <= permits
    BY <2>3, HoldersFacts DEF IInv, TypeOK, PermitsConserved
  <2> QED
    BY <2>1, <2>2, <2>4 DEF IInv, TypeOK
<1> QED
  BY <1>1, <1>2, <1>3, <1>4, <1>5, <1>6, <1>7, Steps

LEMMA StepPermits ==
  ASSUME IInv, Next
  PROVE  PermitsConserved'
<1> USE DEF Goto
<1>0. task \in [Segs -> TaskSteps] /\ permits \in Nat /\ free \in Nat /\ TypeOK
  BY DEF IInv, TypeOK
<1>1. CASE Quiet \/ Collect \/ Drop
  <2>1. UNCHANGED <<task, free, permits>>
    BY <1>1 DEF Quiet, ReturnEmpty, Start, NotFull, Saturate, Close, Return, Deadline, Collect,
       Drop, args
  <2> QED
    BY <2>1 DEF IInv, PermitsConserved, Holders
<1>2. CASE Launching
  <2>1. /\ next \in Segs /\ task[next] = "none" /\ free' = free - 1 /\ permits' = permits
        /\ task' = [task EXCEPT ![next] = "searching"]
    BY <1>2, LaunchStep, NextInput
  <2>2. Holders' = Holders \cup {next} /\ next \notin Holders
    BY <1>0, <2>1 DEF Holders
  <2>3. Cardinality(Holders') = Cardinality(Holders) + 1
    BY <1>0, <2>1, <2>2, Took
  <2> QED
    BY <1>0, <2>1, <2>3, HoldersFacts DEF IInv, PermitsConserved
<1>3. CASE Skip
  <2>1. /\ next \in Segs /\ task[next] = "none" /\ free' = free /\ permits' = permits
        /\ task' = [task EXCEPT ![next] = "skipped"]
    BY <1>3, NextInput DEF Skip, args
  <2>2. Holders' = Holders
    BY <1>0, <2>1 DEF Holders
  <2> QED
    BY <2>1, <2>2 DEF IInv, PermitsConserved
<1>4. ASSUME NEW i \in Segs, Found(i) \/ Count(i) \/ Send(i) PROVE PermitsConserved'
  <2>1. /\ task[i] \in {"searching", "found", "counted"} /\ free' = free /\ permits' = permits
        /\ \E t \in {"found", "counted", "sent"} : task' = [task EXCEPT ![i] = t]
    BY <1>4 DEF Found, Count, Send, Step, args
  <2>2. Holders' = Holders
    BY <1>0, <2>1 DEF Holders
  <2> QED
    BY <2>1, <2>2 DEF IInv, PermitsConserved
<1>5. ASSUME NEW i \in Segs, Panic(i) \/ End(i) PROVE PermitsConserved'
  <2>1. /\ task[i] \in {"searching", "sent"} /\ free' = free + 1 /\ permits' = permits
        /\ \E t \in {"panicked", "ended"} : task' = [task EXCEPT ![i] = t]
    BY <1>5 DEF Panic, End, Step, args
  <2>2. i \in Holders /\ Holders' = Holders \ {i}
    BY <1>0, <2>1 DEF Holders
  <2>3. Cardinality(Holders') = Cardinality(Holders) - 1
    BY <1>0, <2>2, Gave
  <2> QED
    BY <1>0, <2>1, <2>3, HoldersFacts DEF IInv, PermitsConserved
<1> QED
  BY <1>1, <1>2, <1>3, <1>4, <1>5, Steps

LEMMA StepLaunch ==
  ASSUME IInv, Next
  PROVE  LaunchInv'
<1> USE DEF Goto
<1>0. task \in [Segs -> TaskSteps] /\ n \in Nat /\ next \in 1..(n + 1) /\ LaunchInv
  BY DEF IInv, TypeOK
<1>1. CASE Quiet \/ Collect \/ Drop
  BY <1>0, <1>1 DEF Quiet, ReturnEmpty, Start, NotFull, Saturate, Close, Return, Deadline,
     Collect, Drop, LaunchInv, args
<1>2. CASE Launching \/ Skip
  <2>1. /\ next \in Segs /\ loop' = "check" /\ next' = next + 1
        /\ \E t \in {"searching", "skipped"} : task' = [task EXCEPT ![next] = t]
    BY <1>2, LaunchStep, NextInput DEF Skip
  <2> QED
    BY <1>0, <2>1 DEF LaunchInv, Segs
<1>3. ASSUME NEW i \in Segs, Found(i) \/ Count(i) \/ Send(i) \/ Panic(i) \/ End(i)
      PROVE LaunchInv'
  <2>1. /\ task[i] # "none" /\ UNCHANGED <<next, loop, n>>
        /\ \E t \in TaskSteps \ {"none"} : task' = [task EXCEPT ![i] = t]
    BY <1>3 DEF Found, Count, Send, Panic, End, Step, TaskSteps, args
  <2> QED
    BY <1>0, <2>1 DEF LaunchInv
<1> QED
  BY <1>1, <1>2, <1>3, Steps

LEMMA StepStop ==
  ASSUME IInv, Next
  PROVE  StopInv'
<1> USE DEF Goto
<1>0. /\ task \in [Segs -> TaskSteps] /\ n \in Nat /\ next \in 1..(n + 1) /\ StopInv
      /\ total \in Nat /\ late \in Nat /\ page \in Nat /\ LaunchInv
  BY ExecutorAssumption DEF IInv, TypeOK
<1>1. CASE Quiet \/ Collect \/ Drop
  <2>1. /\ UNCHANGED <<task, next, total, page, late>>
        /\ loop' \in {"acquire", "wait"} => total < page \/ loop \in {"acquire", "wait"}
    BY <1>1 DEF Quiet, ReturnEmpty, Start, NotFull, Saturate, Close, Return, Deadline,
       Collect, Drop, args
  <2>2. Full => Full'
    BY <1>0, <2>1 DEF Full
  <2> QED
    BY <1>0, <2>1, <2>2 DEF StopInv
<1>2. CASE Launching
  <2>1. /\ next \in Segs /\ loop \in {"acquire", "wait"} /\ loop' = "check" /\ next' = next + 1
        /\ task' = [task EXCEPT ![next] = "searching"] /\ UNCHANGED <<total, page>>
        /\ late' = (IF total >= page THEN late + 1 ELSE late)
    BY <1>2, LaunchStep, NextInput
  <2>2. ~Full /\ late = 0 /\ \A i \in Segs : task[i] # "skipped"
    BY <1>0, <2>1 DEF StopInv, Full
  <2>3. \A i \in Segs : task'[i] # "skipped"
    BY <1>0, <2>1, <2>2
  <2>4. late' <= 1 /\ (late' = 1 => Full')
    BY <1>0, <2>1, <2>2 DEF Full
  <2> QED
    BY <2>3, <2>4 DEF StopInv
<1>3. CASE Skip
  <2>1. /\ next \in Segs /\ loop' = "check" /\ next' = next + 1 /\ total >= page
        /\ task' = [task EXCEPT ![next] = "skipped"] /\ UNCHANGED <<total, page, late>>
    BY <1>3, NextInput DEF Skip, args
  <2>2. Full'
    BY <2>1 DEF Full
  <2>3. \A i, j \in Segs : task'[i] = "skipped" /\ i < j /\ j < next' => task'[j] = "skipped"
    BY <1>0, <2>1 DEF StopInv, Segs
  <2> QED
    BY <1>0, <2>1, <2>2, <2>3 DEF StopInv
<1>4. ASSUME NEW i \in Segs, Found(i) \/ Count(i) \/ Send(i) \/ Panic(i) \/ End(i)
      PROVE StopInv'
  <2>1. /\ task[i] # "skipped" /\ UNCHANGED <<next, loop, n, page, late>>
        /\ \E t \in TaskSteps \ {"skipped"} : task' = [task EXCEPT ![i] = t]
    BY <1>4 DEF Found, Count, Send, Panic, End, Step, TaskSteps, args
  <2>2. total' \in Nat /\ total' >= total
    <3>1. hits[i] \in Nat
      BY ExecutorAssumption DEF IInv, TypeOK
    <3> QED
      BY <1>0, <1>4, <3>1 DEF Found, Count, Send, Panic, End, IInv, TypeOK
  <2>3. Full => Full'
    BY <1>0, <2>1, <2>2 DEF Full
  <2>4. \A j \in Segs : task'[j] = "skipped" <=> task[j] = "skipped"
    BY <1>0, <2>1
  <2> QED
    BY <1>0, <2>1, <2>3, <2>4 DEF StopInv
<1> QED
  BY <1>1, <1>2, <1>3, <1>4, Steps

LEMMA StepPart ==
  ASSUME IInv, Next
  PROVE  PartInv'
<1> USE DEF Goto
<1>0. /\ task \in [Segs -> TaskSteps] /\ chan \in Seq(Segs) /\ parts \in Seq(Segs) /\ PartInv
  BY DEF IInv, TypeOK
<1>1. CASE Quiet
  <2>1. /\ UNCHANGED <<task, parts, chan>> /\ (loop \notin {"dropped", "done"} \/ loop' = loop)
        /\ loop' # "start" \/ loop = "start"
        /\ loop' = "done" => chan = << >> /\ Holders = {}
    <3>1. ReturnEmpty => chan = << >> /\ Holders = {}
      <4>1. ReturnEmpty => \A i \in Segs : task[i] = "none"
        BY DEF ReturnEmpty, IInv, LaunchInv, Segs
      <4> QED
        BY <1>0, <4>1 DEF ReturnEmpty, PartInv, Holders
    <3> QED
      BY <1>0, <1>1, <3>1 DEF Quiet, ReturnEmpty, Start, NotFull, Saturate, Close, Return,
         Deadline, PartInv, args
  <2>2. Sent' = Sent /\ Holders' = Holders
    BY <1>1 DEF Quiet, ReturnEmpty, Start, NotFull, Saturate, Close, Return, Deadline, Sent,
       Holders
  <2>3. UNCHANGED <<parts, chan>>
    BY <1>1 DEF Quiet, ReturnEmpty, Start, NotFull, Saturate, Close, Return, Deadline
  <2>4. loop' # "dropped" => loop # "dropped"
    BY <1>1 DEF Quiet, ReturnEmpty, Start, NotFull, Saturate, Close, Return, Deadline
  <2> QED
    BY <1>0, <2>1, <2>2, <2>3, <2>4 DEF PartInv
<1>2. CASE Launching
  <2>1. /\ next \in Segs /\ task[next] = "none" /\ loop \in {"acquire", "wait"} /\ loop' = "check"
        /\ task' = [task EXCEPT ![next] = "searching"] /\ UNCHANGED <<parts, chan>>
    BY <1>2, LaunchStep, NextInput
  <2>2. Sent' = Sent
    BY <1>0, <2>1 DEF Sent
  <2> QED
    BY <1>0, <2>1, <2>2 DEF PartInv
<1>3. CASE Skip
  <2>1. /\ next \in Segs /\ task[next] = "none" /\ loop = "check" /\ loop' = "check"
        /\ task' = [task EXCEPT ![next] = "skipped"] /\ parts' = parts
        /\ chan' = Append(chan, next)
    BY <1>3, NextInput DEF Skip
  <2>2. next \notin Sent /\ Sent' = Sent \cup {next}
    BY <1>0, <2>1 DEF Sent
  <2>3. OneOfEach(parts \o chan, Sent)
    BY <1>0, <2>1 DEF PartInv
  <2>4. OneOfEach(parts' \o chan', Sent')
    BY <1>0, <2>1, <2>2, <2>3, SendOne
  <2> QED
    BY <2>1, <2>4 DEF PartInv
<1>4. CASE Collect
  <2>1. /\ loop = "drain" /\ loop' = "drain" /\ chan # << >> /\ task' = task
        /\ parts' = Append(parts, Head(chan)) /\ chan' = Tail(chan)
    BY <1>4 DEF Collect
  <2>2. parts' \o chan' = parts \o chan /\ Sent' = Sent
    BY <1>0, <2>1, CollectOne DEF Sent
  <2> QED
    BY <1>0, <2>1, <2>2 DEF PartInv
<1>5. CASE Drop
  BY <1>5 DEF Drop, PartInv
<1>6. ASSUME NEW i \in Segs, Found(i) \/ Count(i) \/ Panic(i) \/ End(i) PROVE PartInv'
  <2>1. /\ task[i] \in {"searching", "found", "sent"} /\ UNCHANGED <<loop, parts, chan>>
        /\ \/ task[i] # "sent" /\ \E t \in {"found", "counted", "panicked"} :
                                     task' = [task EXCEPT ![i] = t]
           \/ task[i] = "sent" /\ task' = [task EXCEPT ![i] = "ended"]
    BY <1>6 DEF Found, Count, Panic, End, Step
  <2>2. Sent' = Sent /\ i \in Holders
    BY <1>0, <2>1 DEF Sent, Holders
  <2> QED
    BY <1>0, <2>1, <2>2 DEF PartInv
<1>7. ASSUME NEW i \in Segs, Send(i) PROVE PartInv'
  <2>1. /\ task[i] = "counted" /\ task' = [task EXCEPT ![i] = "sent"]
        /\ chan' = (IF loop = "dropped" THEN chan ELSE Append(chan, i))
        /\ UNCHANGED <<loop, parts>>
    BY <1>7 DEF Send, Step
  <2>2. i \notin Sent /\ Sent' = Sent \cup {i} /\ i \in Holders
    BY <1>0, <2>1 DEF Sent, Holders
  <2>3. loop # "dropped" => OneOfEach(parts' \o chan', Sent')
    BY <1>0, <2>1, <2>2, SendOne DEF PartInv
  <2>4. loop # "start"
    BY <2>1 DEF IInv, LaunchInv, TypeOK, Segs
  <2> QED
    BY <1>0, <2>1, <2>2, <2>3, <2>4 DEF PartInv
<1> QED
  BY <1>1, <1>2, <1>3, <1>4, <1>5, <1>6, <1>7, Steps

LEMMA StepCount ==
  ASSUME IInv, Next
  PROVE  CountInv'
<1> USE DEF Goto
<1>0. /\ task \in [Segs -> TaskSteps] /\ hits \in [Segs -> Nat] /\ total = HitsOf(Counted)
      /\ \A i \in Segs : task[i] \in {"none", "skipped"} => hits[i] = 0
  BY ExecutorAssumption DEF IInv, TypeOK, CountInv
<1>1. CASE Quiet \/ Collect \/ Drop
  <2>1. UNCHANGED <<task, hits, total>>
    BY <1>1 DEF Quiet, ReturnEmpty, Start, NotFull, Saturate, Close, Return, Deadline, Collect,
       Drop
  <2> QED
    BY <1>0, <2>1 DEF CountInv, Counted, HitsOf
<1>2. CASE Launching \/ Skip
  <2>1. /\ next \in Segs /\ task[next] = "none" /\ UNCHANGED <<hits, total>>
        /\ \E t \in {"searching", "skipped"} : task' = [task EXCEPT ![next] = t]
    BY <1>2, LaunchStep, NextInput DEF Skip
  <2>2. Counted' = Counted /\ \A i \in Segs : task'[i] \in {"none", "skipped"} => hits[i] = 0
    BY <1>0, <2>1 DEF Counted
  <2> QED
    BY <1>0, <2>1, <2>2 DEF CountInv, HitsOf
<1>3. ASSUME NEW i \in Segs, Found(i) PROVE CountInv'
  <2>1. /\ task[i] = "searching" /\ task' = [task EXCEPT ![i] = "found"] /\ total' = total
        /\ \E h \in 0..MaxHits : hits' = [hits EXCEPT ![i] = h]
    BY <1>3 DEF Found, Step
  <2>2. /\ Counted' = Counted /\ i \notin Counted
        /\ \A j \in Segs : task'[j] \in {"none", "skipped"} => hits'[j] = 0
    BY <1>0, <2>1 DEF Counted
  <2>3. HitsOf(Counted)' = HitsOf(Counted)
    <3>1. [j \in Segs |-> IF j \in Counted' THEN hits'[j] ELSE 0]
            = [j \in Segs |-> IF j \in Counted THEN hits[j] ELSE 0]
      BY <1>0, <2>1, <2>2
    <3> QED
      BY <3>1 DEF HitsOf
  <2> QED
    BY <1>0, <2>1, <2>2, <2>3 DEF CountInv
<1>4. ASSUME NEW i \in Segs, Count(i) PROVE CountInv'
  <2>1. /\ task[i] = "found" /\ task' = [task EXCEPT ![i] = "counted"]
        /\ total' = total + hits[i] /\ hits' = hits
    BY <1>4 DEF Count, Step
  <2>2. /\ Counted' = Counted \cup {i} /\ i \notin Counted
        /\ \A j \in Segs : task'[j] \in {"none", "skipped"} => hits'[j] = 0
    BY <1>0, <2>1 DEF Counted
  <2> DEFINE w == [j \in Segs |-> IF j \in Counted THEN hits[j] ELSE 0]
  <2>3. w \in [Segs -> Int] /\ hits[i] \in Int
    BY <1>0
  <2>4. [j \in Segs |-> IF j \in Counted' THEN hits'[j] ELSE 0] = [w EXCEPT ![i] = w[i] + hits[i]]
    <3>1. w[i] + hits[i] = hits[i]
      BY <1>0, <2>2
    <3>2. \A j \in Segs : (IF j \in Counted' THEN hits'[j] ELSE 0) = [w EXCEPT ![i] = hits[i]][j]
      BY <2>1, <2>2
    <3> QED
      BY <3>1, <3>2
  <2>5. Total([w EXCEPT ![i] = w[i] + hits[i]]) = Total(w) + hits[i]
    <3> HIDE DEF w
    <3> QED
      BY <2>3, TotalGrows
  <2>6. HitsOf(Counted)' = HitsOf(Counted) + hits[i]
    BY <2>4, <2>5 DEF HitsOf
  <2> QED
    BY <1>0, <2>1, <2>2, <2>6 DEF CountInv
<1>5. ASSUME NEW i \in Segs, Send(i) \/ Panic(i) \/ End(i) PROVE CountInv'
  <2>1. /\ UNCHANGED <<hits, total>>
        /\ \/ task[i] = "searching" /\ task' = [task EXCEPT ![i] = "panicked"]
           \/ task[i] = "counted" /\ task' = [task EXCEPT ![i] = "sent"]
           \/ task[i] = "sent" /\ task' = [task EXCEPT ![i] = "ended"]
    BY <1>5 DEF Send, Panic, End, Step
  <2>2. Counted' = Counted /\ \A j \in Segs : task'[j] \in {"none", "skipped"} => hits[j] = 0
    BY <1>0, <2>1 DEF Counted
  <2> QED
    BY <1>0, <2>1, <2>2 DEF CountInv, HitsOf
<1> QED
  BY <1>1, <1>2, <1>3, <1>4, <1>5, Steps

LEMMA StepKeeps == IInv /\ [Next]_vars => IInv'
<1> SUFFICES ASSUME IInv, [Next]_vars PROVE IInv'
  OBVIOUS
<1>1. CASE Next
  BY <1>1, StepTypes, StepPermits, StepLaunch, StepStop, StepPart, StepCount DEF IInv
<1>2. CASE UNCHANGED vars
  <2>1. /\ UNCHANGED <<n, page, deadline, permits, free, loop, next, task>>
        /\ UNCHANGED <<hits, total, saturated, chan, parts, hit, late>>
    BY <1>2 DEF vars
  <2>2. TypeOK'
    BY <2>1 DEF IInv, TypeOK
  <2>3. PermitsConserved' /\ LaunchInv' /\ StopInv'
    BY <2>1 DEF IInv, PermitsConserved, Holders, LaunchInv, StopInv, Full
  <2>4. PartInv'
    BY <2>1 DEF IInv, PartInv, OneOfEach, Sent, Holders
  <2>5. CountInv'
    BY <2>1 DEF IInv, CountInv, Counted, HitsOf
  <2> QED
    BY <2>2, <2>3, <2>4, <2>5 DEF IInv
<1> QED
  BY <1>1, <1>2

LEMMA Holds == Spec => []IInv
<1>1. Spec => Init /\ [][Next]_vars
  BY PTL DEF Spec
<1> QED
  BY <1>1, InitHolds, StepKeeps, PTL
-----------------------------------------------------------------------------
(* What run_all keeps *)

\* Permits, counters, tasks and parts stay what their types say; that no permit
\* is given back twice is part of it (free \in 0..permits).
THEOREM TypeCorrect == Spec => []TypeOK
BY Holds, PTL DEF IInv

\* Whatever panics or is dropped, every permit is free or held by one live task:
\* the limit on parallel searches holds and no leak starves the loop.
THEOREM PermitsAreConserved == Spec => []PermitsConserved
BY Holds, PTL DEF IInv

\* At most one segment is searched after the page is full.
THEOREM AtMostOneIsLate == Spec => []AtMostOneLate
<1>1. IInv => AtMostOneLate
  BY DEF IInv, StopInv, AtMostOneLate
<1> QED
  BY <1>1, Holds, PTL

LEMMA AnswerIsComplete ==
  ASSUME IInv, chan = << >>, Holders = {}, next = n + 1, loop # "dropped"
  PROVE  /\ \A i, j \in 1..Len(parts) : parts[i] = parts[j] => i = j
         /\ Range(parts) = {i \in 1..n : task[i] # "panicked"}
<1>1. parts \in Seq(Segs) /\ task \in [Segs -> TaskSteps] /\ 1..n \subseteq Segs
  BY ExecutorAssumption DEF IInv, TypeOK, Segs
<1>2. parts \o chan = parts
  BY <1>1
<1>3. OneOfEach(parts, Sent)
  BY <1>2 DEF IInv, PartInv
<1>4. Range(parts) = Sent
  BY <1>1, <1>3 DEF OneOfEach, Range
<1>5. \A i \in Segs : task[i] # "none" <=> i \in 1..n
  BY ExecutorAssumption DEF IInv, TypeOK, LaunchInv, Segs
<1>6. Sent = {i \in 1..n : task[i] # "panicked"}
  <2>1. \A i \in Segs : task[i] \notin {"searching", "found", "counted", "sent"}
    BY DEF Holders
  <2>2. \A i \in Segs : task[i] \in {"none", "skipped", "ended", "panicked"}
    BY <1>1, <2>1 DEF TaskSteps
  <2> QED
    BY <1>1, <1>5, <2>2 DEF Sent
<1> QED
  BY <1>3, <1>4, <1>6 DEF OneOfEach

\* The answer has exactly one part of every input whose search did not panic.
THEOREM OnePartForEach == Spec => []OnePartEach
<1>1. IInv => OnePartEach
  <2> SUFFICES ASSUME IInv, loop = "done"
               PROVE  /\ \A i, j \in 1..Len(parts) : parts[i] = parts[j] => i = j
                      /\ Range(parts) = {i \in 1..n : task[i] # "panicked"}
    BY DEF OnePartEach
  <2>1. chan = << >> /\ Holders = {} /\ next = n + 1
    BY DEF IInv, PartInv, LaunchInv
  <2> QED
    BY <2>1, AnswerIsComplete
<1> QED
  BY <1>1, Holds, PTL

\* When the answer leaves a segment out because the page was full, it leaves out
\* all after it, and the segments before it, all of them in the answer, do hold a
\* full page.
THEOREM SkipsLeaveAFullPage == Spec => []SkippedOnlyWhenFull
<1>1. IInv => SkippedOnlyWhenFull
  <2> SUFFICES ASSUME IInv, loop = "done", NEW i \in 1..n, task[i] = "skipped"
               PROVE  /\ \A j \in i..n : task[j] = "skipped"
                      /\ HitsOf({j \in Range(parts) : j < i}) >= page
    BY DEF SkippedOnlyWhenFull
  <2>1. i \in Segs /\ task \in [Segs -> TaskSteps] /\ n \in 0..MaxInputs
    BY ExecutorAssumption DEF IInv, TypeOK, Segs
  <2>2. chan = << >> /\ Holders = {} /\ next = n + 1
    BY DEF IInv, PartInv, LaunchInv
  <2>3. Range(parts) = {j \in 1..n : task[j] # "panicked"}
    BY <2>2, AnswerIsComplete
  <2>4. total >= page /\ total = HitsOf(Counted)
    BY <2>1 DEF IInv, StopInv, Full, CountInv
  <2>5. \A j \in Segs : task[j] \notin {"searching", "found", "counted", "sent"}
    BY <2>2 DEF Holders
  <2>6. \A j \in Segs : j > i => task[j] \in {"none", "skipped"}
    BY <2>1, <2>2 DEF IInv, StopInv, LaunchInv, Segs
  <2>7. \A j \in Segs : j < i => j \in 1..n /\ task[j] \in {"skipped", "ended", "panicked"}
    BY <2>1, <2>2, <2>5, ExecutorAssumption DEF IInv, LaunchInv, Segs, TaskSteps
  <2>8. \A j \in Segs : task[j] \in {"none", "skipped"} => hits[j] = 0
    BY DEF IInv, CountInv
  <2>9. \A j \in Segs :
          (IF j \in {k \in Range(parts) : k < i} THEN hits[j] ELSE 0)
            = (IF j \in Counted THEN hits[j] ELSE 0)
    <3> SUFFICES ASSUME NEW j \in Segs
                 PROVE  (IF j \in {k \in Range(parts) : k < i} THEN hits[j] ELSE 0)
                          = (IF j \in Counted THEN hits[j] ELSE 0)
      OBVIOUS
    <3>1. CASE j < i
      BY <2>3, <2>7, <2>8, <3>1 DEF Counted
    <3>2. CASE j = i
      BY <2>8, <3>2 DEF Counted
    <3>3. CASE j > i
      BY <2>6, <2>8, <3>3 DEF Counted, Segs
    <3> QED
      BY <2>1, <3>1, <3>2, <3>3 DEF Segs
  <2>10. HitsOf({j \in Range(parts) : j < i}) = HitsOf(Counted)
    BY <2>9 DEF HitsOf
  <2>11. \A j \in i..n : task[j] = "skipped"
    <3> TAKE j \in i..n
    <3>1. j = i \/ (i < j /\ j < next /\ j \in Segs)
      BY <2>1, <2>2, ExecutorAssumption DEF Segs
    <3> QED
      BY <2>1, <3>1 DEF IInv, StopInv
  <2> QED
    BY <2>4, <2>10, <2>11
<1> QED
  BY <1>1, Holds, PTL
-----------------------------------------------------------------------------
(* run_all implements ScatterGather *)

LEMMA InitPromised == Init => Promise!Init
<1> SUFFICES ASSUME Init PROVE Promise!Init
  OBVIOUS
<1>1. \A i \in Segs : Fate(i) = "open"
  BY DEF Init, Fate
<1> QED
  BY <1>1 DEF Init, Promise!Init, Promise!Segs, Segs, Promise!NotYet

\* A task that takes a step moves its own fate alone.
LEMMA OwnFate ==
  ASSUME TypeOK, NEW i \in Segs, NEW t, task' = [task EXCEPT ![i] = t]
  PROVE  /\ task'[i] = t
         /\ \A j \in Segs : j # i => task'[j] = task[j] /\ Fate(j)' = Fate(j)
BY DEF TypeOK, Fate

\* A step that decides no fate and does not return is no step of the promise.
LEMMA Unseen ==
  ASSUME \A i \in Segs : Fate(i)' = Fate(i), UNCHANGED <<n, page, total>>,
         loop # "done", loop' # "done"
  PROVE  UNCHANGED Promise!svars
BY DEF Promise!svars

\* A search that is running may still decide its fate.
LEMMA MayDecide ==
  ASSUME IInv, NEW i \in Segs, task[i] \in {"searching", "found"}, NEW f,
         Fate(i)' = f, \A j \in Segs : j # i => Fate(j)' = Fate(j), loop' = loop, n' = n
  PROVE  Promise!Decide(i, f) /\ UNCHANGED (IF loop = "done" THEN Range(parts) ELSE {0})
<1>1. i <= n /\ i < next
  BY ExecutorAssumption DEF IInv, TypeOK, LaunchInv, Segs
<1>2. \A j \in Segs : j < i => task[j] # "skipped"
  BY <1>1 DEF IInv, StopInv
<1>3. Fate(i) = "open" /\ \A j \in 1..(i - 1) : j \in Segs /\ Fate(j) # "skipped"
  BY <1>2, ExecutorAssumption DEF Fate, Segs
<1>4. loop # "done"
  BY DEF IInv, PartInv, Holders
<1> QED
  BY <1>1, <1>3, <1>4 DEF Promise!Decide, Promise!Segs, Segs

LEMMA ReturnPromised ==
  ASSUME IInv, Return \/ ReturnEmpty
  PROVE  Promise!Return
<1>1. /\ chan = << >> /\ Holders = {} /\ next = n + 1 /\ loop \in {"start", "drain"}
      /\ loop' = "done" /\ UNCHANGED <<task, parts, n, page, total>>
  <2>1. CASE Return
    BY <2>1 DEF Return, Goto, IInv, LaunchInv, args
  <2>2. CASE ReturnEmpty
    <3>1. loop = "start" /\ n = 0 /\ next = 1
      BY <2>2 DEF ReturnEmpty, IInv, LaunchInv
    <3>2. \A i \in Segs : task[i] = "none"
      BY <3>1 DEF IInv, LaunchInv, Segs
    <3> QED
      BY <2>2, <3>1, <3>2 DEF ReturnEmpty, Goto, IInv, PartInv, Holders, args
  <2> QED
    BY <2>1, <2>2
<1>2. Range(parts) = {i \in 1..n : task[i] # "panicked"}
  BY <1>1, AnswerIsComplete
<1>3. \A i \in 1..n : i \in Segs /\ Fate(i) # "open" /\ (Fate(i) = "lost" <=> task[i] = "panicked")
  <2>1. \A i \in 1..n : i \in Segs /\ task[i] \in TaskSteps /\ task[i] # "none"
    BY <1>1, ExecutorAssumption DEF IInv, TypeOK, LaunchInv, Segs
  <2>2. \A i \in 1..n : task[i] \notin {"searching", "found", "counted", "sent"}
    BY <1>1, <2>1 DEF Holders
  <2> QED
    BY <2>1, <2>2 DEF Fate, TaskSteps
<1>4. \A i \in Segs : Fate(i)' = Fate(i)
  BY <1>1 DEF Fate
<1> QED
  BY <1>1, <1>2, <1>3, <1>4 DEF Promise!Return, Promise!NotYet, Promise!Segs, Segs

LEMMA SkipPromised ==
  ASSUME IInv, Skip
  PROVE  \E i \in Segs : Promise!Skip(i)
<1>1. PICK i \in Segs : i = next
  BY NextInput DEF Skip
<1>2. /\ i <= n /\ task[i] = "none" /\ total >= page /\ loop = "check" /\ loop' = "check"
      /\ task' = [task EXCEPT ![i] = "skipped"] /\ UNCHANGED <<n, page, total>>
  BY <1>1, NextInput DEF Skip, args
<1>3. Fate(i)' = "skipped" /\ \A j \in Segs : j # i => Fate(j)' = Fate(j)
  BY <1>2, OwnFate DEF IInv, Fate
<1>4. Fate(i) = "open" /\ \A j \in (i + 1)..n : j \in Segs /\ Fate(j) = "open"
  BY <1>1, <1>2, ExecutorAssumption DEF IInv, TypeOK, LaunchInv, Fate, Segs
<1>5. Promise!Skip(i)
  BY <1>2, <1>3, <1>4 DEF Promise!Skip, Promise!Segs, Segs
<1> QED
  BY <1>5

LEMMA StepPromised == IInv /\ [Next]_vars => [Promise!Next]_(Promise!svars)
<1> SUFFICES ASSUME IInv, [Next]_vars PROVE Promise!Next \/ UNCHANGED Promise!svars
  OBVIOUS
<1>0. TypeOK
  BY DEF IInv
<1>1. CASE Quiet \/ Collect \/ Drop
  <2>1. CASE Return \/ ReturnEmpty
    BY <2>1, ReturnPromised DEF Promise!Next
  <2>2. CASE Start \/ NotFull \/ Saturate \/ Close \/ Deadline \/ Collect \/ Drop
    <3>1. UNCHANGED <<task, n, page, total>> /\ loop # "done" /\ loop' # "done"
      BY <2>2 DEF Start, NotFull, Saturate, Close, Deadline, Collect, Drop, Goto, args
    <3> QED
      BY <3>1, Unseen DEF Fate
  <2> QED
    BY <1>1, <2>1, <2>2 DEF Quiet
<1>2. CASE Launching
  <2>1. /\ next \in Segs /\ task[next] = "none" /\ loop # "done" /\ loop' # "done"
        /\ task' = [task EXCEPT ![next] = "searching"] /\ UNCHANGED <<n, page, total>>
    BY <1>2, LaunchStep, NextInput
  <2>2. \A j \in Segs : Fate(j)' = Fate(j)
    BY <1>0, <2>1, OwnFate DEF Fate
  <2> QED
    BY <2>1, <2>2, Unseen
<1>3. CASE Skip
  BY <1>3, SkipPromised DEF Promise!Next, Promise!Segs, Segs
<1>4. ASSUME NEW i \in Segs, Found(i) \/ Send(i) \/ End(i) PROVE UNCHANGED Promise!svars
  <2>1. /\ i \in Holders /\ UNCHANGED <<n, page, total, loop>>
        /\ \/ task[i] = "searching" /\ task' = [task EXCEPT ![i] = "found"]
           \/ task[i] = "counted" /\ task' = [task EXCEPT ![i] = "sent"]
           \/ task[i] = "sent" /\ task' = [task EXCEPT ![i] = "ended"]
    BY <1>4 DEF Found, Send, End, Step, Holders, args
  <2>2. \A j \in Segs : Fate(j)' = Fate(j)
    BY <1>0, <2>1, OwnFate DEF Fate
  <2>3. loop # "done"
    BY <2>1 DEF IInv, PartInv
  <2> QED
    BY <2>1, <2>2, <2>3, Unseen
<1>5. ASSUME NEW i \in Segs, Count(i) PROVE Promise!Next
  <2>1. /\ task[i] = "found" /\ task' = [task EXCEPT ![i] = "counted"]
        /\ total' = total + hits[i] /\ UNCHANGED <<n, page, loop, parts>>
    BY <1>5 DEF Count, Step, args
  <2>2. Fate(i)' = "searched" /\ \A j \in Segs : j # i => Fate(j)' = Fate(j)
    BY <1>0, <2>1, OwnFate DEF Fate
  <2>3. Promise!Search(i, hits[i])
    BY <2>1, <2>2, MayDecide DEF Promise!Search
  <2>4. hits[i] \in 0..MaxHits
    BY <1>0 DEF TypeOK
  <2> QED
    BY <2>3, <2>4 DEF Promise!Next, Promise!Segs, Segs
<1>6. ASSUME NEW i \in Segs, Panic(i) PROVE Promise!Next
  <2>1. /\ task[i] = "searching" /\ task' = [task EXCEPT ![i] = "panicked"]
        /\ UNCHANGED <<n, page, total, loop, parts>>
    BY <1>6 DEF Panic, Step, args
  <2>2. Fate(i)' = "lost" /\ \A j \in Segs : j # i => Fate(j)' = Fate(j)
    BY <1>0, <2>1, OwnFate DEF Fate
  <2>3. Promise!Lose(i)
    BY <2>1, <2>2, MayDecide DEF Promise!Lose
  <2> QED
    BY <2>3 DEF Promise!Next, Promise!Segs, Segs
<1>7. CASE UNCHANGED vars
  BY <1>7 DEF vars, Promise!svars, Fate
<1> QED
  BY <1>1, <1>2, <1>3, <1>4, <1>5, <1>6, <1>7, Steps

\* run_all with its semaphore, channel, tasks and timer is an implementation of
\* ScatterGather: one fate for each segment, a skipped tail only with a full
\* page, and an answer when no fate is open.
THEOREM ImplementsPromise == Spec => Implements
<1>1. Spec => Init /\ [][Next]_vars
  BY PTL DEF Spec
<1> QED
  BY <1>1, Holds, InitPromised, StepPromised, PTL DEF Implements, Promise!Spec
=============================================================================
