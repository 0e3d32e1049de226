------------------------------ MODULE Executor ------------------------------
(***************************************************************************)
(* ParallelExecutor::run_all, crates/broker/src/search/executor.rs: one     *)
(* search scatters over its segments.  A loop launches a task per input,    *)
(* in order, each holding a permit of a semaphore; tasks add their hits to   *)
(* a counter and send one part into a channel; after the loop the parts are *)
(* collected until every sender is gone.  The future may be dropped when    *)
(* the client leaves; the tasks it spawned run on.  The cancellation tokens  *)
(* are left out: the only search_fn of the program, search_one_segment,     *)
(* never looks at its token (storage_adapter.rs:17).                        *)
(***************************************************************************)
EXTENDS Integers, Sequences, FiniteSets, Functions

CONSTANTS
  MaxInputs,    \* bound: inputs
  MaxHits,      \* bound: hits of one segment
  Pages,        \* values of page_size
  Parallelisms  \* values of limits.parallelism

ASSUME ExecutorAssumption ==
  /\ MaxInputs \in Nat /\ MaxHits \in Nat
  /\ Pages \subseteq Nat /\ Parallelisms \subseteq Nat

VARIABLES
  n, page, deadline,  \* the arguments: inputs.len(), page_size, deadline.is_some()
  permits,    \* the size of the semaphore
  free,       \* permits not taken
  loop,       \* where the future of run_all stands
  next,       \* the input the launch loop is at
  task,       \* the task of each input
  hits,       \* what its search found
  total,      \* total_hits
  saturated,  \* saturated_sem
  chan,       \* parts sent and not yet collected
  parts,      \* parts collected
  hit,        \* deadline_hit
  late        \* history: tasks launched with the page already full

vars == <<n, page, deadline, permits, free, loop, next, task, hits, total,
          saturated, chan, parts, hit, late>>

Segs == 1..MaxInputs

LoopSteps == {"start", "check", "acquire", "wait", "drain", "done", "dropped"}

\* A task: searching, found (the search returned), counted, sent (the permit
\* still held), ended; or panicked; or never started, skipped.
TaskSteps == {"none", "searching", "found", "counted", "sent", "ended",
              "panicked", "skipped"}

Holders == {i \in Segs : task[i] \in {"searching", "found", "counted", "sent"}}

TypeOK ==
  /\ n \in 0..MaxInputs /\ page \in Pages /\ deadline \in BOOLEAN
  /\ permits \in Nat \ {0} /\ free \in 0..permits
  /\ loop \in LoopSteps /\ next \in 1..(n + 1)
  /\ task \in [Segs -> TaskSteps] /\ hits \in [Segs -> 0..MaxHits]
  /\ total \in Nat /\ saturated \in Nat /\ late \in Nat
  /\ chan \in Seq(Segs) /\ parts \in Seq(Segs)
  /\ hit \in BOOLEAN

AtLeastOne(p) == IF p = 0 THEN 1 ELSE p   \* parallelism.max(1)

Init ==
  /\ n \in 0..MaxInputs /\ page \in Pages /\ deadline \in BOOLEAN
  /\ \E p \in Parallelisms : permits = AtLeastOne(p)
  /\ free = permits
  /\ loop = "start" /\ next = 1
  /\ task = [i \in Segs |-> "none"] /\ hits = [i \in Segs |-> 0]
  /\ total = 0 /\ saturated = 0 /\ late = 0
  /\ chan = << >> /\ parts = << >>
  /\ hit = FALSE

args == <<n, page, deadline, permits>>
-----------------------------------------------------------------------------
(* The future of run_all *)

Goto(s) == loop' = s

\* Without inputs the answer is empty and claims the deadline, if there is one.
ReturnEmpty ==
  /\ loop = "start" /\ n = 0
  /\ Goto("done") /\ hit' = deadline
  /\ UNCHANGED <<args, free, next, task, hits, total, saturated, chan, parts, late>>

Start ==
  /\ loop = "start" /\ n > 0
  /\ Goto("check")
  /\ UNCHANGED <<args, free, next, task, hits, total, saturated, chan, parts, hit, late>>

SkipOnDeadline ==   \* mutant: the deadline skips inputs as well
  /\ loop = "check" /\ next <= n /\ (total >= page \/ hit)
  /\ task' = [task EXCEPT ![next] = "skipped"]
  /\ chan' = Append(chan, next)
  /\ next' = next + 1
  /\ UNCHANGED <<args, free, loop, hits, total, saturated, parts, hit, late>>

\* The page is full: an empty part stands for the input.
Skip ==
  /\ loop = "check" /\ next <= n /\ total >= page
  /\ task' = [task EXCEPT ![next] = "skipped"]
  /\ chan' = Append(chan, next)
  /\ next' = next + 1
  /\ UNCHANGED <<args, free, loop, hits, total, saturated, parts, hit, late>>

NeverFull ==   \* mutant: the counter is not looked at
  /\ loop = "check" /\ next <= n
  /\ Goto("acquire")
  /\ UNCHANGED <<args, free, next, task, hits, total, saturated, chan, parts, hit, late>>

NotFull ==
  /\ loop = "check" /\ next <= n /\ total < page
  /\ Goto("acquire")
  /\ UNCHANGED <<args, free, next, task, hits, total, saturated, chan, parts, hit, late>>

\* A task starts with a permit.  The counter is not looked at again.
Launch ==
  /\ free' = free - 1
  /\ task' = [task EXCEPT ![next] = "searching"]
  /\ late' = IF total >= page THEN late + 1 ELSE late
  /\ next' = next + 1
  /\ Goto("check")
  /\ UNCHANGED <<args, hits, total, chan, parts, hit>>

LaunchAnyway ==   \* mutant: no permit asked for
  loop = "acquire" /\ Launch /\ UNCHANGED saturated

\* try_acquire_owned succeeds.
LaunchNow == loop = "acquire" /\ free > 0 /\ Launch /\ UNCHANGED saturated

\* try_acquire_owned fails: wait for a permit.
Saturate ==
  /\ loop = "acquire" /\ free = 0
  /\ saturated' = saturated + 1
  /\ Goto("wait")
  /\ UNCHANGED <<args, free, next, task, hits, total, chan, parts, hit, late>>

LaunchWaited == loop = "wait" /\ free > 0 /\ Launch /\ UNCHANGED saturated

\* drop(tx): the loop is over.
Close ==
  /\ loop = "check" /\ next > n
  /\ Goto("drain")
  /\ UNCHANGED <<args, free, next, task, hits, total, saturated, chan, parts, hit, late>>

Collect ==
  /\ loop = "drain" /\ chan # << >>
  /\ parts' = Append(parts, Head(chan))
  /\ chan' = Tail(chan)
  /\ UNCHANGED <<args, free, loop, next, task, hits, total, saturated, hit, late>>

ReturnEarly ==   \* mutant: the drain ends when the channel is empty
  /\ loop = "drain" /\ chan = << >>
  /\ Goto("done")
  /\ UNCHANGED <<args, free, next, task, hits, total, saturated, chan, parts, hit, late>>

\* recv answers None: the channel is empty and no task holds a sender.
Return ==
  /\ loop = "drain" /\ chan = << >> /\ Holders = {}
  /\ Goto("done")
  /\ UNCHANGED <<args, free, next, task, hits, total, saturated, chan, parts, hit, late>>

\* The client leaves: the future is dropped at an await, and with it the
\* receiver.
Drop ==
  /\ loop \in {"wait", "drain"}
  /\ Goto("dropped") /\ chan' = << >>
  /\ UNCHANGED <<args, free, next, task, hits, total, saturated, parts, hit, late>>
-----------------------------------------------------------------------------
(* The spawned tasks and the timer *)

Step(i, from, to) == task[i] = from /\ task' = [task EXCEPT ![i] = to]

\* search_fn returns: some hits, or an error, which counts as none.
Found(i) ==
  /\ Step(i, "searching", "found")
  /\ \E h \in 0..MaxHits : hits' = [hits EXCEPT ![i] = h]
  /\ UNCHANGED <<args, free, loop, next, total, saturated, chan, parts, hit, late>>

PanicKeepsPermit(i) ==   \* mutant: the permit is given back by hand, at the end
  /\ Step(i, "searching", "panicked")
  /\ UNCHANGED <<args, free, loop, next, hits, total, saturated, chan, parts, hit, late>>

\* search_fn panics and unwinds: the guards give back the permit and the sender.
\* So it is in builds of the dev and test profiles; the release profile aborts
\* the process instead (panic = "abort", Cargo.toml), which ends this model.
Panic(i) ==
  /\ Step(i, "searching", "panicked")
  /\ free' = free + 1
  /\ UNCHANGED <<args, loop, next, hits, total, saturated, chan, parts, hit, late>>

\* fetch_add.  (A task that finds the page full then cancels its own token, which
\* nothing else holds.)
Count(i) ==
  /\ Step(i, "found", "counted")
  /\ total' = total + hits[i]
  /\ UNCHANGED <<args, free, loop, next, hits, saturated, chan, parts, hit, late>>

\* The part goes to the receiver, if there still is one.
Send(i) ==
  /\ Step(i, "counted", "sent")
  /\ chan' = IF loop = "dropped" THEN chan ELSE Append(chan, i)
  /\ UNCHANGED <<args, free, loop, next, hits, total, saturated, parts, hit, late>>

\* The end of the task gives back the permit and drops the sender.
End(i) ==
  /\ Step(i, "sent", "ended")
  /\ free' = free + 1
  /\ UNCHANGED <<args, loop, next, hits, total, saturated, chan, parts, hit, late>>

\* The timer sets the flag (and cancels merged_ct); after run_all has returned
\* the flag, that changes nothing.
Deadline ==
  /\ deadline /\ ~hit /\ loop \notin {"start", "done", "dropped"}
  /\ hit' = TRUE
  /\ UNCHANGED <<args, free, loop, next, task, hits, total, saturated, chan, parts, late>>

RunAll ==
  \/ ReturnEmpty \/ Start \/ Skip \/ NotFull \/ LaunchNow \/ Saturate
  \/ LaunchWaited \/ Close \/ Collect \/ Return

Task(i) == Found(i) \/ Panic(i) \/ Count(i) \/ Send(i) \/ End(i)

Next == RunAll \/ Drop \/ Deadline \/ \E i \in Segs : Task(i)

\* The runtime polls what is ready, and a search of a segment ends.
Fairness == WF_vars(RunAll) /\ \A i \in Segs : WF_vars(Task(i))

Spec == Init /\ [][Next]_vars /\ Fairness
-----------------------------------------------------------------------------
(* Properties *)

\* The sum of a number for each segment, added up in their order.
Total(w) ==
  LET sum[k \in 0..MaxInputs] == IF k = 0 THEN 0 ELSE sum[k - 1] + w[k]
  IN sum[MaxInputs]

\* The hits of the segments of S.
HitsOf(S) == Total([i \in Segs |-> IF i \in S THEN hits[i] ELSE 0])

\* Every permit is free or held by one live task, whatever panics or is
\* dropped: no leak starves the loop, and no more searches run at once than the
\* limit says (executor.rs:138-159).
PermitsConserved == free + Cardinality(Holders) = permits

\* At the end there is exactly one part for every input, in whatever order they
\* came, but for those whose search panicked (executor.rs:133-136, 175-185).
OnePartEach ==
  loop = "done" =>
    /\ \A i, j \in 1..Len(parts) : parts[i] = parts[j] => i = j
    /\ Range(parts) = {i \in 1..n : task[i] # "panicked"}

\* If a segment was skipped, so were all after it, and the parts of the segments
\* before it, which are all in the answer, hold a full page (executor.rs:132-136).
\* Paging takes pages to be like this.
SkippedOnlyWhenFull ==
  loop = "done" =>
    \A i \in 1..n : task[i] = "skipped" =>
      /\ \A j \in i..n : task[j] = "skipped"
      /\ HitsOf({j \in Range(parts) : j < i}) >= page

\* After the page is full at most one more segment is searched: the one the
\* loop was waiting for a permit for (executor.rs:133-155, the counter is read
\* before the await and not after it).
AtMostOneLate == late <= 1

\* Every search is answered unless its client left, and even then every task it
\* started ends and gives back its permit.
Finishes == <>[](loop \in {"done", "dropped"} /\ Holders = {} /\ free = permits)

\* The parts, counters and fates are those of ScatterGather.
Fate(i) ==
  IF task[i] = "skipped" THEN "skipped"
  ELSE IF task[i] = "panicked" THEN "lost"
  ELSE IF task[i] \in {"counted", "sent", "ended"} THEN "searched"
  ELSE "open"

Promise == INSTANCE ScatterGather WITH
  fate <- [i \in Segs |-> Fate(i)],
  answer <- IF loop = "done" THEN Range(parts) ELSE {0}

Implements == Promise!Spec
=============================================================================
