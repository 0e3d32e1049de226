---------------------------- MODULE ScatterGather ----------------------------
(***************************************************************************)
(* What ParallelExecutor::run_all promises to the coordinator, without its  *)
(* semaphore, channel, tokens and threads (crates/broker/src/search/        *)
(* executor.rs): every input segment gets exactly one fate; inputs may be   *)
(* skipped only once the page is full, and then it is always a tail of the  *)
(* launch order that is skipped; the answer comes when no fate is open and  *)
(* holds a part of every input that was not lost to a panic.               *)
(***************************************************************************)
EXTENDS Integers

CONSTANTS
  MaxInputs,  \* bound: segments of one search
  MaxHits,    \* bound: hits of one segment
  Pages       \* the page sizes

VARIABLES
  n,          \* the number of inputs
  page,       \* page_size
  fate,       \* of each input
  total,      \* hits found so far
  answer      \* the inputs whose parts were returned; NotYet before

svars == <<n, page, fate, total, answer>>

Segs == 1..MaxInputs
NotYet == {0}

Init ==
  /\ n \in 0..MaxInputs /\ page \in Pages
  /\ fate = [i \in Segs |-> "open"]
  /\ total = 0 /\ answer = NotYet

Decide(i, f) ==
  /\ i <= n /\ fate[i] = "open"
  /\ \A j \in 1..(i - 1) : fate[j] # "skipped"
  /\ fate' = [fate EXCEPT ![i] = f]

\* A search ends, with the hits of its segment or with none after an error.
Search(i, h) ==
  /\ Decide(i, "searched")
  /\ total' = total + h
  /\ UNCHANGED <<n, page, answer>>

\* A search panics: its part is never sent.
Lose(i) ==
  /\ Decide(i, "lost")
  /\ UNCHANGED <<n, page, total, answer>>

\* The page is full before input i is launched: neither it nor a later one is
\* searched.
Skip(i) ==
  /\ i <= n /\ fate[i] = "open" /\ total >= page
  /\ \A j \in (i + 1)..n : fate[j] = "open"
  /\ fate' = [fate EXCEPT ![i] = "skipped"]
  /\ UNCHANGED <<n, page, total, answer>>

Return ==
  /\ answer = NotYet
  /\ \A i \in 1..n : fate[i] # "open"
  /\ answer' = {i \in 1..n : fate[i] # "lost"}
  /\ UNCHANGED <<n, page, fate, total>>

Next ==
  \/ \E i \in Segs : Lose(i) \/ Skip(i) \/ \E h \in 0..MaxHits : Search(i, h)
  \/ Return

Spec == Init /\ [][Next]_svars
=============================================================================
