------------------------------ MODULE MCHotMem ------------------------------
(* A small instance of HotMem. *)
EXTENDS HotMem, TLC

\* Calls and keys are interchangeable.
Symmetry == Permutations(Requests) \cup Permutations(Keys)

\* One iteration of the loop of hot.rs:76-92 on a window of ids.
PushOne(w) ==
  LET g == Append(w, Len(w))
  IN  IF Len(g) > Cap THEN Tail(g) ELSE g

PushMany[n \in 0..2 * MaxBatch] ==
  IF n = 0 THEN << >> ELSE PushOne(PushMany[n - 1])

\* Batch and KeepNewest give in closed form what the loop computes document by
\* document, here for the ids of n documents pushed into an empty window.
ASSUME ClosedFormIsLoop ==
  \A n \in 0..2 * MaxBatch :
    KeepNewest([i \in 1..n |-> Smaller(i - 1, Cap)]) = PushMany[n]
=============================================================================
