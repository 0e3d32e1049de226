------------------------------- MODULE Sorted -------------------------------
(***************************************************************************)
(* A finite set of naturals in ascending order: doc_ids as a RoaringBitmap  *)
(* iterates over them (storage_adapter.rs:58), keys and postings after      *)
(* sort_unstable (v2/writer.rs:90-92, 117).                                 *)
(***************************************************************************)
EXTENDS Integers, FiniteSets

\* How many members of S are not beyond d.
Upto(S, d) == Cardinality({x \in S : x <= d})

\* The i-th member of S.
Nth(S, i) == CHOOSE d \in S : Upto(S, d) = i

Ascending(S) == [i \in 1..Cardinality(S) |-> Nth(S, i)]
=============================================================================
