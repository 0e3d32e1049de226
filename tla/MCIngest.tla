------------------------------ MODULE MCIngest ------------------------------
(* Small instances of Ingest. *)
EXTENDS Ingest, TLC

\* Requests are interchangeable.
Symmetry == Permutations(Requests)

Begun == {r \in Requests : pc[r] # "idle"}

\* Bound: at most one of the requests comes without a key, and no other is empty.
FewBatches ==
  /\ Cardinality({r \in Begun : key[r] = NoKey}) <= 1
  /\ \A r \in Begun : key[r] # NoKey => size[r] > 0
=============================================================================
