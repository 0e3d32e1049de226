------------------------------ MODULE MCPaging ------------------------------
(* Small instances of Paging. *)
EXTENDS Paging

\* Documents 1 of both segments are the same document, posted twice; document 0
\* of the first one is still in the hot window.
MCExt == [x \in (1..2) \X (0..2) |-> IF x[2] = 1 THEN 1 ELSE 10 * x[1] + x[2]]
\* The prefilter returns all documents, any of which may verify, or leaves a gap.
MCShapes == ({0..2} \X SUBSET (0..2)) \cup {<<{0, 2}, {0, 2}>>}
\* Two segments side by side; one that replaces the other, as an ingest does it.
MCHistories == {<<{1, 2}>>, <<{1}, {2}>>}
MCHot == {<< >>, <<[seg |-> 0, doc |-> 0, ext |-> 10]>>}
\* Segments whose documents all match, and have ext_ids of their own.
MCOwnExt == [x \in (1..2) \X (0..2) |-> 10 * x[1] + x[2]]
MCAllMatch == {<<{0, 1, 2}, {0, 1, 2}>>}
MCNoHot == {<< >>}
=============================================================================
