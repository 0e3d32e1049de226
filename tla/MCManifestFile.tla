--------------------------- MODULE MCManifestFile ---------------------------
(* Small instances of ManifestFile. *)
EXTENDS ManifestFile, TLC

\* Appends and paths are interchangeable.
Symmetry == Permutations(Appenders) \cup Permutations(Paths)
=============================================================================
