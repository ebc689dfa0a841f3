--------------------------- MODULE MCCommitSeries ---------------------------
(* The instance of CommitSeries that TLC checks. *)
EXTENDS CommitSeries, TLC
Symmetry == Permutations(Paths) \cup Permutations(Blobs)
=============================================================================
