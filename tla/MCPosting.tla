----------------------------- MODULE MCPosting -----------------------------
(* The instance of Posting that TLC checks. *)
EXTENDS Posting, TLC
Symmetry == Permutations(Requests) \cup Permutations(Workers)

(* Not followed beyond the second cause of collisions. *)
Apart == Cardinality(harm) <= 1
=============================================================================
