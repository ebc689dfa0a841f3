-------------------------- MODULE MCStatusUpdates --------------------------
(* The instance of StatusUpdates that TLC checks. *)
EXTENDS StatusUpdates, TLC
Reported == {"done-success", "error"}
Symmetry == Permutations(Workers)
=============================================================================
