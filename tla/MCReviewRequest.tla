---------------------------- MODULE MCReviewRequest ----------------------------
(***************************************************************************)
(* ReviewRequest on small instances.  A behaviour is not followed past its *)
(* first drift, which keeps the counters bounded; the state in which the   *)
(* drift appears is checked.  What the counters that have not drifted are  *)
(* worth after that is proved in ReviewRequest_proofs.                     *)
(***************************************************************************)
EXTENDS ReviewRequest, TLC

NoDrift == drift = {}

Symmetry == Permutations(Users)
===============================================================================
