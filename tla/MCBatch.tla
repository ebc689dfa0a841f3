------------------------------ MODULE MCBatch ------------------------------
(* The instance of Batch that TLC checks: two review requests, and two     *)
(* reviews about the first.                                                *)
EXTENDS Batch, TLC
CONSTANTS r1, r2, v1, v2
AboutThem == v1 :> r1 @@ v2 :> r1
Symmetry == Permutations(Batches)

(* Nothing met yet. *)
Unmet == Without({"met"})

(* At most one thing went wrong, all drafts name reviewers, nothing was    *)
(* refused for a draft that did not, and no first publication was refused. *)
Apart ==
  /\ Cardinality(harm) <= 1
  /\ stripped = {}
  /\ \A r \in ReviewRequests :
       /\ rr[r].draft # NoDraft => rr[r].named
       /\ rr[r].reviewers => rr[r].public

(* What is followed: everything until requests meet, and beyond that what  *)
(* harms by itself.                                                        *)
Followed == Unmet \/ Apart
=============================================================================
