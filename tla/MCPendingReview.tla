---------------------------- MODULE MCPendingReview ----------------------------
(***************************************************************************)
(* PendingReview with two or three reviews.  A behaviour is not followed   *)
(* past the first state in which requests have met in a way that the       *)
(* constraint leaves out; that state is checked.                           *)
(***************************************************************************)
EXTENDS PendingReview, TLC

Text   == {[shipIt |-> FALSE, top |-> TRUE]}

CONSTANTS v1, v2, v3

None  == {<<>>}
Three == {<<>>, <<v1, v2>>, <<v1, v2, v3>>}

(* Many reviews: consolidations are met only by requests that save.        *)
Many == collisions \subseteq {{"fix", "save"}}

(* Two reviews and one comment: requests meet in every way that loses no   *)
(* comment.                                                                *)
Few == /\ reviews[v3] = Unborn
       /\ Cardinality(comments \cup owed) <= 1
       /\ ~Met(Losing)

Unharmed == Many \/ Few

Symmetry == Permutations(Workers) \cup Permutations(Comments)
===============================================================================
