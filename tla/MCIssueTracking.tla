---------------------------- MODULE MCIssueTracking ----------------------------
(***************************************************************************)
(* IssueTracking with one or two comments, each in a review of its own,    *)
(* one of them needing verification.                                       *)
(***************************************************************************)
EXTENDS IssueTracking, TLC

CONSTANTS v1, v2, c1, c2

Drafts == c1 :> v1 @@ c2 :> v2

(* Nothing is promised once requests have collided in another way than on  *)
(* one issue; the state in which they do is checked.  MaxDrift bounds how  *)
(* far toggles of one issue can move a counter.  The issues of comments    *)
(* without verification are only opened and resolved, and the right to     *)
(* verify is only used where it is asked for.  Once a worker has died with *)
(* something uncounted, requests are followed one at a time, and not past  *)
(* another cause of wrong counters.                                        *)
CONSTANT MaxDrift

Simple == {Open, Resolved, NoStatus}

Bounded ==
  /\ "other" \notin conflicts
  /\ conflicts \cap {"issues", "shipIt"} # {} =>
       /\ "toggle" \notin conflicts
       /\ \A x, y \in Workers : Busy(x) /\ Busy(y) => x = y
  /\ \A k \in Counters : counts[k] \in -MaxDrift..(2 + MaxDrift)
  /\ \A c \in Comments \ Guarded : comments[c].status \in Simple
  /\ \A w \in Workers : Busy(w) =>
       /\ worker[w].com \in Guarded \/ worker[w].issue.status \in Simple
       /\ worker[w].verifier =>
            worker[w].com \in Guarded /\ worker[w].issue.status \in Closed

Symmetry == Permutations(Workers)
===============================================================================
