------------------------ MODULE MCReviewRequestPage ------------------------
(* The instance of ReviewRequestPage that TLC checks. *)
EXTENDS ReviewRequestPage
SomeRows == [state : {"pending", "error"}, stamp : {0},
             timed : {TRUE}, retry : {TRUE}]

(* Polls overlap within the first second; a page on which polls have       *)
(* overlapped is not followed beyond it.                                   *)
OverlapEarly == NeverMissed({"overlap"}) \/ now <= 2
=============================================================================
