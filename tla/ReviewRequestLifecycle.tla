------------------------ MODULE ReviewRequestLifecycle ------------------------
(***************************************************************************)
(* What the lifecycle of a review request promises, with the drafts, the   *)
(* reviewers and the counters left out: a review request is absent,        *)
(* pending, submitted or discarded, and public or not, and only some       *)
(* passages between those are allowed.  The module ReviewRequest           *)
(* implements it.                                                          *)
(***************************************************************************)
CONSTANTS
  Requests,   \* identities of review requests
  Absent      \* the life of a review request that is not in the database

VARIABLE
  life        \* [Requests -> a status and a public flag, or Absent]

Pending   == "P"
Submitted == "S"
Discarded == "D"

Become(r, s, p) == life' = [life EXCEPT ![r] = [status |-> s, public |-> p]]

Init == life = [r \in Requests |-> Absent]

(* ReviewRequestManager.create: pending and private.                       *)
Create(r) == life[r] = Absent /\ Become(r, Pending, FALSE)

(* ReviewRequest.publish: public, whatever the status.                     *)
Publish(r) == life[r] # Absent /\ Become(r, life[r].status, TRUE)

(* ReviewRequest.close as submitted: never without having been published.  *)
Submit(r) ==
  /\ life[r] # Absent
  /\ life[r].public
  /\ Become(r, Submitted, TRUE)

(* ReviewRequest.close as discarded, also of what nobody has seen.         *)
Discard(r) == life[r] # Absent /\ Become(r, Discarded, life[r].public)

(* ReviewRequest.reopen: what was discarded must be published again.       *)
Reopen(r) ==
  /\ life[r] # Absent
  /\ life[r].status # Pending
  /\ Become(r, Pending, life[r].public /\ life[r].status # Discarded)

(* ReviewRequest.delete.                                                   *)
Delete(r) == life[r] # Absent /\ life' = [life EXCEPT ![r] = Absent]

Next ==
  \E r \in Requests :
    Create(r) \/ Publish(r) \/ Submit(r) \/ Discard(r) \/ Reopen(r) \/ Delete(r)

Spec == Init /\ [][Next]_life

(* Nothing is submitted that was not public first                          *)
(* (ReviewRequest.close raises PublishError).                              *)
SubmittedWasPublic ==
  \A r \in Requests :
    (life[r] # Absent /\ life[r].status = Submitted) => life[r].public
===============================================================================
