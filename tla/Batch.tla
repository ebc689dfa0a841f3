------------------------------- MODULE Batch -------------------------------
(***************************************************************************)
(* Publishing drafts of review requests and reviews together, as the       *)
(* banner of a review request page does (reviews/views/batch.py): all is   *)
(* checked first, then one publication follows another, and one e-mail for *)
(* each review request ends the batch.  A failing publication ends it too. *)
(*                                                                         *)
(* Batches are served concurrently; a step is one publication.  A batch    *)
(* holds the drafts that it loaded.  Publishing a single thing is the      *)
(* batch of one.  All reviews are by one user, who may publish everything. *)
(***************************************************************************)
EXTENDS Naturals, Sequences, FiniteSets, SequencesExt

CONSTANTS
  ReviewRequests,
  Reviews,
  About,      \* the review request that a review is about
  Batches,    \* the batches that may be under way at the same time
  Idle,       \* a batch that is not under way
  MaxDrafts   \* bound on the drafts ever made

VARIABLES
  rr,         \* the table of review requests, each with its draft
  review,     \* the table of reviews
  drafts,     \* how many drafts were ever made
  batch,      \* what each batch is doing
  answer,     \* the last answer given, with what was really published
  unsent,     \* publications of which no e-mail has been sent yet
  harm,       \* history: how batches were disturbed, or what they did wrong
  stripped    \* history: the review requests that a draft without reviewers,
              \* which was refused, has left without any

vars == <<rr, review, drafts, batch, answer, unsent, harm, stripped>>

Items == ReviewRequests \cup Reviews
Contents == {"text", "comment on a draft"}
Draft == [id : 0..MaxDrafts, complete : BOOLEAN]
NoDraft == [id |-> 0, complete |-> FALSE]
(* reviewers: whether there are any; named: whether the draft names any *)
RowOfRequest ==
  [public : BOOLEAN, reviewers : BOOLEAN, draft : Draft, named : BOOLEAN]
RowOfReview == [public : BOOLEAN, content : SUBSET Contents]
Stats == {"none", "ok", "mixed", "fail"}
Harms == {"met", "partial", "empty", "twice"}

Underway == [asked : SUBSET Items, done : SUBSET Items, todo : Seq(Items),
             held : UNION {[rs -> Draft] : rs \in SUBSET ReviewRequests},
             quiet : BOOLEAN, trivial : BOOLEAN]

ASSUME BatchAssumption ==
  /\ IsFiniteSet(ReviewRequests) /\ IsFiniteSet(Reviews)
  /\ ReviewRequests \cap Reviews = {}
  /\ About \in [Reviews -> ReviewRequests]
  /\ Idle \notin Underway /\ MaxDrafts \in Nat

Init ==
  /\ rr = [r \in ReviewRequests |->
             [public |-> FALSE, reviewers |-> FALSE,
              draft |-> NoDraft, named |-> FALSE]]
  /\ review = [v \in Reviews |-> [public |-> FALSE, content |-> {}]]
  /\ drafts = 0
  /\ batch = [b \in Batches |-> Idle]
  /\ answer = [stat |-> "none", count |-> 0, done |-> {}]
  /\ unsent = {}
  /\ harm = {}
  /\ stripped = {}

Under(b) == batch[b] # Idle
Touched(items) ==
  IF \E b \in Batches : Under(b) /\ batch[b].asked \cap items # {}
    THEN harm \cup {"met"} ELSE harm

(* The API makes or edits a draft.  One without a summary is not complete, *)
(* and it need not name any reviewers.                                     *)
EditDraft(r, complete, named) ==
  LET id == IF rr[r].draft = NoDraft THEN drafts + 1 ELSE rr[r].draft.id IN
  /\ id <= MaxDrafts
  /\ drafts' = IF rr[r].draft = NoDraft THEN id ELSE drafts
  /\ rr' = [rr EXCEPT ![r].draft = [id |-> id, complete |-> complete],
                      ![r].named = named]
  /\ harm' = Touched({r})
  /\ UNCHANGED <<review, batch, answer, unsent, stripped>>

(* Comments on the diff or the files of a draft go with it. *)
DiscardDraft(r) ==
  /\ rr[r].draft # NoDraft
  /\ rr' = [rr EXCEPT ![r].draft = NoDraft, ![r].named = FALSE]
  /\ review' = [v \in Reviews |->
       IF About[v] = r /\ ~review[v].public
         THEN [review[v] EXCEPT !.content = @ \ {"comment on a draft"}]
         ELSE review[v]]
  /\ harm' = Touched({r} \cup {v \in Reviews : About[v] = r})
  /\ UNCHANGED <<drafts, batch, answer, unsent, stripped>>

Write(v, content) ==
  /\ ~review[v].public
  /\ content = "comment on a draft" => rr[About[v]].draft # NoDraft
  /\ review' = [review EXCEPT ![v].content = @ \cup {content}]
  /\ harm' = Touched({v})
  /\ UNCHANGED <<rr, drafts, batch, answer, unsent, stripped>>

CanPublish(v, will) ==
  \/ will
  \/ /\ rr[About[v]].public
     /\ review[v].content # {}
     /\ "comment on a draft" \notin review[v].content

(* A batch begins: its review requests come before its reviews. *)
Queue(requests, reviews) == SetToSeq(requests) \o SetToSeq(reviews)

Begin(b, requests, reviews, todo, trivial) ==
  LET items == requests \cup reviews IN
  /\ batch' = [batch EXCEPT ![b] =
       [asked |-> items, done |-> {}, todo |-> todo,
        held |-> [r \in requests |-> rr[r].draft],
        quiet |-> trivial \/ Cardinality(items) # 1, trivial |-> trivial]]
  /\ harm' = Touched(items)
  /\ UNCHANGED <<rr, review, drafts, answer, unsent, stripped>>

(* A mistake: reviews are published before the review requests. *)
StartReviews(b, requests, reviews, trivial) ==
  /\ ~Under(b) /\ requests \cup reviews # {}
  /\ \A r \in requests : rr[r].draft # NoDraft
  /\ \A v \in reviews :
       ~review[v].public /\ CanPublish(v, About[v] \in requests)
  /\ Begin(b, requests, reviews, SetToSeq(reviews) \o SetToSeq(requests),
           trivial)

(* A mistake: reviews that are public by now may be published again. *)
StartAgain(b, requests, reviews, trivial) ==
  /\ ~Under(b) /\ requests \cup reviews # {}
  /\ \A r \in requests : rr[r].draft # NoDraft
  /\ \A v \in reviews : CanPublish(v, About[v] \in requests)
  /\ Begin(b, requests, reviews, Queue(requests, reviews), trivial)

(* Everything is there to be published; otherwise nothing happens. *)
Start(b, requests, reviews, trivial) ==
  /\ ~Under(b) /\ requests \cup reviews # {}
  /\ \A r \in requests : rr[r].draft # NoDraft
  /\ \A v \in reviews :
       ~review[v].public /\ CanPublish(v, About[v] \in requests)
  /\ Begin(b, requests, reviews, Queue(requests, reviews), trivial)

Current(b) == Head(batch[b].todo)
Turn(b, items) == Under(b) /\ batch[b].todo # <<>> /\ Current(b) \in items

(* The item is published; its e-mail is left to the end of the batch. *)
Published(b, item) ==
  /\ batch' = [batch EXCEPT ![b].todo = Tail(@), ![b].done = @ \cup {item}]
  /\ unsent' = IF batch[b].quiet /\ ~batch[b].trivial
                 THEN unsent \cup {item} ELSE unsent
  /\ UNCHANGED <<drafts, answer>>

(* A mistake: one publication before the failure is overlooked, always. *)
FailedStatLate(b, i) ==
  LET requests == batch[b].asked \cap ReviewRequests IN
  IF Current(b) \in ReviewRequests
    THEN IF i > 1 THEN "mixed" ELSE "fail"
    ELSE IF i > 1 \/ requests # {} THEN "mixed" ELSE "fail"

(* What the answer calls a batch that fails when i reviews, or review      *)
(* requests, have been published before.                                   *)
FailedStat(b, i) ==
  LET requests == batch[b].asked \cap ReviewRequests IN
  IF Current(b) \in ReviewRequests
    THEN IF i >= 1 THEN "mixed" ELSE "fail"
    ELSE IF i > 1 \/ requests # {} THEN "mixed" ELSE "fail"

Fails(b) ==
  LET kind == IF Current(b) \in ReviewRequests THEN ReviewRequests ELSE Reviews
      i == Cardinality(batch[b].done \cap kind)
      before == IF kind = Reviews
                  THEN Cardinality(batch[b].asked \cap ReviewRequests) ELSE 0
  IN
  /\ answer' = [stat |-> FailedStat(b, i), count |-> before + i,
                 done |-> batch[b].done]
  /\ batch' = [batch EXCEPT ![b] = Idle]
  /\ UNCHANGED <<drafts, unsent>>

HasHeld(b, r) == rr[r].draft.id = batch[b].held[r].id

(* The reviewers are asked of the draft as it is in the database by now.   *)
PublishRequest(b) ==
  LET r == Current(b) IN
  /\ Turn(b, ReviewRequests)
  /\ HasHeld(b, r) /\ rr[r].named /\ batch[b].held[r].complete
  /\ rr' = [rr EXCEPT ![r] = [public |-> TRUE, reviewers |-> TRUE,
                              draft |-> NoDraft, named |-> FALSE]]
  /\ review' = [v \in Reviews |->
       IF About[v] = r /\ "comment on a draft" \in review[v].content
         THEN [review[v] EXCEPT !.content = {"text"}] ELSE review[v]]
  /\ Published(b, r)
  /\ stripped' = stripped \ {r}
  /\ UNCHANGED harm

(* A draft without reviewers or without a summary is refused after the     *)
(* review request was given its reviewers; one that has gone names none.   *)
RefuseRequest(b) ==
  LET r == Current(b)
      named == HasHeld(b, r) /\ rr[r].named
  IN
  /\ Turn(b, ReviewRequests)
  /\ ~named \/ ~batch[b].held[r].complete
  /\ rr' = [rr EXCEPT ![r].reviewers = named]
  /\ stripped' = IF HasHeld(b, r) /\ ~named THEN stripped \cup {r}
                                           ELSE stripped \ {r}
  /\ Fails(b)
  /\ harm' = IF batch[b].done # {} THEN harm \cup {"partial"} ELSE harm
  /\ UNCHANGED review

PublishReview(b) ==
  LET v == Current(b) IN
  /\ Turn(b, Reviews)
  /\ CanPublish(v, About[v] \in batch[b].asked)
  /\ review' = [review EXCEPT ![v].public = TRUE]
  /\ Published(b, v)
  /\ harm' = harm
       \cup (IF review[v].public THEN {"twice"} ELSE {})
       \cup (IF review[v].content = {} THEN {"empty"} ELSE {})
  /\ UNCHANGED <<rr, stripped>>

(* Besides what it checks, a publication may be refused by an extension. *)
RefuseReview(b) ==
  /\ Turn(b, Reviews)
  /\ Fails(b)
  /\ harm' = IF batch[b].done # {} THEN harm \cup {"partial"} ELSE harm
  /\ UNCHANGED <<rr, review, stripped>>

(* A mistake: reviews of review requests that were not asked for are left  *)
(* out of the e-mails.                                                     *)
FinishRequests(b) ==
  /\ Under(b) /\ batch[b].todo = <<>>
  /\ unsent' = IF batch[b].quiet
                 THEN unsent \ (batch[b].done \cap ReviewRequests) ELSE unsent
  /\ answer' = [stat |-> "ok", count |-> Cardinality(batch[b].asked),
                 done |-> batch[b].done]
  /\ batch' = [batch EXCEPT ![b] = Idle]
  /\ UNCHANGED <<rr, review, drafts, harm, stripped>>

(* One e-mail for each review request about which there is something new. *)
Finish(b) ==
  /\ Under(b) /\ batch[b].todo = <<>>
  /\ unsent' = IF batch[b].quiet THEN unsent \ batch[b].done ELSE unsent
  /\ answer' = [stat |-> "ok", count |-> Cardinality(batch[b].asked),
                 done |-> batch[b].done]
  /\ batch' = [batch EXCEPT ![b] = Idle]
  /\ UNCHANGED <<rr, review, drafts, harm, stripped>>

Next ==
  \/ \E r \in ReviewRequests :
       \/ DiscardDraft(r)
       \/ \E complete, named \in BOOLEAN : EditDraft(r, complete, named)
  \/ \E v \in Reviews, content \in Contents : Write(v, content)
  \/ \E b \in Batches :
       \/ \E requests \in SUBSET ReviewRequests, reviews \in SUBSET Reviews,
             trivial \in BOOLEAN : Start(b, requests, reviews, trivial)
       \/ PublishRequest(b)
       \/ RefuseRequest(b)
       \/ PublishReview(b)
       \/ RefuseReview(b)
       \/ Finish(b)

Spec == Init /\ [][Next]_vars
-----------------------------------------------------------------------------
(* Rows, batches and answers are of their types. *)
TypeOK ==
  /\ rr \in [ReviewRequests -> RowOfRequest]
  /\ review \in [Reviews -> RowOfReview]
  /\ drafts \in 0..MaxDrafts
  /\ batch \in [Batches -> Underway \cup {Idle}]
  /\ answer \in [stat : Stats, count : Nat, done : SUBSET Items]
  /\ unsent \subseteq Items
  /\ harm \subseteq Harms
  /\ stripped \subseteq ReviewRequests

Without(causes) == causes \cap harm = {}

(* The count in an answer is that of what was published, something was     *)
(* published when it is mixed, and no review request when it is fail.      *)
AnswersTrue ==
  /\ answer.count = Cardinality(answer.done)
  /\ answer.stat = "mixed" => answer.done # {}
  /\ answer.stat = "fail" => answer.done \cap ReviewRequests = {}

(* Once no batch is under way every publication has had its e-mail, unless *)
(* a batch failed after it had published something.                        *)
AllSent ==
  (\A b \in Batches : ~Under(b)) /\ Without({"partial"}) => unsent = {}

(* A review becomes public only on a public review request and without     *)
(* comments on what is still a draft, whatever else is in its batch.       *)
PublishedInOrder ==
  [][\A v \in Reviews :
       review'[v].public /\ ~review[v].public /\ Without({"met"}) =>
         /\ rr[About[v]].public
         /\ "comment on a draft" \notin review[v].content]_vars

(* Unless two requests dealt with it at the same time, no review is        *)
(* published twice, and a public review request has reviewers: only a      *)
(* draft that names none takes them, although it is refused for that, and  *)
(* the next publication brings reviewers again.                            *)
Undisturbed ==
  Without({"met"}) =>
    /\ "twice" \notin harm
    /\ \A r \in ReviewRequests :
         rr[r].public => rr[r].reviewers \/ r \in stripped

(* A public review request always has reviewers: "There must be at least   *)
(* one reviewer before this review request can be published."              *)
PublicHasReviewers ==
  \A r \in ReviewRequests : rr[r].public => rr[r].reviewers

(* An answer says fail only if nothing was published, and mixed otherwise. *)
FailMeansNothing == answer.stat = "fail" => answer.done = {}
=============================================================================
