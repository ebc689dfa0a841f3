----------------------------- MODULE IssueTracking -----------------------------
(***************************************************************************)
(* Issues, Ship Its and the counters of one review request, as concurrent  *)
(* web requests leave them (reviews/models/review.py, base_comment.py,     *)
(* status_update.py and webapi/resources/base_comment.py, base_review.py). *)
(*                                                                         *)
(* No transaction surrounds a web request: each database statement commits *)
(* on its own.  A worker serves one request at a time, in steps of one     *)
(* statement, and keeps between them the rows that it has loaded.          *)
(***************************************************************************)
EXTENDS Integers, FiniteSets

CONSTANTS
  Workers,    \* processes that serve web requests
  Reviews,    \* reviews of the review request, drafts at first
  Comments,   \* their comments
  ReviewOf,   \* [Comments -> Reviews]
  Guarded,    \* the comments with require_verification
  NoComment,  \* the comment of a request that is about none
  Extended,   \* whether an extension calls StatusUpdate.drop_open_issues
  NoStatus    \* issue_status of a comment without an issue

VARIABLES
  reviews,    \* [Reviews -> ReviewRow]
  comments,   \* [Comments -> Issue]
  counts,     \* [Counters -> Int], columns of the review request
  worker,     \* [Workers -> what the worker is about to do and has loaded]
  conflicts   \* history: how requests served at the same time have collided,
              \* and which counters requests that were cut short, by a death
              \* or by an assertion, have left behind

vars == <<reviews, comments, counts, worker, conflicts>>

Open              == "O"
Resolved          == "R"
Dropped           == "D"
VerifyingResolved == "A"
VerifyingDropped  == "B"
Statuses == {Open, Resolved, Dropped, VerifyingResolved, VerifyingDropped}
Closed   == {Resolved, Dropped}

IssueCounters == {"open", "resolved", "dropped", "verifying"}
Counters      == IssueCounters \cup {"shipIt"}

(* ReviewRequest.ISSUE_COUNTER_FIELDS.                                     *)
CounterOf(status) ==
  CASE status = Open     -> "open"
    [] status = Resolved -> "resolved"
    [] status = Dropped  -> "dropped"
    [] status \in {VerifyingResolved, VerifyingDropped} -> "verifying"

ReviewRow == [public : BOOLEAN, shipIt : BOOLEAN]
Issue     == [opened : BOOLEAN, status : Statuses \cup {NoStatus}]
Zero      == [k \in IssueCounters |-> 0]

ASSUME IssueAssumption ==
  /\ IsFiniteSet(Comments) /\ IsFiniteSet(Reviews)
  /\ ReviewOf \in [Comments -> Reviews]
  /\ Guarded \subseteq Comments
  /\ NoStatus \notin Statuses
  /\ Extended \in BOOLEAN

Kinds == {"review", "comment", "status", "revoke", "drop"}

(* The next statement of a worker.                                         *)
Steps == {"rest", "save review", "publish", "fetch", "count", "save comment",
          "load issue", "save status", "load review", "toggle", "revoke",
          "uncount", "recount", "save counts"}

(* A request under way: what the caller asked (kind, rev, com, publish,    *)
(* verifier) and the instances in memory: the review, the comment with the *)
(* status it was loaded with, and counts that were fetched.                *)
Request == [at : Steps, kind : Kinds, rev : Reviews,
            com : Comments \cup {NoComment}, publish : BOOLEAN,
            verifier : BOOLEAN, review : ReviewRow,
            issue : Issue, prev : Statuses \cup {NoStatus},
            fetched : [IssueCounters -> Nat]]

Rest == [at |-> "rest"]

Ask(kind, v, c) ==
  [at |-> "rest", kind |-> kind, rev |-> v, com |-> c, publish |-> FALSE,
   verifier |-> FALSE, review |-> [public |-> FALSE, shipIt |-> FALSE],
   issue |-> [opened |-> FALSE, status |-> NoStatus], prev |-> NoStatus,
   fetched |-> Zero]

(***************************************************************************)
(* Statements.                                                             *)
(***************************************************************************)

(* fetch_issue_counts, over the given reviews.                             *)
FetchIssueCounts(revs) ==
  [k \in IssueCounters |->
     Cardinality({c \in Comments : /\ ReviewOf[c] \in revs
                                   /\ reviews[ReviewOf[c]].public
                                   /\ comments[c].opened
                                   /\ comments[c].status # NoStatus
                                   /\ CounterOf(comments[c].status) = k})]

(* A mistake: the new values are computed from what the worker knew.       *)
IncrementManyStale(changes) ==
  counts' = [k \in Counters |->
               IF k \in DOMAIN changes THEN changes[k] ELSE counts[k]]

(* CounterField.increment_many: UPDATE ... SET c = c + n for several       *)
(* columns at once.                                                        *)
IncrementMany(changes) ==
  counts' = [k \in Counters |->
               IF k \in DOMAIN changes THEN counts[k] + changes[k] ELSE counts[k]]

At(w, step) == worker[w].at = step

Become(w, rq)   == worker' = [worker EXCEPT ![w] = rq]
Continue(w, at) == Become(w, [worker[w] EXCEPT !.at = at])
Finish(w)       == Become(w, Rest)

Busy(x) == ~At(x, "rest")

(* How two requests served at the same time collide: two status changes of *)
(* one issue, or anything else that writes what the other read.  Status    *)
(* changes of different issues, a revocation, and requests about different *)
(* reviews do not; dropping issues recounts the whole review request.      *)
Conflict(a, b) ==
  CASE a.kind = "status" /\ b.kind = "status" ->
         IF a.com = b.com THEN {"toggle"} ELSE {}
    [] "drop" \in {a.kind, b.kind}               -> {"other"}
    [] {a.kind, b.kind} = {"status", "revoke"}   -> {}
    [] OTHER -> IF a.rev = b.rev THEN {"other"} ELSE {}

(* The counters that a worker has not brought up to date yet.              *)
Uncounting(w) ==
  (IF \/ worker[w].at \in {"fetch", "count", "toggle", "recount", "save counts"}
      \/ At(w, "load review") /\ worker[w].kind = "status"
     THEN {"issues"} ELSE {})
    \cup
  (IF worker[w].at \in {"fetch", "count", "uncount"} THEN {"shipIt"} ELSE {})

(* A worker dies between two statements.                                   *)
Crash(w) ==
  /\ Busy(w)
  /\ Finish(w)
  /\ conflicts' = conflicts \cup Uncounting(w)
  /\ UNCHANGED <<reviews, comments, counts>>

Start(w, rq) ==
  /\ At(w, "rest")
  /\ Become(w, rq)
  /\ conflicts' = conflicts \cup
       UNION {Conflict(rq, worker[x]) : x \in {y \in Workers \ {w} : Busy(y)}}

(***************************************************************************)
(* Writing and publishing a review: BaseReviewResource.update_review and   *)
(* Review.publish.                                                         *)
(***************************************************************************)

(* has_modify_permissions: published reviews cannot be modified.           *)
UpdateReview(w, v, shipIt, publish) ==
  /\ ~reviews[v].public
  /\ Start(w, [Ask("review", v, NoComment) EXCEPT
                 !.at = "save review",
                 !.review = [reviews[v] EXCEPT !.shipIt = shipIt],
                 !.publish = publish])
  /\ UNCHANGED <<reviews, comments, counts>>

(* review.save() writes every column, with the values that were loaded.    *)
SaveReview(w) ==
  /\ At(w, "save review")
  /\ reviews' = [reviews EXCEPT ![worker[w].rev] = worker[w].review]
  /\ IF worker[w].publish THEN Continue(w, "publish") ELSE Finish(w)
  /\ UNCHANGED <<comments, counts, conflicts>>

PublishReview(w) ==
  /\ At(w, "publish")
  /\ reviews' = [reviews EXCEPT ![worker[w].rev] =
                   [worker[w].review EXCEPT !.public = TRUE]]
  /\ Continue(w, "fetch")
  /\ UNCHANGED <<comments, counts, conflicts>>

(* can_publish: an unpublished attachment, or a Ship It of one's own work.  *)
RefusePublish(w) ==
  /\ At(w, "publish")
  /\ Finish(w)
  /\ UNCHANGED <<reviews, comments, counts, conflicts>>

(* All filed issues should be open, or the assertions end the request: the *)
(* review is public by then, and counted nowhere.                          *)
FetchIssues(w) ==
  /\ At(w, "fetch")
  /\ LET found == FetchIssueCounts({worker[w].rev})
     IN  IF \A k \in IssueCounters \ {"open"} : found[k] = 0
         THEN /\ Become(w, [worker[w] EXCEPT !.at = "count", !.fetched = found])
              /\ UNCHANGED conflicts
         ELSE /\ Finish(w)
              /\ conflicts' = conflicts \cup Uncounting(w)
  /\ UNCHANGED <<reviews, comments, counts>>

CountReview(w) ==
  /\ At(w, "count")
  /\ IncrementMany([open   |-> worker[w].fetched["open"],
                    shipIt |-> IF worker[w].review.shipIt THEN 1 ELSE 0])
  /\ Finish(w)
  /\ UNCHANGED <<reviews, comments, conflicts>>

(***************************************************************************)
(* Comments of a draft review: BaseCommentResource.update_comment and      *)
(* BaseComment.save.                                                       *)
(***************************************************************************)
(* A mistake: the permission check forgets that the review may be public.  *)
UpdateCommentAlways(w, c, opened) ==
  /\ LET was    == comments[c]
         status == IF opened /\ ~was.opened THEN Open
                   ELSE IF ~opened THEN NoStatus ELSE was.status
     IN  Start(w, [Ask("comment", ReviewOf[c], c) EXCEPT
                     !.at = "save comment",
                     !.prev = was.status,
                     !.issue = [opened |-> opened, status |-> status]])
  /\ UNCHANGED <<reviews, comments, counts>>

UpdateComment(w, c, opened) ==
  /\ ~reviews[ReviewOf[c]].public
  /\ LET was    == comments[c]
         status == IF opened /\ ~was.opened THEN Open
                   ELSE IF ~opened THEN NoStatus ELSE was.status
     IN  Start(w, [Ask("comment", ReviewOf[c], c) EXCEPT
                     !.at = "save comment",
                     !.prev = was.status,
                     !.issue = [opened |-> opened, status |-> status]])
  /\ UNCHANGED <<reviews, comments, counts>>

SaveComment(w) ==
  /\ At(w, "save comment")
  /\ comments' = [comments EXCEPT ![worker[w].com] = worker[w].issue]
  /\ Continue(w, "load review")
  /\ UNCHANGED <<reviews, counts, conflicts>>

(* The rest of BaseComment.save: a draft review is saved with a new        *)
(* timestamp; in a public one a new status moves the counters.  A status   *)
(* that was NULL when it was loaded fails an assertion.                    *)
LoadReview(w) ==
  /\ At(w, "load review")
  /\ LET rq  == worker[w]
         old == rq.prev
         new == rq.issue.status
     IN  IF ~reviews[rq.rev].public
         THEN Become(w, [rq EXCEPT !.at = "save review",
                                   !.review = reviews[rq.rev],
                                   !.issue = Ask(rq.kind, rq.rev, rq.com).issue,
                                   !.prev = NoStatus])
         ELSE IF /\ rq.issue.opened
                 /\ old # new
                 /\ old # NoStatus
                 /\ CounterOf(old) # CounterOf(new)
              THEN Continue(w, "toggle")
              ELSE Finish(w)
  /\ UNCHANGED <<reviews, comments, counts, conflicts>>

Toggle(w) ==
  /\ At(w, "toggle")
  /\ LET old == CounterOf(worker[w].prev)
         new == CounterOf(worker[w].issue.status)
     IN  IncrementMany([k \in {old, new} |-> IF k = old THEN -1 ELSE 1])
  /\ Finish(w)
  /\ UNCHANGED <<reviews, comments, conflicts>>

(***************************************************************************)
(* Changing the status of an issue: should_update_issue_status and         *)
(* update_issue_status, which loads the comment again.                     *)
(***************************************************************************)
UpdateIssueStatus(w, c, status, verifier) ==
  /\ reviews[ReviewOf[c]].public
  /\ comments[c].opened
  /\ status # comments[c].status
  /\ Start(w, [Ask("status", ReviewOf[c], c) EXCEPT
                 !.at = "load issue",
                 !.issue = [opened |-> TRUE, status |-> status],
                 !.verifier = verifier])
  /\ UNCHANGED <<reviews, comments, counts>>

(* A mistake: what waits for verification may be closed.                   *)
RefusedOpenOnly(c, old, new, verifier) ==
  c \in Guarded /\ new \in Closed /\ old = Open /\ ~verifier

(* Whether the caller may not set the status of c from old to new.         *)
Refused(c, old, new, verifier) ==
  /\ c \in Guarded
  /\ new \in Closed
  /\ old \in {Open, VerifyingResolved, VerifyingDropped}
  /\ ~verifier

LoadIssue(w) ==
  /\ At(w, "load issue")
  /\ LET rq   == worker[w]
         prev == comments[rq.com].status
     IN  IF \/ ~comments[rq.com].opened
            \/ Refused(rq.com, prev, rq.issue.status, rq.verifier)
         THEN Finish(w)
         ELSE Become(w, [rq EXCEPT !.at = "save status", !.prev = prev])
  /\ UNCHANGED <<reviews, comments, counts, conflicts>>

(* comment.save(update_fields=['issue_status']).                           *)
SaveStatus(w) ==
  /\ At(w, "save status")
  /\ comments' = [comments EXCEPT ![worker[w].com].status = worker[w].issue.status]
  /\ Become(w, [worker[w] EXCEPT !.at = "load review", !.verifier = FALSE])
  /\ UNCHANGED <<reviews, counts, conflicts>>

(***************************************************************************)
(* Review.revoke_ship_it.                                                  *)
(***************************************************************************)
RevokeShipIt(w, v) ==
  /\ reviews[v].public
  /\ reviews[v].shipIt
  /\ Start(w, [Ask("revoke", v, NoComment) EXCEPT !.at = "revoke"])
  /\ UNCHANGED <<reviews, comments, counts>>

SaveRevoked(w) ==
  /\ At(w, "revoke")
  /\ reviews' = [reviews EXCEPT ![worker[w].rev].shipIt = FALSE]
  /\ Continue(w, "uncount")
  /\ UNCHANGED <<comments, counts, conflicts>>

UncountShipIt(w) ==
  /\ At(w, "uncount")
  /\ IncrementMany([shipIt |-> -1])
  /\ Finish(w)
  /\ UNCHANGED <<reviews, comments, conflicts>>

(***************************************************************************)
(* StatusUpdate.drop_open_issues, of the review of a check, which may be a *)
(* draft, and reinit_issue_open_count, whose initializer writes every      *)
(* issue counter.                                                          *)
(***************************************************************************)
OpenIssues(v) == {c \in Comments : ReviewOf[c] = v /\ comments[c].status = Open}

DropOpenIssues(w, v) ==
  /\ Extended
  /\ OpenIssues(v) # {}
  /\ Start(w, [Ask("drop", v, NoComment) EXCEPT !.at = "recount"])
  /\ comments' = [c \in Comments |-> IF c \in OpenIssues(v)
                                     THEN [comments[c] EXCEPT !.status = Dropped]
                                     ELSE comments[c]]
  /\ UNCHANGED <<reviews, counts>>

Recount(w) ==
  /\ At(w, "recount")
  /\ Become(w, [worker[w] EXCEPT !.at = "save counts",
                                 !.fetched = FetchIssueCounts(Reviews)])
  /\ UNCHANGED <<reviews, comments, counts, conflicts>>

SaveCounts(w) ==
  /\ At(w, "save counts")
  /\ counts' = [k \in Counters |-> IF k \in IssueCounters
                                   THEN worker[w].fetched[k] ELSE counts[k]]
  /\ Finish(w)
  /\ conflicts' = conflicts \ {"issues"}
  /\ UNCHANGED <<reviews, comments>>

(***************************************************************************)
(* The specification.                                                      *)
(***************************************************************************)
Init ==
  /\ reviews = [v \in Reviews |-> [public |-> FALSE, shipIt |-> FALSE]]
  /\ comments = [c \in Comments |-> [opened |-> FALSE, status |-> NoStatus]]
  /\ counts = [k \in Counters |-> 0]
  /\ worker = [w \in Workers |-> Rest]
  /\ conflicts = {}

Arrive(w) ==
  \/ \E v \in Reviews, shipIt, publish \in BOOLEAN : UpdateReview(w, v, shipIt, publish)
  \/ \E c \in Comments, opened \in BOOLEAN : UpdateComment(w, c, opened)
  \/ \E c \in Comments, status \in Statuses, verifier \in BOOLEAN :
       UpdateIssueStatus(w, c, status, verifier)
  \/ \E v \in Reviews : RevokeShipIt(w, v) \/ DropOpenIssues(w, v)

Serve(w) ==
  \/ SaveReview(w) \/ PublishReview(w) \/ RefusePublish(w)
  \/ FetchIssues(w) \/ CountReview(w)
  \/ SaveComment(w) \/ LoadReview(w) \/ Toggle(w)
  \/ LoadIssue(w) \/ SaveStatus(w)
  \/ SaveRevoked(w) \/ UncountShipIt(w)
  \/ Recount(w) \/ SaveCounts(w)

Next == \E w \in Workers : Arrive(w) \/ Serve(w) \/ Crash(w)

Spec == Init /\ [][Next]_vars

(***************************************************************************)
(* Properties.                                                             *)
(***************************************************************************)
TypeOK ==
  /\ reviews \in [Reviews -> ReviewRow]
  /\ comments \in [Comments -> Issue]
  /\ counts \in [Counters -> Int]
  /\ worker \in [Workers -> Request \cup {Rest}]
  /\ conflicts \subseteq {"toggle", "other", "issues", "shipIt"}

Quiet == \A w \in Workers : ~Busy(w)

(* Two requests that change one issue may each subtract from the counter   *)
(* of a status that is no longer there, but they lose and invent no issue: *)
(* the four counters still add up to the number of issues.                 *)
IssueTotalExact ==
  counts["open"] + counts["resolved"] + counts["dropped"]
      + counts["verifying"]
    = Cardinality({c \in Comments : /\ reviews[ReviewOf[c]].public
                                    /\ comments[c].opened})

(* Once all requests are answered or have died, the counters are those of  *)
(* the issues and Ship Its in public reviews, if no two requests collided  *)
(* and none died, or failed the assertions of a publication, before it had *)
(* counted: requests about different reviews or issues may run at the same *)
(* time, in any order of their statements, because increment_many adds in  *)
(* the database.  What was left uncounted, a recount makes good.           *)
CountsExact ==
  Quiet =>
    /\ conflicts \cap {"toggle", "other", "issues"} = {} =>
         \A k \in IssueCounters : counts[k] = FetchIssueCounts(Reviews)[k]
    /\ conflicts \cap {"other", "shipIt"} = {} =>
         counts["shipIt"] =
           Cardinality({v \in Reviews : reviews[v].public /\ reviews[v].shipIt})
    /\ conflicts \cap {"other", "issues"} = {} => IssueTotalExact

(* Nobody is about to close an issue that requires verification and is not *)
(* closed yet without the right to verify it, if no two requests change    *)
(* one issue, whichever requests die.                                      *)
ClosedByVerifier ==
  conflicts \cap {"toggle", "other"} = {} =>
    \A w \in Workers :
      LET rq == worker[w]
      IN  (/\ At(w, "save status")
           /\ rq.com \in Guarded
           /\ rq.issue.status \in Closed
           /\ comments[rq.com].status \notin Closed)
          => rq.verifier

(* A published review is not modified or made private again by a request   *)
(* that does not collide with its publication: its issues are what they    *)
(* were, until their status is changed.                                    *)
PublishedReviewKept ==
  [][("other" \notin conflicts') =>
       /\ \A v \in Reviews : reviews[v].public => reviews[v].public'
       /\ \A c \in Comments :
            reviews[ReviewOf[c]].public => comments[c].opened' = comments[c].opened]_vars

(***************************************************************************)
(* What the code does not keep.                                            *)
(***************************************************************************)

(* Once public, a review cannot be made private again.                     *)
PublicForGood ==
  [][\A v \in Reviews : reviews[v].public => reviews[v].public']_vars

(* Since the review is being published, all its issues are open.           *)
PublishedIssuesOpen ==
  \A w \in Workers : At(w, "fetch") =>
    \A c \in Comments :
      (ReviewOf[c] = worker[w].rev /\ comments[c].opened) => comments[c].status = Open
===============================================================================
