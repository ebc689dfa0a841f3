------------------------- MODULE IssueTracking_proofs -------------------------
(***************************************************************************)
(* Proofs about IssueTracking, for any workers, and any finite sets of     *)
(* reviews and comments: first what each statement of a web request does,  *)
(* and that rows and requests keep their types.                            *)
(***************************************************************************)
EXTENDS IssueTracking, FiniteSetTheorems, TLAPS

(***************************************************************************)
(* What a worker knows.                                                    *)
(***************************************************************************)

(* What a request is at each of its statements.                            *)
Kinded(w) ==
  /\ At(w, "save review") => worker[w].kind \in {"review", "comment", "status"}
  /\ worker[w].at \in {"publish", "fetch", "count"} => worker[w].kind = "review"
  /\ worker[w].kind \in {"comment", "status"} => ~worker[w].publish
  /\ At(w, "save comment") => worker[w].kind = "comment"
  /\ At(w, "load review") => worker[w].kind \in {"comment", "status"}
  /\ worker[w].at \in {"load issue", "save status"} => worker[w].kind = "status"
  /\ At(w, "toggle") => worker[w].kind \in {"comment", "status"}
  /\ worker[w].at \in {"revoke", "uncount"} => worker[w].kind = "revoke"
  /\ worker[w].at \in {"recount", "save counts"} => worker[w].kind = "drop"
  /\ worker[w].kind \in {"comment", "status"} =>
       worker[w].com \in Comments /\ worker[w].rev = ReviewOf[worker[w].com]
  /\ worker[w].kind = "status" /\ ~At(w, "save review") =>
       worker[w].issue.opened /\ worker[w].issue.status \in Statuses

(* Requests under way at the same time have been recorded.                 *)
Recorded ==
  \A w, x \in Workers : w # x /\ Busy(w) /\ Busy(x) =>
    Conflict(worker[w], worker[x]) \subseteq conflicts

BaseInv == TypeOK /\ Recorded /\ \A w \in Workers : Busy(w) => Kinded(w)

(***************************************************************************)
(* Requests.                                                               *)
(***************************************************************************)

(* The other workers are where they were.                                  *)
Stays(w) ==
  /\ worker' = [x \in Workers |-> worker'[x]]
  /\ \A x \in Workers \ {w} : worker'[x] = worker[x]

(* A worker goes on with its request, or has answered it.                  *)
Goes(w, step) ==
  /\ Stays(w) /\ UNCHANGED conflicts
  /\ worker'[w] \in Request /\ worker'[w].at = step
  /\ worker'[w].kind = worker[w].kind /\ worker'[w].rev = worker[w].rev
  /\ worker'[w].com = worker[w].com /\ worker'[w].publish = worker[w].publish
Ends(w) == Stays(w) /\ UNCHANGED conflicts /\ worker'[w] = Rest

(* What a request says is kept by its later statements.                    *)
KeepsReview(w) == worker'[w].review = worker[w].review
KeepsIssue(w) == worker'[w].issue = worker[w].issue
KeepsPrev(w) == worker'[w].prev = worker[w].prev
KeepsFetched(w) == worker'[w].fetched = worker[w].fetched

LEMMA BusyFacts ==
  ASSUME TypeOK, NEW w \in Workers, Busy(w)
  PROVE  /\ worker[w] \in Request /\ worker[w].at \in Steps
         /\ worker[w].kind \in Kinds /\ worker[w].rev \in Reviews
         /\ worker[w].review \in ReviewRow /\ worker[w].issue \in Issue
         /\ worker[w].prev \in Statuses \cup {NoStatus}
         /\ worker[w].fetched \in [IssueCounters -> Nat]
         /\ worker[w].fetched["open"] \in Nat
  BY DEF TypeOK, Busy, At, Rest, Request, IssueCounters

(* A worker is at rest again, whether it has answered its request or died. *)
Leaves(w) == Stays(w) /\ worker'[w] = Rest

LEMMA LeavesFacts ==
  ASSUME TypeOK, NEW w \in Workers, Finish(w)
  PROVE  Leaves(w) /\ ~Busy(w)'
  BY DEF TypeOK, Finish, Become, Leaves, Stays, Busy, At, Rest

LEMMA FinishFacts ==
  ASSUME TypeOK, NEW w \in Workers, Finish(w), UNCHANGED conflicts
  PROVE  Ends(w) /\ ~Busy(w)'
  BY DEF TypeOK, Finish, Become, Ends, Stays, Busy, At, Rest

LEMMA ContinueFacts ==
  ASSUME TypeOK, NEW w \in Workers, Busy(w), NEW step \in Steps,
         Continue(w, step), UNCHANGED conflicts
  PROVE  /\ Goes(w, step)
         /\ KeepsReview(w) /\ KeepsIssue(w) /\ KeepsPrev(w) /\ KeepsFetched(w)
<1> DEFINE old == worker[w]
           new == [old EXCEPT !.at = step]
<1>1. old \in Request /\ worker' = [worker EXCEPT ![w] = new]
  BY BusyFacts DEF Continue, Become
<1>2. /\ new \in Request /\ new.at = step
      /\ new.kind = old.kind /\ new.rev = old.rev /\ new.com = old.com
      /\ new.publish = old.publish /\ new.review = old.review
      /\ new.issue = old.issue /\ new.prev = old.prev
      /\ new.fetched = old.fetched
  BY <1>1 DEF Request
<1> HIDE DEF new
<1>3. worker'[w] = new /\ Stays(w)
  BY <1>1 DEF TypeOK, Stays
<1>4. QED
  BY <1>2, <1>3
     DEF Goes, KeepsReview, KeepsIssue, KeepsPrev, KeepsFetched

(* A worker begins to serve a request.                                     *)
Begins(w, step, kind, v, c) ==
  /\ Stays(w) /\ ~Busy(w)
  /\ worker'[w] \in Request /\ worker'[w].at = step
  /\ worker'[w].kind = kind /\ worker'[w].rev = v /\ worker'[w].com = c
  /\ conflicts' = conflicts \cup
       UNION {Conflict(worker'[w], worker[x]) :
                x \in {y \in Workers \ {w} : Busy(y)}}

LEMMA StartFacts ==
  ASSUME TypeOK, NEW w \in Workers, NEW rq \in Request, Start(w, rq)
  PROVE  Begins(w, rq.at, rq.kind, rq.rev, rq.com) /\ worker'[w] = rq
<1>1. worker'[w] = rq /\ Stays(w) /\ ~Busy(w)
  BY DEF TypeOK, Start, Become, Stays, Busy
<1>2. QED
  BY <1>1 DEF Begins, Start

LEMMA AskTyped ==
  ASSUME NEW kind \in Kinds, NEW v \in Reviews,
         NEW c \in Comments \cup {NoComment}
  PROVE  Ask(kind, v, c) \in Request
  BY DEF Ask, Request, Steps, ReviewRow, Issue, Zero, IssueCounters

LEMMA ConflictSymmetric ==
  ASSUME NEW a, NEW b
  PROVE  Conflict(a, b) = Conflict(b, a)
<1>1. {a.kind, b.kind} = {b.kind, a.kind}
  OBVIOUS
<1>2. "drop" \in {a.kind, b.kind} <=> "drop" \in {b.kind, a.kind}
  OBVIOUS
<1>3. {a.kind, b.kind} = {"status", "revoke"}
        <=> {b.kind, a.kind} = {"status", "revoke"}
  BY <1>1
<1>4. (a.com = b.com <=> b.com = a.com) /\ (a.rev = b.rev <=> b.rev = a.rev)
  OBVIOUS
<1>5. QED
  BY <1>2, <1>3, <1>4 DEF Conflict

LEMMA ConflictDepends ==
  ASSUME NEW a, NEW b, NEW d, a.kind = b.kind, a.rev = b.rev, a.com = b.com
  PROVE  Conflict(a, d) = Conflict(b, d)
  BY DEF Conflict

LEMMA ConflictTyped ==
  ASSUME NEW a, NEW b
  PROVE  Conflict(a, b) \subseteq {"toggle", "other"}
  BY DEF Conflict

(***************************************************************************)
(* Types, kinds and recorded conflicts are kept.                           *)
(***************************************************************************)

RowsTyped ==
  /\ reviews \in [Reviews -> ReviewRow]
  /\ comments \in [Comments -> Issue]
  /\ counts \in [Counters -> Int]

LEMMA OthersKinded ==
  ASSUME NEW w \in Workers, Stays(w),
         \A x \in Workers : Busy(x) => Kinded(x), Busy(w)' => Kinded(w)'
  PROVE  \A x \in Workers : Busy(x)' => Kinded(x)'
<1>1. SUFFICES ASSUME NEW x \in Workers, Busy(x)'
               PROVE  Kinded(x)'
  OBVIOUS
<1>2. CASE x = w
  BY <1>1, <1>2
<1>3. CASE x # w
  <2>1. worker'[x] = worker[x] /\ Busy(x)
    BY <1>1, <1>3 DEF Stays, Busy, At
  <2>2. QED
    BY <2>1 DEF Kinded, At
<1>4. QED
  BY <1>2, <1>3

LEMMA RecordedKept ==
  ASSUME BaseInv, NEW w \in Workers, Stays(w),
         conflicts \cap {"toggle", "other"} \subseteq conflicts',
         Busy(w)' => \A x \in Workers \ {w} : Busy(x) =>
                       Conflict(worker'[w], worker[x]) \subseteq conflicts'
  PROVE  Recorded'
<1>1. SUFFICES ASSUME NEW x \in Workers, NEW y \in Workers, x # y,
                      Busy(x)', Busy(y)'
               PROVE  Conflict(worker'[x], worker'[y]) \subseteq conflicts'
  BY DEF Recorded
<1>2. CASE x # w /\ y # w
  <2>1. Conflict(worker[x], worker[y]) \subseteq conflicts
    BY <1>1, <1>2 DEF Stays, BaseInv, Recorded, Busy, At
  <2>2. Conflict(worker[x], worker[y]) \subseteq {"toggle", "other"}
    BY ConflictTyped
  <2>3. worker'[x] = worker[x] /\ worker'[y] = worker[y]
    BY <1>2 DEF Stays
  <2>4. QED
    BY <2>1, <2>2, <2>3
<1>3. CASE x = w
  <2>1. worker'[y] = worker[y] /\ Busy(y)
    BY <1>1, <1>3 DEF Stays, Busy, At
  <2>2. QED
    BY <1>1, <1>3, <2>1
<1>4. CASE y = w
  <2>1. worker'[x] = worker[x] /\ Busy(x)
    BY <1>1, <1>4 DEF Stays, Busy, At
  <2>2. Conflict(worker'[w], worker[x]) \subseteq conflicts'
    BY <1>1, <1>4, <2>1
  <2>3. QED
    BY <1>4, <2>1, <2>2, ConflictSymmetric
<1>5. QED
  BY <1>2, <1>3, <1>4

LEMMA GoesBase ==
  ASSUME BaseInv, NEW w \in Workers, Busy(w), NEW step, Goes(w, step),
         Kinded(w)', RowsTyped'
  PROVE  BaseInv'
<1>1. \A x \in Workers \ {w} : Busy(x) =>
        Conflict(worker'[w], worker[x]) \subseteq conflicts'
  <2>1. ASSUME NEW x \in Workers \ {w}, Busy(x)
        PROVE  Conflict(worker'[w], worker[x]) \subseteq conflicts'
    <3>1. Conflict(worker'[w], worker[x]) = Conflict(worker[w], worker[x])
      BY ConflictDepends DEF Goes
    <3>2. QED
      BY <2>1, <3>1 DEF Goes, BaseInv, Recorded
  <2>2. QED
    BY <2>1
<1>2. Recorded'
  BY <1>1, RecordedKept DEF Goes
<1>3. TypeOK'
  BY DEF Goes, Stays, BaseInv, TypeOK, RowsTyped
<1>4. \A x \in Workers : Busy(x)' => Kinded(x)'
  BY OthersKinded DEF Goes, BaseInv
<1>5. QED
  BY <1>2, <1>3, <1>4 DEF BaseInv

(* The conflicts that TypeOK allows.                                       *)
Causes == {"toggle", "other", "issues", "shipIt"}

LEMMA LeavesBase ==
  ASSUME BaseInv, NEW w \in Workers, Leaves(w), RowsTyped',
         conflicts \cap {"toggle", "other"} \subseteq conflicts',
         conflicts' \subseteq Causes
  PROVE  BaseInv'
<1>1. ~Busy(w)'
  BY DEF Leaves, Busy, At, Rest
<1>2. Recorded'
  BY <1>1, RecordedKept DEF Leaves
<1>3. TypeOK'
  BY DEF Leaves, Stays, BaseInv, TypeOK, RowsTyped, Causes
<1>4. \A x \in Workers : Busy(x)' => Kinded(x)'
  BY <1>1, OthersKinded DEF Leaves, BaseInv
<1>5. QED
  BY <1>2, <1>3, <1>4 DEF BaseInv

LEMMA EndsBase ==
  ASSUME BaseInv, NEW w \in Workers, Ends(w), RowsTyped'
  PROVE  BaseInv'
  BY LeavesBase DEF Ends, Leaves, BaseInv, TypeOK, Causes

LEMMA BeginsBase ==
  ASSUME BaseInv, NEW w \in Workers, NEW step, NEW kind, NEW v, NEW c,
         Begins(w, step, kind, v, c), Kinded(w)', RowsTyped'
  PROVE  BaseInv'
<1>1. \A x \in Workers \ {w} : Busy(x) =>
        Conflict(worker'[w], worker[x]) \subseteq conflicts'
  BY DEF Begins
<1>2. conflicts \subseteq conflicts'
  BY DEF Begins
<1>3. Recorded'
  BY <1>1, <1>2, RecordedKept DEF Begins
<1>4. conflicts' \subseteq Causes
  <2>1. \A x \in Workers :
          Conflict(worker'[w], worker[x]) \subseteq {"toggle", "other"}
    BY ConflictTyped
  <2>2. ASSUME NEW e \in conflicts', e \notin conflicts
        PROVE  \E x \in Workers : e \in Conflict(worker'[w], worker[x])
    BY <2>2 DEF Begins
  <2>3. QED
    BY <2>1, <2>2 DEF BaseInv, TypeOK, Causes
<1>5. TypeOK'
  BY <1>4 DEF Begins, Stays, BaseInv, TypeOK, RowsTyped, Causes
<1>6. \A x \in Workers : Busy(x)' => Kinded(x)'
  BY OthersKinded DEF Begins, BaseInv
<1>7. QED
  BY <1>3, <1>5, <1>6 DEF BaseInv

(***************************************************************************)
(* What each statement does.                                               *)
(***************************************************************************)

SameRows == UNCHANGED <<reviews, comments, counts>>

LEMMA IssuesFinite ==
  ASSUME NEW S \in SUBSET Comments
  PROVE  IsFiniteSet(S) /\ Cardinality(S) \in Nat
  BY IssueAssumption, FS_Subset, FS_CardinalityType

LEMMA FetchTyped ==
  ASSUME NEW revs
  PROVE  /\ FetchIssueCounts(revs) \in [IssueCounters -> Nat]
         /\ \A k \in IssueCounters :
              FetchIssueCounts(revs)[k] =
                Cardinality({c \in Comments :
                               /\ ReviewOf[c] \in revs
                               /\ reviews[ReviewOf[c]].public
                               /\ comments[c].opened
                               /\ comments[c].status # NoStatus
                               /\ CounterOf(comments[c].status) = k})
<1> DEFINE S(k) == {c \in Comments : /\ ReviewOf[c] \in revs
                                     /\ reviews[ReviewOf[c]].public
                                     /\ comments[c].opened
                                     /\ comments[c].status # NoStatus
                                     /\ CounterOf(comments[c].status) = k}
<1>1. FetchIssueCounts(revs) = [k \in IssueCounters |-> Cardinality(S(k))]
  BY DEF FetchIssueCounts
<1>2. \A k : S(k) \in SUBSET Comments
  OBVIOUS
<1> HIDE DEF S
<1>3. \A k : Cardinality(S(k)) \in Nat
  BY <1>2, IssuesFinite
<1>4. \A k \in IssueCounters : FetchIssueCounts(revs)[k] = Cardinality(S(k))
  BY <1>1
<1>5. FetchIssueCounts(revs) \in [IssueCounters -> Nat]
  BY <1>1, <1>3
<1>6. QED
  BY <1>4, <1>5 DEF S

LEMMA UpdateReviewFacts ==
  ASSUME BaseInv, NEW w \in Workers, NEW v \in Reviews,
         NEW shipIt \in BOOLEAN, NEW publish \in BOOLEAN,
         UpdateReview(w, v, shipIt, publish)
  PROVE  /\ BaseInv' /\ Begins(w, "save review", "review", v, NoComment)
         /\ SameRows /\ ~reviews[v].public /\ ~worker'[w].review.public
<1> DEFINE ask == Ask("review", v, NoComment)
           row == [reviews[v] EXCEPT !.shipIt = shipIt]
           rq == [ask EXCEPT !.at = "save review", !.review = row,
                             !.publish = publish]
<1>1. ask \in Request /\ ask.kind = "review" /\ ask.rev = v
      /\ ask.com = NoComment
  BY AskTyped DEF Kinds, Ask
<1>2. row \in ReviewRow /\ row.public = reviews[v].public
  BY DEF BaseInv, TypeOK, ReviewRow
<1>3. ~reviews[v].public /\ SameRows /\ Start(w, rq)
  BY DEF UpdateReview, SameRows
<1> HIDE DEF row, ask
<1>4. /\ rq \in Request /\ rq.at = "save review" /\ rq.kind = "review"
      /\ rq.rev = v /\ rq.com = NoComment /\ rq.review = row
  BY <1>1, <1>2 DEF Request, Steps
<1> HIDE DEF rq
<1>5. /\ Begins(w, "save review", "review", v, NoComment)
      /\ worker'[w] = rq
  BY <1>3, <1>4, StartFacts DEF BaseInv
<1>6. Kinded(w)'
  BY <1>4, <1>5 DEF Kinded, At
<1>7. RowsTyped'
  BY <1>3 DEF SameRows, BaseInv, TypeOK, RowsTyped
<1>8. QED
  BY <1>2, <1>3, <1>4, <1>5, <1>6, <1>7, BeginsBase

LEMMA UpdateCommentFacts ==
  ASSUME BaseInv, NEW w \in Workers, NEW c \in Comments,
         NEW opened \in BOOLEAN, UpdateComment(w, c, opened)
  PROVE  /\ BaseInv' /\ Begins(w, "save comment", "comment", ReviewOf[c], c)
         /\ SameRows /\ ~reviews[ReviewOf[c]].public
         /\ worker'[w].issue.opened =>
              worker'[w].issue.status = Open \/
                /\ comments[c].opened
                /\ worker'[w].issue.status = comments[c].status
<1> DEFINE was == comments[c]
           status == IF opened /\ ~was.opened THEN Open
                     ELSE IF ~opened THEN NoStatus ELSE was.status
           ask == Ask("comment", ReviewOf[c], c)
           issue == [opened |-> opened, status |-> status]
           rq == [ask EXCEPT !.at = "save comment", !.prev = was.status,
                             !.issue = issue]
<1>1. /\ ask \in Request /\ ask.kind = "comment" /\ ask.rev = ReviewOf[c]
      /\ ask.com = c /\ ~ask.publish
  BY AskTyped, IssueAssumption DEF Kinds, Ask
<1>2. /\ was.status \in Statuses \cup {NoStatus}
      /\ status \in Statuses \cup {NoStatus}
      /\ opened => status = Open \/ (was.opened /\ status = was.status)
  BY DEF BaseInv, TypeOK, Issue, Statuses
<1>3. ~reviews[ReviewOf[c]].public /\ SameRows /\ Start(w, rq)
  BY DEF UpdateComment, SameRows
<1> HIDE DEF status, ask
<1>4. /\ issue \in Issue /\ issue.opened = opened /\ issue.status = status
  BY <1>2 DEF Issue
<1> HIDE DEF issue
<1>5. /\ rq \in Request /\ rq.at = "save comment" /\ rq.kind = "comment"
      /\ rq.rev = ReviewOf[c] /\ rq.com = c /\ rq.issue = issue
      /\ ~rq.publish
  BY <1>1, <1>2, <1>4 DEF Request, Steps
<1> HIDE DEF rq
<1>6. /\ Begins(w, "save comment", "comment", ReviewOf[c], c)
      /\ worker'[w] = rq
  BY <1>3, <1>5, StartFacts DEF BaseInv
<1>7. Kinded(w)'
  BY <1>5, <1>6 DEF Kinded, At
<1>8. RowsTyped'
  BY <1>3 DEF SameRows, BaseInv, TypeOK, RowsTyped
<1>9. BaseInv'
  BY <1>6, <1>7, <1>8, BeginsBase
<1>10. QED
  BY <1>2, <1>3, <1>4, <1>5, <1>6, <1>9

LEMMA UpdateIssueStatusFacts ==
  ASSUME BaseInv, NEW w \in Workers, NEW c \in Comments,
         NEW status \in Statuses, NEW verifier \in BOOLEAN,
         UpdateIssueStatus(w, c, status, verifier)
  PROVE  /\ BaseInv' /\ Begins(w, "load issue", "status", ReviewOf[c], c)
         /\ SameRows /\ reviews[ReviewOf[c]].public /\ comments[c].opened
<1> DEFINE ask == Ask("status", ReviewOf[c], c)
           issue == [opened |-> TRUE, status |-> status]
           rq == [ask EXCEPT !.at = "load issue", !.issue = issue,
                             !.verifier = verifier]
<1>1. /\ ask \in Request /\ ask.kind = "status" /\ ask.rev = ReviewOf[c]
      /\ ask.com = c /\ ~ask.publish
  BY AskTyped, IssueAssumption DEF Kinds, Ask
<1>2. /\ reviews[ReviewOf[c]].public /\ comments[c].opened /\ SameRows
      /\ Start(w, rq)
  BY DEF UpdateIssueStatus, SameRows
<1>3. issue \in Issue /\ issue.opened /\ issue.status = status
  BY DEF Issue
<1> HIDE DEF issue, ask
<1>4. /\ rq \in Request /\ rq.at = "load issue" /\ rq.kind = "status"
      /\ ~rq.publish
      /\ rq.rev = ReviewOf[c] /\ rq.com = c /\ rq.issue = issue
  BY <1>1, <1>3 DEF Request, Steps
<1> HIDE DEF rq
<1>5. /\ Begins(w, "load issue", "status", ReviewOf[c], c)
      /\ worker'[w] = rq
  BY <1>2, <1>4, StartFacts DEF BaseInv
<1>6. Kinded(w)'
  BY <1>3, <1>4, <1>5 DEF Kinded, At
<1>7. RowsTyped'
  BY <1>2 DEF SameRows, BaseInv, TypeOK, RowsTyped
<1>8. QED
  BY <1>2, <1>5, <1>6, <1>7, BeginsBase

LEMMA RevokeShipItFacts ==
  ASSUME BaseInv, NEW w \in Workers, NEW v \in Reviews, RevokeShipIt(w, v)
  PROVE  /\ BaseInv' /\ Begins(w, "revoke", "revoke", v, NoComment)
         /\ SameRows /\ reviews[v].public /\ reviews[v].shipIt
<1> DEFINE ask == Ask("revoke", v, NoComment)
           rq == [ask EXCEPT !.at = "revoke"]
<1>1. /\ ask \in Request /\ ask.kind = "revoke" /\ ask.rev = v
      /\ ask.com = NoComment
  BY AskTyped DEF Kinds, Ask
<1>2. reviews[v].public /\ reviews[v].shipIt /\ SameRows /\ Start(w, rq)
  BY DEF RevokeShipIt, SameRows
<1> HIDE DEF ask
<1>3. /\ rq \in Request /\ rq.at = "revoke" /\ rq.kind = "revoke"
      /\ rq.rev = v /\ rq.com = NoComment
  BY <1>1 DEF Request, Steps
<1> HIDE DEF rq
<1>4. Begins(w, "revoke", "revoke", v, NoComment) /\ worker'[w] = rq
  BY <1>2, <1>3, StartFacts DEF BaseInv
<1>5. Kinded(w)'
  BY <1>3, <1>4 DEF Kinded, At
<1>6. RowsTyped'
  BY <1>2 DEF SameRows, BaseInv, TypeOK, RowsTyped
<1>7. QED
  BY <1>2, <1>4, <1>5, <1>6, BeginsBase

LEMMA DropFacts ==
  ASSUME BaseInv, NEW w \in Workers, NEW v \in Reviews, DropOpenIssues(w, v)
  PROVE  /\ BaseInv' /\ Begins(w, "recount", "drop", v, NoComment)
         /\ UNCHANGED <<reviews, counts>>
         /\ \A c \in Comments :
              /\ comments'[c].opened = comments[c].opened
              /\ comments[c].status \in Statuses =>
                   comments'[c].status \in Statuses
              /\ ReviewOf[c] # v => comments'[c] = comments[c]
<1> DEFINE ask == Ask("drop", v, NoComment)
           rq == [ask EXCEPT !.at = "recount"]
<1>1. /\ ask \in Request /\ ask.kind = "drop" /\ ask.rev = v
      /\ ask.com = NoComment
  BY AskTyped DEF Kinds, Ask
<1>2. /\ UNCHANGED <<reviews, counts>> /\ Start(w, rq)
      /\ comments' = [c \in Comments |->
           IF c \in OpenIssues(v) THEN [comments[c] EXCEPT !.status = Dropped]
                                  ELSE comments[c]]
  BY DEF DropOpenIssues
<1> HIDE DEF ask
<1>3. /\ rq \in Request /\ rq.at = "recount" /\ rq.kind = "drop"
      /\ rq.rev = v /\ rq.com = NoComment
  BY <1>1 DEF Request, Steps
<1> HIDE DEF rq
<1>4. Begins(w, "recount", "drop", v, NoComment) /\ worker'[w] = rq
  BY <1>2, <1>3, StartFacts DEF BaseInv
<1>5. Kinded(w)'
  BY <1>3, <1>4 DEF Kinded, At
<1>6. ASSUME NEW c \in Comments
      PROVE  LET row == [comments[c] EXCEPT !.status = Dropped]
             IN  row \in Issue /\ row.opened = comments[c].opened
                   /\ row.status = Dropped /\ Dropped \in Statuses
  BY DEF BaseInv, TypeOK, Issue, Statuses
<1>7. RowsTyped'
  BY <1>2, <1>6 DEF BaseInv, TypeOK, RowsTyped
<1>8. \A c \in Comments :
        /\ comments'[c].opened = comments[c].opened
        /\ comments[c].status \in Statuses => comments'[c].status \in Statuses
        /\ ReviewOf[c] # v => comments'[c] = comments[c]
  BY <1>2, <1>6 DEF OpenIssues
<1>9. QED
  BY <1>2, <1>4, <1>5, <1>7, <1>8, BeginsBase

(* Of a request that goes on to a statement of its kind.                   *)
LEMMA KindKept ==
  ASSUME BaseInv, NEW w \in Workers, Busy(w), NEW step, Goes(w, step),
         KeepsIssue(w),
         step \in {"publish", "fetch", "count"} => worker[w].kind = "review",
         step \in {"load review", "toggle"} =>
           worker[w].kind \in {"comment", "status"},
         step = "save status" => worker[w].kind = "status",
         step = "uncount" => worker[w].kind = "revoke",
         step = "save counts" => worker[w].kind = "drop",
         ~At(w, "save review") \/ worker[w].kind = "review",
         step \notin {"save comment", "save review", "load issue", "revoke",
                      "recount"}
  PROVE  Kinded(w)'
  BY DEF Goes, KeepsIssue, BaseInv, Kinded, At

LEMMA SaveReviewFacts ==
  ASSUME BaseInv, NEW w \in Workers, SaveReview(w)
  PROVE  /\ BaseInv' /\ Busy(w) /\ At(w, "save review")
         /\ reviews' = [reviews EXCEPT ![worker[w].rev] = worker[w].review]
         /\ UNCHANGED <<comments, counts>>
         /\ \/ Ends(w) /\ ~Busy(w)'
            \/ Goes(w, "publish") /\ KeepsReview(w) /\ worker[w].kind = "review"
<1>1. /\ At(w, "save review") /\ Busy(w) /\ UNCHANGED conflicts
      /\ reviews' = [reviews EXCEPT ![worker[w].rev] = worker[w].review]
      /\ UNCHANGED <<comments, counts>>
  BY DEF SaveReview, At, Busy
<1>2. RowsTyped'
  BY <1>1, BusyFacts DEF BaseInv, TypeOK, RowsTyped
<1>3. CASE worker[w].publish
  <2>1. Continue(w, "publish")
    BY <1>3 DEF SaveReview
  <2>2. Goes(w, "publish") /\ KeepsReview(w) /\ KeepsIssue(w)
    BY <1>1, <2>1, ContinueFacts DEF BaseInv, Steps
  <2>3. worker[w].kind = "review"
    BY <1>1, <1>3 DEF BaseInv, Kinded
  <2>4. BaseInv'
    BY <1>1, <1>2, <2>2, <2>3, KindKept, GoesBase
  <2>5. QED
    BY <1>1, <2>2, <2>3, <2>4
<1>4. CASE ~worker[w].publish
  <2>1. Ends(w) /\ ~Busy(w)'
    BY <1>1, <1>4, FinishFacts DEF SaveReview, BaseInv
  <2>2. QED
    BY <1>1, <1>2, <2>1, EndsBase
<1>5. QED
  BY <1>3, <1>4

LEMMA PublishReviewFacts ==
  ASSUME BaseInv, NEW w \in Workers, PublishReview(w)
  PROVE  /\ BaseInv' /\ Busy(w) /\ At(w, "publish")
         /\ reviews' = [reviews EXCEPT ![worker[w].rev] =
                          [worker[w].review EXCEPT !.public = TRUE]]
         /\ UNCHANGED <<comments, counts>>
         /\ Goes(w, "fetch") /\ KeepsReview(w)
<1>1. /\ At(w, "publish") /\ Busy(w) /\ UNCHANGED conflicts
      /\ reviews' = [reviews EXCEPT ![worker[w].rev] =
                       [worker[w].review EXCEPT !.public = TRUE]]
      /\ UNCHANGED <<comments, counts>> /\ Continue(w, "fetch")
  BY DEF PublishReview, At, Busy
<1>2. [worker[w].review EXCEPT !.public = TRUE] \in ReviewRow
  BY <1>1, BusyFacts DEF BaseInv, ReviewRow
<1>3. RowsTyped'
  BY <1>1, <1>2, BusyFacts DEF BaseInv, TypeOK, RowsTyped
<1>4. Goes(w, "fetch") /\ KeepsReview(w) /\ KeepsIssue(w)
  BY <1>1, ContinueFacts DEF BaseInv, Steps
<1>5. worker[w].kind = "review"
  BY <1>1 DEF BaseInv, Kinded, At
<1>6. QED
  BY <1>1, <1>3, <1>4, <1>5, KindKept, GoesBase

LEMMA RefusePublishFacts ==
  ASSUME BaseInv, NEW w \in Workers, RefusePublish(w)
  PROVE  BaseInv' /\ Busy(w) /\ At(w, "publish") /\ SameRows /\ Ends(w)
           /\ ~Busy(w)'
<1>1. At(w, "publish") /\ Busy(w) /\ SameRows /\ Ends(w) /\ ~Busy(w)'
  BY FinishFacts DEF RefusePublish, At, Busy, SameRows, BaseInv
<1>2. RowsTyped'
  BY <1>1 DEF SameRows, BaseInv, TypeOK, RowsTyped
<1>3. QED
  BY <1>1, <1>2, EndsBase

LEMMA CrashFacts ==
  ASSUME BaseInv, NEW w \in Workers, Crash(w)
  PROVE  /\ BaseInv' /\ Busy(w) /\ SameRows /\ Leaves(w) /\ ~Busy(w)'
         /\ conflicts' = conflicts \cup Uncounting(w)
<1>1. /\ Busy(w) /\ SameRows /\ Leaves(w) /\ ~Busy(w)'
      /\ conflicts' = conflicts \cup Uncounting(w)
  BY LeavesFacts DEF Crash, SameRows, BaseInv
<1>2. Uncounting(w) \subseteq {"issues", "shipIt"}
  BY DEF Uncounting
<1>3. RowsTyped'
  BY <1>1 DEF SameRows, BaseInv, TypeOK, RowsTyped
<1>4. conflicts' \subseteq Causes
  BY <1>1, <1>2 DEF BaseInv, TypeOK, Causes
<1>5. QED
  BY <1>1, <1>3, <1>4, LeavesBase

LEMMA FetchIssuesFacts ==
  ASSUME BaseInv, NEW w \in Workers, FetchIssues(w)
  PROVE  /\ BaseInv' /\ Busy(w) /\ At(w, "fetch") /\ SameRows
         /\ LET found == FetchIssueCounts({worker[w].rev}) IN
            \/ Crash(w)
            \/ /\ \A k \in IssueCounters \ {"open"} : found[k] = 0
               /\ Goes(w, "count") /\ KeepsReview(w)
               /\ worker'[w].fetched = found
<1> DEFINE found == FetchIssueCounts({worker[w].rev})
           old == worker[w]
           new == [old EXCEPT !.at = "count", !.fetched = found]
<1>1. At(w, "fetch") /\ Busy(w) /\ SameRows
  BY DEF FetchIssues, At, Busy, SameRows
<1>2. RowsTyped'
  BY <1>1 DEF SameRows, BaseInv, TypeOK, RowsTyped
<1>3. CASE \A k \in IssueCounters \ {"open"} : found[k] = 0
  <2>1. worker' = [worker EXCEPT ![w] = new] /\ UNCHANGED conflicts
    BY <1>3 DEF FetchIssues, Become
  <2>2. old \in Request /\ found \in [IssueCounters -> Nat]
    BY <1>1, BusyFacts, FetchTyped DEF BaseInv
  <2> HIDE DEF found, old
  <2>3. /\ new \in Request /\ new.at = "count" /\ new.fetched = found
        /\ new.kind = old.kind /\ new.rev = old.rev /\ new.com = old.com
        /\ new.publish = old.publish /\ new.review = old.review
        /\ new.issue = old.issue
    BY <2>2 DEF Request, Steps
  <2> HIDE DEF new
  <2>4. worker'[w] = new /\ Stays(w)
    BY <2>1 DEF BaseInv, TypeOK, Stays
  <2>5. Goes(w, "count") /\ KeepsReview(w) /\ KeepsIssue(w)
    BY <1>1, <2>1, <2>3, <2>4 DEF Goes, KeepsReview, KeepsIssue, old
  <2>6. worker[w].kind = "review"
    BY <1>1 DEF BaseInv, Kinded, At
  <2>7. BaseInv'
    BY <1>1, <1>2, <2>5, <2>6, KindKept, GoesBase
  <2>8. QED
    BY <1>1, <1>3, <2>3, <2>4, <2>5, <2>7 DEF found
<1>4. CASE ~ \A k \in IssueCounters \ {"open"} : found[k] = 0
  <2>1. Crash(w)
    BY <1>1, <1>4 DEF FetchIssues, Crash
  <2>2. QED
    BY <1>1, <2>1, CrashFacts
<1>5. QED
  BY <1>3, <1>4

(* Statements that only add to the counters.                               *)
LEMMA IncrementFacts ==
  ASSUME TypeOK, NEW changes, NEW K \in SUBSET Counters, DOMAIN changes = K,
         \A k \in K : changes[k] \in Int, IncrementMany(changes)
  PROVE  /\ counts' \in [Counters -> Int]
         /\ \A k \in K : counts'[k] = counts[k] + changes[k]
         /\ \A k \in Counters \ K : counts'[k] = counts[k]
  BY DEF TypeOK, IncrementMany

LEMMA CountReviewFacts ==
  ASSUME BaseInv, NEW w \in Workers, CountReview(w)
  PROVE  /\ BaseInv' /\ Busy(w) /\ At(w, "count") /\ Ends(w) /\ ~Busy(w)'
         /\ UNCHANGED <<reviews, comments>>
         /\ counts'["open"] = counts["open"] + worker[w].fetched["open"]
         /\ counts'["shipIt"] =
              counts["shipIt"] + (IF worker[w].review.shipIt THEN 1 ELSE 0)
         /\ \A k \in {"resolved", "dropped", "verifying"} :
              counts'[k] = counts[k]
<1> DEFINE ch == [open   |-> worker[w].fetched["open"],
                  shipIt |-> IF worker[w].review.shipIt THEN 1 ELSE 0]
<1>1. /\ At(w, "count") /\ Busy(w) /\ Ends(w) /\ ~Busy(w)'
      /\ UNCHANGED <<reviews, comments>> /\ IncrementMany(ch)
  BY FinishFacts DEF CountReview, At, Busy, BaseInv
<1>2. /\ DOMAIN ch = {"open", "shipIt"}
      /\ ch["open"] = worker[w].fetched["open"] /\ ch["open"] \in Nat
      /\ ch["shipIt"] = (IF worker[w].review.shipIt THEN 1 ELSE 0)
      /\ ch["shipIt"] \in Nat
  BY <1>1, BusyFacts DEF BaseInv
<1>3. {"open", "shipIt"} \in SUBSET Counters
  BY DEF Counters, IssueCounters
<1> HIDE DEF ch
<1>4. \A k \in {"open", "shipIt"} : ch[k] \in Int
  BY <1>2
<1>5. /\ counts' \in [Counters -> Int]
      /\ \A k \in {"open", "shipIt"} : counts'[k] = counts[k] + ch[k]
      /\ \A k \in Counters \ {"open", "shipIt"} : counts'[k] = counts[k]
  BY <1>1, <1>2, <1>3, <1>4, IncrementFacts DEF BaseInv
<1>6. RowsTyped'
  BY <1>1, <1>5 DEF BaseInv, TypeOK, RowsTyped
<1>7. BaseInv'
  BY <1>1, <1>6, EndsBase
<1>8. QED
  BY <1>1, <1>2, <1>5, <1>7 DEF Counters, IssueCounters

LEMMA UncountShipItFacts ==
  ASSUME BaseInv, NEW w \in Workers, UncountShipIt(w)
  PROVE  /\ BaseInv' /\ Busy(w) /\ At(w, "uncount") /\ Ends(w) /\ ~Busy(w)'
         /\ UNCHANGED <<reviews, comments>>
         /\ counts'["shipIt"] = counts["shipIt"] - 1
         /\ \A k \in IssueCounters : counts'[k] = counts[k]
<1> DEFINE ch == [shipIt |-> -1]
<1>1. /\ At(w, "uncount") /\ Busy(w) /\ Ends(w) /\ ~Busy(w)'
      /\ UNCHANGED <<reviews, comments>> /\ IncrementMany(ch)
  BY FinishFacts DEF UncountShipIt, At, Busy, BaseInv
<1>2. DOMAIN ch = {"shipIt"} /\ ch["shipIt"] = -1
  OBVIOUS
<1>3. {"shipIt"} \in SUBSET Counters
  BY DEF Counters
<1> HIDE DEF ch
<1>4. \A k \in {"shipIt"} : ch[k] \in Int
  BY <1>2
<1>5. /\ counts' \in [Counters -> Int]
      /\ \A k \in {"shipIt"} : counts'[k] = counts[k] + ch[k]
      /\ \A k \in Counters \ {"shipIt"} : counts'[k] = counts[k]
  BY <1>1, <1>2, <1>3, <1>4, IncrementFacts DEF BaseInv
<1>6. RowsTyped'
  BY <1>1, <1>5 DEF BaseInv, TypeOK, RowsTyped
<1>7. BaseInv'
  BY <1>1, <1>6, EndsBase
<1>8. counts["shipIt"] \in Int
  BY DEF BaseInv, TypeOK, Counters
<1>9. QED
  BY <1>1, <1>2, <1>5, <1>7, <1>8 DEF Counters, IssueCounters

LEMMA CounterTyped ==
  ASSUME NEW status \in Statuses
  PROVE  CounterOf(status) \in IssueCounters
  BY DEF Statuses, CounterOf, IssueCounters, Open, Resolved, Dropped,
         VerifyingResolved, VerifyingDropped

LEMMA SaveCommentFacts ==
  ASSUME BaseInv, NEW w \in Workers, SaveComment(w)
  PROVE  /\ BaseInv' /\ Busy(w) /\ At(w, "save comment")
         /\ worker[w].kind = "comment" /\ worker[w].com \in Comments
         /\ worker[w].rev = ReviewOf[worker[w].com]
         /\ comments' = [comments EXCEPT ![worker[w].com] = worker[w].issue]
         /\ UNCHANGED <<reviews, counts>>
         /\ Goes(w, "load review")
<1>1. /\ At(w, "save comment") /\ Busy(w) /\ UNCHANGED conflicts
      /\ comments' = [comments EXCEPT ![worker[w].com] = worker[w].issue]
      /\ UNCHANGED <<reviews, counts>> /\ Continue(w, "load review")
  BY DEF SaveComment, At, Busy
<1>2. RowsTyped'
  BY <1>1, BusyFacts DEF BaseInv, TypeOK, RowsTyped
<1>3. Goes(w, "load review") /\ KeepsIssue(w)
  BY <1>1, ContinueFacts DEF BaseInv, Steps
<1>4. /\ worker[w].kind = "comment" /\ worker[w].com \in Comments
      /\ worker[w].rev = ReviewOf[worker[w].com]
  BY <1>1 DEF BaseInv, Kinded
<1>5. BaseInv'
  BY <1>1, <1>2, <1>3, <1>4, KindKept, GoesBase DEF At
<1>6. QED
  BY <1>1, <1>3, <1>4, <1>5

LEMMA LoadReviewFacts ==
  ASSUME BaseInv, NEW w \in Workers, LoadReview(w)
  PROVE  /\ BaseInv' /\ Busy(w) /\ At(w, "load review") /\ SameRows
         /\ worker[w].kind \in {"comment", "status"}
         /\ \/ /\ ~reviews[worker[w].rev].public
               /\ Goes(w, "save review")
               /\ worker'[w].review = reviews[worker[w].rev]
            \/ /\ reviews[worker[w].rev].public
               /\ Ends(w) /\ ~Busy(w)'
               /\ worker[w].kind = "status" /\ worker[w].prev # NoStatus =>
                    CounterOf(worker[w].prev)
                      = CounterOf(worker[w].issue.status)
            \/ /\ reviews[worker[w].rev].public
               /\ Goes(w, "toggle") /\ KeepsIssue(w) /\ KeepsPrev(w)
               /\ CounterOf(worker[w].prev) # CounterOf(worker[w].issue.status)
<1> DEFINE old == worker[w]
<1>1. At(w, "load review") /\ Busy(w) /\ SameRows /\ UNCHANGED conflicts
  BY DEF LoadReview, At, Busy, SameRows
<1>2. RowsTyped'
  BY <1>1 DEF SameRows, BaseInv, TypeOK, RowsTyped
<1>3. /\ old.kind \in {"comment", "status"} /\ old \in Request
      /\ ~old.publish
      /\ old.com \in Comments /\ old.rev = ReviewOf[old.com]
      /\ old.kind = "status" => old.issue.opened
  BY <1>1, BusyFacts DEF BaseInv, Kinded, At
<1>4. CASE ~reviews[old.rev].public
  <2> DEFINE ask == Ask(old.kind, old.rev, old.com)
             issue == ask.issue
             new == [old EXCEPT !.at = "save review",
                                !.review = reviews[old.rev],
                                !.issue = issue, !.prev = NoStatus]
  <2>1. worker' = [worker EXCEPT ![w] = new]
    BY <1>4 DEF LoadReview, Become
  <2>2. issue \in Issue
    BY DEF Ask, Issue
  <2>3. reviews[old.rev] \in ReviewRow
    BY <1>3 DEF BaseInv, TypeOK, Request
  <2> HIDE DEF issue, old
  <2>4. /\ new \in Request /\ new.at = "save review"
        /\ new.review = reviews[old.rev] /\ new.kind = old.kind
        /\ new.rev = old.rev /\ new.com = old.com
        /\ new.publish = old.publish
    BY <1>3, <2>2, <2>3 DEF Request, Steps
  <2> HIDE DEF new
  <2>5. worker'[w] = new /\ Stays(w)
    BY <2>1 DEF BaseInv, TypeOK, Stays
  <2>6. Goes(w, "save review")
    BY <1>1, <2>4, <2>5 DEF Goes, old
  <2>7. Kinded(w)'
    BY <1>3, <2>4, <2>5 DEF Kinded, At, old
  <2>8. BaseInv'
    BY <1>1, <1>2, <2>6, <2>7, GoesBase
  <2>9. QED
    BY <1>1, <1>3, <1>4, <2>4, <2>5, <2>6, <2>8 DEF old
<1>5. CASE reviews[old.rev].public
  <2>1. CASE Finish(w)
    <3>1. Ends(w) /\ ~Busy(w)'
      BY <1>1, <2>1, FinishFacts DEF BaseInv
    <3>2. BaseInv'
      BY <1>1, <1>2, <3>1, EndsBase
    <3>3. worker'[w] = Rest
      BY <3>1 DEF Ends
    <3>4. ~Continue(w, "toggle")
      <4> DEFINE new == [old EXCEPT !.at = "toggle"]
      <4>1. new.at = "toggle"
        BY <1>3 DEF Request
      <4> HIDE DEF new
      <4>2. [worker EXCEPT ![w] = new][w] = new
        BY DEF BaseInv, TypeOK
      <4>3. new # Rest
        BY <4>1 DEF Rest
      <4>4. QED
        BY <3>3, <4>2, <4>3 DEF Continue, Become, new
    <3>5. ~(/\ old.issue.opened /\ old.prev # old.issue.status
            /\ old.prev # NoStatus
            /\ CounterOf(old.prev) # CounterOf(old.issue.status))
      BY <1>5, <3>4 DEF LoadReview
    <3>6. old.kind = "status" /\ old.prev # NoStatus =>
            CounterOf(old.prev) = CounterOf(old.issue.status)
      BY <1>1, <1>3, <3>5 DEF At
    <3>7. QED
      BY <1>1, <1>3, <1>5, <3>1, <3>2, <3>6
  <2>2. CASE Continue(w, "toggle")
            /\ CounterOf(old.prev) # CounterOf(old.issue.status)
    <3>1. Goes(w, "toggle") /\ KeepsIssue(w) /\ KeepsPrev(w)
      BY <1>1, <2>2, ContinueFacts DEF BaseInv, Steps
    <3>2. BaseInv'
      BY <1>1, <1>2, <1>3, <3>1, KindKept, GoesBase DEF At
    <3>3. QED
      BY <1>1, <1>3, <1>5, <2>2, <3>1, <3>2
  <2>3. QED
    BY <1>5, <2>1, <2>2 DEF LoadReview
<1>6. QED
  BY <1>4, <1>5

LEMMA ToggleFacts ==
  ASSUME BaseInv, NEW w \in Workers, Toggle(w),
         NEW old, old = CounterOf(worker[w].prev),
         NEW new, new = CounterOf(worker[w].issue.status),
         old \in IssueCounters, new \in IssueCounters, old # new
  PROVE  /\ Ends(w) /\ ~Busy(w)' /\ UNCHANGED <<reviews, comments>>
         /\ counts' \in [Counters -> Int]
         /\ counts'[old] = counts[old] - 1 /\ counts'[new] = counts[new] + 1
         /\ \A k \in Counters \ {old, new} : counts'[k] = counts[k]
<1> DEFINE ch == [k \in {old, new} |-> IF k = old THEN -1 ELSE 1]
<1>1. /\ At(w, "toggle") /\ Busy(w) /\ Ends(w) /\ ~Busy(w)'
      /\ UNCHANGED <<reviews, comments>> /\ IncrementMany(ch)
  BY FinishFacts DEF Toggle, At, Busy, BaseInv
<1>2. /\ DOMAIN ch = {old, new} /\ ch[old] = -1 /\ ch[new] = 1
  OBVIOUS
<1>3. {old, new} \in SUBSET Counters
  BY DEF Counters
<1> HIDE DEF ch
<1>4. \A k \in {old, new} : ch[k] \in Int
  BY <1>2
<1>5. /\ counts' \in [Counters -> Int]
      /\ \A k \in {old, new} : counts'[k] = counts[k] + ch[k]
      /\ \A k \in Counters \ {old, new} : counts'[k] = counts[k]
  BY <1>1, <1>2, <1>3, <1>4, IncrementFacts DEF BaseInv
<1>6. counts[old] \in Int /\ counts[new] \in Int
  BY <1>3 DEF BaseInv, TypeOK
<1>7. QED
  BY <1>1, <1>2, <1>5, <1>6

LEMMA LoadIssueFacts ==
  ASSUME BaseInv, NEW w \in Workers, LoadIssue(w)
  PROVE  /\ BaseInv' /\ Busy(w) /\ At(w, "load issue") /\ SameRows
         /\ worker[w].kind = "status" /\ worker[w].com \in Comments
         /\ \/ Ends(w) /\ ~Busy(w)'
            \/ /\ Goes(w, "save status") /\ KeepsIssue(w)
               /\ comments[worker[w].com].opened
               /\ worker'[w].prev = comments[worker[w].com].status
               /\ worker'[w].verifier \/
                    ~Refused(worker[w].com, worker'[w].prev,
                             worker'[w].issue.status, FALSE)
<1> DEFINE old == worker[w]
           prev == comments[old.com].status
           new == [old EXCEPT !.at = "save status", !.prev = prev]
<1>1. At(w, "load issue") /\ Busy(w) /\ SameRows /\ UNCHANGED conflicts
  BY DEF LoadIssue, At, Busy, SameRows
<1>2. RowsTyped'
  BY <1>1 DEF SameRows, BaseInv, TypeOK, RowsTyped
<1>3. old.kind = "status" /\ old.com \in Comments /\ old \in Request
  BY <1>1, BusyFacts DEF BaseInv, Kinded, At
<1>4. CASE Finish(w)
  <2>1. Ends(w) /\ ~Busy(w)'
    BY <1>1, <1>4, FinishFacts DEF BaseInv
  <2>2. QED
    BY <1>1, <1>2, <1>3, <2>1, EndsBase
<1>5. CASE /\ worker' = [worker EXCEPT ![w] = new] /\ comments[old.com].opened
           /\ ~Refused(old.com, prev, old.issue.status, old.verifier)
  <2>1. prev \in Statuses \cup {NoStatus}
    BY <1>3 DEF BaseInv, TypeOK, Issue
  <2> HIDE DEF prev, old
  <2>2. /\ new \in Request /\ new.at = "save status" /\ new.prev = prev
        /\ new.kind = old.kind /\ new.rev = old.rev /\ new.com = old.com
        /\ new.publish = old.publish /\ new.issue = old.issue
        /\ new.verifier = old.verifier
    BY <1>3, <2>1 DEF Request, Steps
  <2> HIDE DEF new
  <2>3. worker'[w] = new /\ Stays(w)
    BY <1>5 DEF BaseInv, TypeOK, Stays
  <2>4. Goes(w, "save status") /\ KeepsIssue(w)
    BY <1>1, <2>2, <2>3 DEF Goes, KeepsIssue, old
  <2>5. BaseInv'
    BY <1>1, <1>2, <1>3, <2>4, KindKept, GoesBase DEF At, old
  <2>6. old.verifier \/ ~Refused(old.com, prev, old.issue.status, FALSE)
    BY <1>5 DEF Refused
  <2>7. QED
    BY <1>1, <1>3, <1>5, <2>2, <2>3, <2>4, <2>5, <2>6 DEF old, prev
<1>6. QED
  BY <1>4, <1>5 DEF LoadIssue, Become

LEMMA SaveStatusFacts ==
  ASSUME BaseInv, NEW w \in Workers, SaveStatus(w)
  PROVE  /\ BaseInv' /\ Busy(w) /\ At(w, "save status")
         /\ worker[w].kind = "status" /\ worker[w].com \in Comments
         /\ worker[w].issue.status \in Statuses
         /\ UNCHANGED <<reviews, counts>>
         /\ \A c \in Comments : /\ comments'[c].opened = comments[c].opened
                                /\ c # worker[w].com => comments'[c] = comments[c]
         /\ comments'[worker[w].com].status = worker[w].issue.status
         /\ Goes(w, "load review") /\ KeepsIssue(w) /\ KeepsPrev(w)
<1> DEFINE old == worker[w]
           new == [old EXCEPT !.at = "load review", !.verifier = FALSE]
           row == [comments[old.com] EXCEPT !.status = old.issue.status]
<1>1. /\ At(w, "save status") /\ Busy(w) /\ UNCHANGED conflicts
      /\ UNCHANGED <<reviews, counts>>
      /\ comments' = [comments EXCEPT ![old.com] = row]
      /\ worker' = [worker EXCEPT ![w] = new]
  BY DEF SaveStatus, At, Busy, Become
<1>2. /\ old.kind = "status" /\ old.com \in Comments /\ old \in Request
      /\ old.issue.status \in Statuses
  BY <1>1, BusyFacts DEF BaseInv, Kinded, At
<1>3. comments \in [Comments -> Issue] /\ comments[old.com] \in Issue
  BY <1>2 DEF BaseInv, TypeOK
<1>4. /\ row \in Issue /\ row.status = old.issue.status
      /\ row.opened = comments[old.com].opened
  BY <1>2, <1>3 DEF Issue
<1> HIDE DEF row, old
<1>5. /\ comments' \in [Comments -> Issue] /\ comments'[old.com] = row
      /\ \A c \in Comments : c # old.com => comments'[c] = comments[c]
  BY <1>1, <1>2, <1>3, <1>4
<1>6. RowsTyped'
  BY <1>1, <1>5 DEF BaseInv, TypeOK, RowsTyped
<1>7. /\ new \in Request /\ new.at = "load review"
      /\ new.kind = old.kind /\ new.rev = old.rev /\ new.com = old.com
      /\ new.publish = old.publish /\ new.issue = old.issue
      /\ new.prev = old.prev
  BY <1>2 DEF Request, Steps
<1> HIDE DEF new
<1>8. worker'[w] = new /\ Stays(w)
  BY <1>1 DEF BaseInv, TypeOK, Stays
<1>9. Goes(w, "load review") /\ KeepsIssue(w) /\ KeepsPrev(w)
  BY <1>1, <1>7, <1>8 DEF Goes, KeepsIssue, KeepsPrev, old
<1>10. BaseInv'
  BY <1>1, <1>2, <1>6, <1>9, KindKept, GoesBase DEF At, old
<1>11. QED
  BY <1>1, <1>2, <1>4, <1>5, <1>9, <1>10 DEF old

LEMMA SaveRevokedFacts ==
  ASSUME BaseInv, NEW w \in Workers, SaveRevoked(w)
  PROVE  /\ BaseInv' /\ Busy(w) /\ At(w, "revoke")
         /\ worker[w].kind = "revoke"
         /\ UNCHANGED <<comments, counts>>
         /\ \A v \in Reviews : /\ reviews'[v].public = reviews[v].public
                               /\ v # worker[w].rev => reviews'[v] = reviews[v]
         /\ ~reviews'[worker[w].rev].shipIt
         /\ Goes(w, "uncount")
<1> DEFINE v == worker[w].rev
           row == [reviews[v] EXCEPT !.shipIt = FALSE]
<1>1. /\ At(w, "revoke") /\ Busy(w) /\ UNCHANGED conflicts
      /\ UNCHANGED <<comments, counts>> /\ Continue(w, "uncount")
      /\ reviews' = [reviews EXCEPT ![v] = row]
  BY DEF SaveRevoked, At, Busy
<1>2. worker[w].kind = "revoke" /\ v \in Reviews
  BY <1>1, BusyFacts DEF BaseInv, Kinded, At
<1>3. reviews \in [Reviews -> ReviewRow] /\ reviews[v] \in ReviewRow
  BY <1>2 DEF BaseInv, TypeOK
<1>4. row \in ReviewRow /\ row.public = reviews[v].public /\ ~row.shipIt
  BY <1>3 DEF ReviewRow
<1> HIDE DEF row
<1>5. /\ reviews' \in [Reviews -> ReviewRow] /\ reviews'[v] = row
      /\ \A x \in Reviews : x # v => reviews'[x] = reviews[x]
  BY <1>1, <1>2, <1>3, <1>4
<1>6. RowsTyped'
  BY <1>1, <1>5 DEF BaseInv, TypeOK, RowsTyped
<1>7. Goes(w, "uncount") /\ KeepsIssue(w)
  BY <1>1, ContinueFacts DEF BaseInv, Steps
<1>8. BaseInv'
  BY <1>1, <1>2, <1>6, <1>7, KindKept, GoesBase DEF At
<1>9. QED
  BY <1>1, <1>2, <1>4, <1>5, <1>7, <1>8

LEMMA RecountFacts ==
  ASSUME BaseInv, NEW w \in Workers, Recount(w)
  PROVE  /\ BaseInv' /\ Busy(w) /\ At(w, "recount") /\ SameRows
         /\ worker[w].kind = "drop"
         /\ Goes(w, "save counts")
         /\ worker'[w].fetched = FetchIssueCounts(Reviews)
<1> DEFINE old == worker[w]
           found == FetchIssueCounts(Reviews)
           new == [old EXCEPT !.at = "save counts", !.fetched = found]
<1>1. /\ At(w, "recount") /\ Busy(w) /\ SameRows /\ UNCHANGED conflicts
      /\ worker' = [worker EXCEPT ![w] = new]
  BY DEF Recount, At, Busy, SameRows, Become
<1>2. RowsTyped'
  BY <1>1 DEF SameRows, BaseInv, TypeOK, RowsTyped
<1>3. /\ old.kind = "drop" /\ old \in Request
      /\ found \in [IssueCounters -> Nat]
  BY <1>1, BusyFacts, FetchTyped DEF BaseInv, Kinded, At
<1> HIDE DEF old, found
<1>4. /\ new \in Request /\ new.at = "save counts"
      /\ new.kind = old.kind /\ new.rev = old.rev /\ new.com = old.com
      /\ new.publish = old.publish /\ new.issue = old.issue
      /\ new.fetched = found
  BY <1>3 DEF Request, Steps
<1> HIDE DEF new
<1>5. worker'[w] = new /\ Stays(w)
  BY <1>1 DEF BaseInv, TypeOK, Stays
<1>6. Goes(w, "save counts") /\ KeepsIssue(w)
  BY <1>1, <1>4, <1>5 DEF Goes, KeepsIssue, old
<1>7. BaseInv'
  BY <1>1, <1>2, <1>3, <1>6, KindKept, GoesBase DEF At, old
<1>8. QED
  BY <1>1, <1>3, <1>4, <1>5, <1>6, <1>7 DEF old, found

LEMMA SaveCountsFacts ==
  ASSUME BaseInv, NEW w \in Workers, SaveCounts(w)
  PROVE  /\ BaseInv' /\ Busy(w) /\ At(w, "save counts")
         /\ worker[w].kind = "drop"
         /\ UNCHANGED <<reviews, comments>> /\ Leaves(w) /\ ~Busy(w)'
         /\ conflicts' = conflicts \ {"issues"}
         /\ \A k \in IssueCounters : counts'[k] = worker[w].fetched[k]
         /\ counts'["shipIt"] = counts["shipIt"]
<1>1. /\ At(w, "save counts") /\ Busy(w) /\ Leaves(w) /\ ~Busy(w)'
      /\ conflicts' = conflicts \ {"issues"}
      /\ UNCHANGED <<reviews, comments>>
      /\ counts' = [k \in Counters |-> IF k \in IssueCounters
                                         THEN worker[w].fetched[k]
                                         ELSE counts[k]]
  BY LeavesFacts DEF SaveCounts, At, Busy, BaseInv
<1>2. /\ worker[w].kind = "drop"
      /\ worker[w].fetched \in [IssueCounters -> Nat]
  BY <1>1, BusyFacts DEF BaseInv, Kinded, At
<1> DEFINE new(k) == IF k \in IssueCounters THEN worker[w].fetched[k]
                                             ELSE counts[k]
<1>3. \A k \in Counters : new(k) \in Int
  <2>1. \A k \in IssueCounters : worker[w].fetched[k] \in Int
    BY <1>2
  <2>2. \A k \in Counters : counts[k] \in Int
    BY DEF BaseInv, TypeOK
  <2>3. QED
    BY <2>1, <2>2
<1>4. counts' = [k \in Counters |-> new(k)]
  BY <1>1
<1> HIDE DEF new
<1>5. counts' \in [Counters -> Int] /\ \A k \in Counters : counts'[k] = new(k)
  BY <1>3, <1>4
<1>6. RowsTyped'
  BY <1>1, <1>5 DEF BaseInv, TypeOK, RowsTyped
<1>7. BaseInv'
  BY <1>1, <1>6, LeavesBase DEF BaseInv, TypeOK, Causes
<1>8. QED
  BY <1>1, <1>2, <1>5, <1>7 DEF Counters, IssueCounters, new

LEMMA ToggleBase ==
  ASSUME BaseInv, NEW w \in Workers, Toggle(w)
  PROVE  /\ BaseInv' /\ Busy(w) /\ At(w, "toggle") /\ Ends(w) /\ ~Busy(w)'
         /\ UNCHANGED <<reviews, comments>>
<1>1. PICK old, new :
        IncrementMany([k \in {old, new} |-> IF k = old THEN -1 ELSE 1])
  BY DEF Toggle
<1> DEFINE ch == [k \in {old, new} |-> IF k = old THEN -1 ELSE 1]
<1>2. \A k \in DOMAIN ch : ch[k] \in Int
  OBVIOUS
<1>3. IncrementMany(ch)
  BY <1>1
<1> HIDE DEF ch
<1>4. \A k \in Counters : counts[k] \in Int
  BY DEF BaseInv, TypeOK
<1>5. counts' \in [Counters -> Int]
  BY <1>2, <1>3, <1>4 DEF IncrementMany
<1>6. /\ At(w, "toggle") /\ Busy(w) /\ Ends(w) /\ ~Busy(w)'
      /\ UNCHANGED <<reviews, comments>>
  BY FinishFacts DEF Toggle, At, Busy, BaseInv
<1>7. RowsTyped'
  BY <1>5, <1>6 DEF BaseInv, TypeOK, RowsTyped
<1>8. QED
  BY <1>6, <1>7, EndsBase

LEMMA InitBase == Init => BaseInv
<1> SUFFICES ASSUME Init PROVE BaseInv
  OBVIOUS
<1>1. \A w \in Workers : worker[w] = Rest /\ ~Busy(w)
  BY DEF Init, Busy, At, Rest
<1>2. TypeOK
  BY DEF Init, TypeOK, ReviewRow, Issue
<1>3. Recorded
  BY <1>1 DEF Recorded
<1>4. QED
  BY <1>1, <1>2, <1>3 DEF BaseInv

LEMMA NextBase == BaseInv /\ [Next]_vars => BaseInv'
<1> SUFFICES ASSUME BaseInv, [Next]_vars PROVE BaseInv'
  OBVIOUS
<1>1. CASE UNCHANGED vars
  BY <1>1 DEF vars, BaseInv, TypeOK, Recorded, Kinded, Busy, At
<1>2. ASSUME NEW w \in Workers, Arrive(w) PROVE BaseInv'
  BY <1>2, UpdateReviewFacts, UpdateCommentFacts, UpdateIssueStatusFacts,
     RevokeShipItFacts, DropFacts DEF Arrive
<1>3. ASSUME NEW w \in Workers, Serve(w) PROVE BaseInv'
  BY <1>3, SaveReviewFacts, PublishReviewFacts, RefusePublishFacts,
     FetchIssuesFacts, CountReviewFacts, SaveCommentFacts, LoadReviewFacts,
     ToggleBase, LoadIssueFacts, SaveStatusFacts, SaveRevokedFacts,
     UncountShipItFacts, RecountFacts, SaveCountsFacts DEF Serve
<1>4. ASSUME NEW w \in Workers, Crash(w) PROVE BaseInv'
  BY <1>4, CrashFacts
<1>5. QED
  BY <1>1, <1>2, <1>3, <1>4 DEF Next

LEMMA BaseCorrect == Spec => []BaseInv
  BY InitBase, NextBase, PTL DEF Spec

(* Whatever is served at the same time, and whichever workers die, rows,   *)
(* counters and requests under way have their types: no counter is ever    *)
(* left without a number.                                                  *)
THEOREM TypeCorrect == Spec => []TypeOK
<1>1. BaseInv => TypeOK
  BY DEF BaseInv
<1>2. QED
  BY <1>1, BaseCorrect, PTL

(***************************************************************************)
(* The counters of a review request, its published reviews and the         *)
(* verification of its issues, for any workers, and any finite sets of     *)
(* reviews and comments.                                                   *)
(***************************************************************************)

(***************************************************************************)
(* What holds between two statements.                                      *)
(***************************************************************************)

(* The issues of a review.                                                 *)
IssuesOf(v) == {c \in Comments : ReviewOf[c] = v /\ comments[c].opened}
AllOpen(v) == \A c \in IssuesOf(v) : comments[c].status = Open

(* A draft is written to as a draft; a review that was published is not    *)
(* touched until its issues have been counted, all of which are open if    *)
(* they are counted at all.                                                *)
ReviewFits(w) ==
  /\ worker[w].at \in {"save review", "publish"} =>
       ~reviews[worker[w].rev].public /\ ~worker[w].review.public
  /\ worker[w].kind = "comment" => ~reviews[worker[w].rev].public
  /\ At(w, "save comment") =>
       (worker[w].issue.opened => worker[w].issue.status \in Statuses)
  /\ worker[w].at \in {"fetch", "count"} =>
       reviews[worker[w].rev] = [worker[w].review EXCEPT !.public = TRUE]
  /\ At(w, "count") =>
       /\ AllOpen(worker[w].rev)
       /\ worker[w].fetched["open"] = Cardinality(IssuesOf(worker[w].rev))

(* The status of an issue in a public review is changed; a Ship It that    *)
(* is there is revoked; nothing changes while issues are recounted.        *)
ChangeFits(w) ==
  /\ At(w, "toggle") => worker[w].kind = "status"
  /\ worker[w].kind = "status" =>
       /\ reviews[worker[w].rev].public /\ comments[worker[w].com].opened
       /\ ~At(w, "load issue") => worker[w].prev \in Statuses
       /\ At(w, "toggle") =>
            CounterOf(worker[w].prev) # CounterOf(worker[w].issue.status)
  /\ worker[w].kind = "revoke" =>
       /\ reviews[worker[w].rev].public
       /\ reviews[worker[w].rev].shipIt <=> At(w, "revoke")
  /\ At(w, "save counts") => worker[w].fetched = FetchIssueCounts(Reviews)

(* An issue has a status, be it that of a draft that was dropped.          *)
RowsFit ==
  \A c \in Comments : comments[c].opened => comments[c].status \in Statuses

(***************************************************************************)
(* What the counters count, unless a worker has died before it counted.    *)
(***************************************************************************)

(* A review that has been published and is not counted yet.                *)
Uncounted(v) ==
  \E w \in Workers : worker[w].at \in {"fetch", "count"} /\ worker[w].rev = v
Counted(v) == reviews[v].public /\ ~Uncounted(v)
CountedIssues == {c \in Comments : Counted(ReviewOf[c]) /\ comments[c].opened}

Total == counts["open"] + counts["resolved"] + counts["dropped"]
           + counts["verifying"]
TotalFits == "issues" \in conflicts \/ Total = Cardinality(CountedIssues)

(* A Ship It that was revoked is counted until it is uncounted.            *)
Revoking(v) == \E w \in Workers : At(w, "uncount") /\ worker[w].rev = v
ShipIts == {v \in Reviews : Counted(v) /\ (reviews[v].shipIt \/ Revoking(v))}
ShipItsFit ==
  "shipIt" \in conflicts \/ counts["shipIt"] = Cardinality(ShipIts)

Fits(w) == ReviewFits(w) /\ ChangeFits(w)
Calmness ==
  RowsFit /\ TotalFits /\ ShipItsFit /\ \A w \in Workers : Busy(w) => Fits(w)
CalmInv == "other" \notin conflicts => Calmness

(* An issue whose status was saved is counted with the one before, until   *)
(* the counters are told.                                                  *)
Moving(w, c) ==
  /\ worker[w].at \in {"load review", "toggle"}
  /\ worker[w].kind = "status" /\ worker[w].com = c
CountedAs(c, k) ==
  IF \E w \in Workers : Moving(w, c)
    THEN \E w \in Workers : Moving(w, c) /\ CounterOf(worker[w].prev) = k
    ELSE CounterOf(comments[c].status) = k
IssuesAs(k) == {c \in CountedIssues : CountedAs(c, k)}
Dropping == \E w \in Workers : worker[w].at \in {"recount", "save counts"}
CountsFit ==
  "issues" \in conflicts \/ Dropping \/
    \A k \in IssueCounters : counts[k] = Cardinality(IssuesAs(k))

(* What a worker knows of the status of an issue is so.                    *)
StatusFits(w) ==
  /\ At(w, "save status") =>
       /\ comments[worker[w].com].status = worker[w].prev
       /\ worker[w].verifier \/ ~Refused(worker[w].com, worker[w].prev,
                                         worker[w].issue.status, FALSE)
  /\ \A c \in Comments : Moving(w, c) =>
       comments[c].status = worker[w].issue.status

Exactness == CountsFit /\ \A w \in Workers : Busy(w) => StatusFits(w)
ExactInv == conflicts \cap {"toggle", "other"} = {} => Exactness

(***************************************************************************)
(* Requests that do not collide.                                           *)
(***************************************************************************)

(* A request of this kind about review v leaves alone what x relies on.    *)
Parts(kind, v, x) ==
  /\ kind # "drop" /\ worker[x].kind # "drop"
  /\ \/ v # worker[x].rev
     \/ kind = "status" /\ worker[x].kind \in {"status", "revoke"}
     \/ kind = "revoke" /\ worker[x].kind = "status"

LEMMA ConflictParts ==
  ASSUME NEW rq, NEW x, "other" \notin Conflict(rq, worker[x])
  PROVE  Parts(rq.kind, rq.rev, x)
<1>1. "drop" \notin {rq.kind, worker[x].kind}
  BY DEF Conflict
<1>2. CASE rq.kind = "status" /\ worker[x].kind = "status"
  BY <1>2 DEF Parts
<1>3. CASE {rq.kind, worker[x].kind} = {"status", "revoke"}
  BY <1>3 DEF Parts
<1>4. CASE /\ ~(rq.kind = "status" /\ worker[x].kind = "status")
           /\ {rq.kind, worker[x].kind} # {"status", "revoke"}
  <2>1. rq.rev # worker[x].rev
    BY <1>1, <1>4 DEF Conflict
  <2>2. QED
    BY <1>1, <2>1 DEF Parts
<1>5. QED
  BY <1>2, <1>3, <1>4

LEMMA Apart ==
  ASSUME BaseInv, "other" \notin conflicts, NEW w \in Workers, Busy(w),
         NEW x \in Workers, Busy(x), w # x
  PROVE  Parts(worker[w].kind, worker[w].rev, x)
  BY ConflictParts DEF BaseInv, Recorded

LEMMA BeginsApart ==
  ASSUME NEW w \in Workers, NEW step, NEW kind, NEW v, NEW c,
         Begins(w, step, kind, v, c), "other" \notin conflicts',
         NEW x \in Workers, Busy(x), w # x
  PROVE  Parts(kind, v, x)
<1>1. "other" \notin Conflict(worker'[w], worker[x])
  BY DEF Begins
<1>2. QED
  BY <1>1, ConflictParts DEF Begins

(* The rows that a statement of this kind about review v writes.           *)
Changes(kind, v) ==
  /\ \A u \in Reviews : u # v => reviews'[u] = reviews[u]
  /\ \A c \in Comments : ReviewOf[c] # v => comments'[c] = comments[c]
  /\ kind = "status" => UNCHANGED reviews
  /\ kind = "revoke" =>
       /\ UNCHANGED comments
       /\ \A u \in Reviews : reviews'[u].public = reviews[u].public
  /\ kind = "status" =>
       \A c \in Comments : comments'[c].opened = comments[c].opened

LEMMA OthersFit ==
  ASSUME BaseInv, Calmness, NEW w \in Workers, Stays(w), NEW kind, NEW v,
         Changes(kind, v),
         \A x \in Workers \ {w} : Busy(x) => Parts(kind, v, x)
  PROVE  \A x \in Workers \ {w} : Busy(x)' => Fits(x)'
<1>1. SUFFICES ASSUME NEW x \in Workers \ {w}, Busy(x)' PROVE Fits(x)'
  OBVIOUS
<1>2. worker'[x] = worker[x] /\ Busy(x)
  BY <1>1 DEF Stays, Busy, At
<1>3. Fits(x) /\ Parts(kind, v, x) /\ Kinded(x)
  BY <1>2 DEF Calmness, BaseInv
<1>4. worker[x].rev \in Reviews
  BY <1>2, BusyFacts DEF BaseInv
<1>5. CASE v # worker[x].rev
  <2>1. /\ reviews'[worker[x].rev] = reviews[worker[x].rev]
        /\ \A c \in Comments : ReviewOf[c] = worker[x].rev =>
              comments'[c] = comments[c]
    BY <1>4, <1>5 DEF Changes
  <2>2. IssuesOf(worker[x].rev)' = IssuesOf(worker[x].rev)
    BY <1>2, <2>1 DEF IssuesOf
  <2>3. AllOpen(worker[x].rev)' <=> AllOpen(worker[x].rev)
    BY <1>2, <2>1, <2>2 DEF AllOpen, IssuesOf
  <2>4. ReviewFits(x)'
    BY <1>2, <1>3, <2>1, <2>2, <2>3 DEF Fits, ReviewFits, At
  <2>5. ChangeFits(x)'
    BY <1>2, <1>3, <2>1 DEF Fits, ChangeFits, Kinded, Parts, At
  <2>6. QED
    BY <2>4, <2>5 DEF Fits
<1>6. CASE v = worker[x].rev
  <2>1. /\ worker[x].kind \in {"status", "revoke"}
        /\ reviews'[worker[x].rev].public = reviews[worker[x].rev].public
        /\ worker[x].kind = "revoke" => UNCHANGED reviews
        /\ worker[x].kind = "status" =>
             comments'[worker[x].com].opened = comments[worker[x].com].opened
    BY <1>3, <1>4, <1>6 DEF Parts, Changes, Kinded
  <2>2. ReviewFits(x)'
    BY <1>2, <1>3, <2>1 DEF Fits, ReviewFits, Kinded, At
  <2>3. ChangeFits(x)'
    BY <1>2, <1>3, <2>1 DEF Fits, ChangeFits, Kinded, At
  <2>4. QED
    BY <2>2, <2>3 DEF Fits
<1>7. QED
  BY <1>5, <1>6

(***************************************************************************)
(* Statements that count nothing.                                          *)
(***************************************************************************)

(* The worker counts, or uncounts, what it did before.                     *)
Quietly(w) ==
  /\ worker'[w].at \in {"fetch", "count"} <=> worker[w].at \in {"fetch", "count"}
  /\ At(w, "uncount")' <=> At(w, "uncount")
  /\ worker[w].at \in {"fetch", "count", "uncount"} =>
       worker'[w].rev = worker[w].rev

(* What is counted already is kept as it is.                               *)
KeepsCounted ==
  /\ \A v \in Reviews : Counted(v)' <=> Counted(v)
  /\ \A v \in Reviews : Revoking(v)' <=> Revoking(v)
  /\ \A v \in Reviews : Counted(v) => reviews'[v].shipIt = reviews[v].shipIt
  /\ \A c \in Comments :
       Counted(ReviewOf[c]) => comments'[c].opened = comments[c].opened

(* A review that was published stays public, and its issues are the same.  *)
Kept ==
  /\ \A v \in Reviews : reviews[v].public => reviews'[v].public
  /\ \A c \in Comments :
       reviews[ReviewOf[c]].public => comments'[c].opened = comments[c].opened

(* Drafts stay drafts, and Ship Its of public reviews are the same.        *)
PublishesNone ==
  \A v \in Reviews :
    /\ reviews'[v].public => reviews[v].public
    /\ reviews[v].public => reviews'[v].shipIt = reviews[v].shipIt

LEMMA QuietlyKeeps ==
  ASSUME NEW w \in Workers, Stays(w), Quietly(w), Kept, PublishesNone
  PROVE  KeepsCounted
<1>1. ASSUME NEW v \in Reviews PROVE Uncounted(v)' <=> Uncounted(v)
  BY DEF Stays, Quietly, Uncounted
<1>2. ASSUME NEW v \in Reviews PROVE Revoking(v)' <=> Revoking(v)
  BY DEF Stays, Quietly, Revoking, At
<1>3. QED
  BY <1>1, <1>2, IssueAssumption
     DEF KeepsCounted, Counted, Kept, PublishesNone

LEMMA CountedSame ==
  ASSUME KeepsCounted
  PROVE  CountedIssues' = CountedIssues /\ ShipIts' = ShipIts
<1>1. CountedIssues' = CountedIssues
  BY IssueAssumption DEF KeepsCounted, CountedIssues
<1>2. ShipIts' = ShipIts
  BY DEF KeepsCounted, ShipIts
<1>3. QED
  BY <1>1, <1>2

LEMMA CountersFit ==
  ASSUME KeepsCounted, Calmness, conflicts \subseteq conflicts',
         Total' = Total, counts'["shipIt"] = counts["shipIt"]
  PROVE  TotalFits' /\ ShipItsFit'
<1>1. Cardinality(CountedIssues)' = Cardinality(CountedIssues)
  BY CountedSame
<1>2. Cardinality(ShipIts)' = Cardinality(ShipIts)
  BY CountedSame
<1>3. QED
  BY <1>1, <1>2 DEF Calmness, TotalFits, ShipItsFit

LEMMA SameCounts ==
  ASSUME UNCHANGED counts
  PROVE  Total' = Total /\ counts'["shipIt"] = counts["shipIt"]
  BY DEF Total

(* A statement of w that keeps what is counted, as a request of its kind.  *)
LEMMA CalmKept ==
  ASSUME BaseInv, Calmness, conflicts \subseteq conflicts',
         NEW w \in Workers, Stays(w), NEW kind, NEW v,
         Changes(kind, v),
         \A x \in Workers \ {w} : Busy(x) => Parts(kind, v, x),
         KeepsCounted, Total' = Total, counts'["shipIt"] = counts["shipIt"],
         Busy(w)' => Fits(w)', RowsFit'
  PROVE  Calmness'
  BY OthersFit, CountersFit DEF Calmness

LEMMA SameRowsKeep ==
  ASSUME SameRows, RowsFit
  PROVE  /\ RowsFit' /\ Kept /\ PublishesNone
         /\ \A kind, v : Changes(kind, v)
         /\ Total' = Total /\ counts'["shipIt"] = counts["shipIt"]
<1>1. UNCHANGED reviews /\ UNCHANGED comments /\ UNCHANGED counts
  BY DEF SameRows
<1>2. RowsFit'
  BY <1>1 DEF RowsFit
<1>3. Kept /\ PublishesNone
  BY <1>1 DEF Kept, PublishesNone
<1>4. \A kind, v : Changes(kind, v)
  BY <1>1 DEF Changes
<1>5. QED
  BY <1>1, <1>2, <1>3, <1>4, SameCounts

(***************************************************************************)
(* Requests that arrive.                                                   *)
(***************************************************************************)

LEMMA BeginsCalm ==
  ASSUME BaseInv, Calmness, "other" \notin conflicts', NEW w \in Workers,
         NEW step, NEW kind, NEW v, NEW c, Begins(w, step, kind, v, c),
         step \notin {"fetch", "count", "uncount"}, SameRows, Fits(w)'
  PROVE  Calmness' /\ Kept /\ KeepsCounted
<1>1. RowsFit
  BY DEF Calmness
<1>2. /\ RowsFit' /\ Kept /\ PublishesNone /\ Changes(kind, v)
      /\ Total' = Total /\ counts'["shipIt"] = counts["shipIt"]
  BY <1>1, SameRowsKeep
<1>3. /\ Stays(w) /\ ~Busy(w) /\ worker'[w].at = step
      /\ conflicts \subseteq conflicts'
  BY DEF Begins
<1>4. Quietly(w)
  BY <1>3 DEF Quietly, Busy, At
<1>5. KeepsCounted
  BY <1>2, <1>3, <1>4, QuietlyKeeps
<1>6. \A x \in Workers \ {w} : Busy(x) => Parts(kind, v, x)
  BY BeginsApart
<1>7. QED
  BY <1>2, <1>3, <1>5, <1>6, CalmKept

LEMMA UpdateReviewCalm ==
  ASSUME BaseInv, Calmness, "other" \notin conflicts', NEW w \in Workers,
         NEW v \in Reviews, NEW shipIt \in BOOLEAN, NEW publish \in BOOLEAN,
         UpdateReview(w, v, shipIt, publish)
  PROVE  Calmness' /\ Kept /\ KeepsCounted
<1>1. /\ Begins(w, "save review", "review", v, NoComment) /\ SameRows
      /\ ~reviews[v].public /\ ~worker'[w].review.public
  BY UpdateReviewFacts
<1>2. ~reviews'[v].public
  BY <1>1 DEF SameRows
<1>3. Fits(w)'
  BY <1>1, <1>2 DEF Begins, Fits, ReviewFits, ChangeFits, At
<1>4. QED
  BY <1>1, <1>3, BeginsCalm

LEMMA UpdateCommentCalm ==
  ASSUME BaseInv, Calmness, "other" \notin conflicts', NEW w \in Workers,
         NEW c \in Comments, NEW opened \in BOOLEAN,
         UpdateComment(w, c, opened)
  PROVE  Calmness' /\ Kept /\ KeepsCounted
<1>1. /\ Begins(w, "save comment", "comment", ReviewOf[c], c) /\ SameRows
      /\ ~reviews[ReviewOf[c]].public
      /\ worker'[w].issue.opened =>
           worker'[w].issue.status = Open \/
             /\ comments[c].opened
             /\ worker'[w].issue.status = comments[c].status
  BY UpdateCommentFacts
<1>2. ~reviews'[ReviewOf[c]].public
  BY <1>1 DEF SameRows
<1>3. worker'[w].issue.opened => worker'[w].issue.status \in Statuses
  BY <1>1 DEF Calmness, RowsFit, Statuses
<1>4. Fits(w)'
  BY <1>1, <1>2, <1>3 DEF Begins, Fits, ReviewFits, ChangeFits, At
<1>5. QED
  BY <1>1, <1>4, BeginsCalm

LEMMA UpdateIssueStatusCalm ==
  ASSUME BaseInv, Calmness, "other" \notin conflicts', NEW w \in Workers,
         NEW c \in Comments, NEW status \in Statuses, NEW verifier \in BOOLEAN,
         UpdateIssueStatus(w, c, status, verifier)
  PROVE  Calmness' /\ Kept /\ KeepsCounted
<1>1. /\ Begins(w, "load issue", "status", ReviewOf[c], c) /\ SameRows
      /\ reviews[ReviewOf[c]].public /\ comments[c].opened
  BY UpdateIssueStatusFacts
<1>2. reviews'[ReviewOf[c]].public /\ comments'[c].opened
  BY <1>1 DEF SameRows
<1>3. Fits(w)'
  BY <1>1, <1>2 DEF Begins, Fits, ReviewFits, ChangeFits, At
<1>4. QED
  BY <1>1, <1>3, BeginsCalm

LEMMA RevokeShipItCalm ==
  ASSUME BaseInv, Calmness, "other" \notin conflicts', NEW w \in Workers,
         NEW v \in Reviews, RevokeShipIt(w, v)
  PROVE  Calmness' /\ Kept /\ KeepsCounted
<1>1. /\ Begins(w, "revoke", "revoke", v, NoComment) /\ SameRows
      /\ reviews[v].public /\ reviews[v].shipIt
  BY RevokeShipItFacts
<1>2. reviews'[v].public /\ reviews'[v].shipIt
  BY <1>1 DEF SameRows
<1>3. Fits(w)'
  BY <1>1, <1>2 DEF Begins, Fits, ReviewFits, ChangeFits, At
<1>4. QED
  BY <1>1, <1>3, BeginsCalm

LEMMA DropCalm ==
  ASSUME BaseInv, Calmness, "other" \notin conflicts', NEW w \in Workers,
         NEW v \in Reviews, DropOpenIssues(w, v)
  PROVE  Calmness' /\ Kept /\ KeepsCounted
<1>1. /\ Begins(w, "recount", "drop", v, NoComment)
      /\ UNCHANGED reviews /\ UNCHANGED counts
      /\ \A c \in Comments :
           /\ comments'[c].opened = comments[c].opened
           /\ comments[c].status \in Statuses => comments'[c].status \in Statuses
           /\ ReviewOf[c] # v => comments'[c] = comments[c]
  BY DropFacts
<1>2. /\ Stays(w) /\ ~Busy(w) /\ worker'[w].at = "recount"
      /\ worker'[w].kind = "drop" /\ conflicts \subseteq conflicts'
  BY <1>1 DEF Begins
<1>3. \A x \in Workers \ {w} : Busy(x) => Parts("drop", v, x)
  BY <1>1, BeginsApart
<1>4. Kept /\ PublishesNone /\ Quietly(w) /\ Changes("drop", v)
  BY <1>1, <1>2 DEF Kept, PublishesNone, Quietly, Changes, Busy, At
<1>5. KeepsCounted
  BY <1>2, <1>4, QuietlyKeeps
<1>6. RowsFit'
  BY <1>1, IssueAssumption DEF Calmness, RowsFit
<1>7. Fits(w)'
  BY <1>2 DEF Fits, ReviewFits, ChangeFits, At
<1>8. QED
  BY <1>1, <1>2, <1>3, <1>4, <1>5, <1>6, <1>7, SameCounts, CalmKept

(***************************************************************************)
(* Statements of requests under way.                                       *)
(***************************************************************************)

LEMMA ServesCalm ==
  ASSUME BaseInv, Calmness, "other" \notin conflicts, NEW w \in Workers,
         Stays(w), UNCHANGED conflicts, Busy(w),
         Changes(worker[w].kind, worker[w].rev),
         KeepsCounted, Total' = Total, counts'["shipIt"] = counts["shipIt"],
         Busy(w)' => Fits(w)', RowsFit'
  PROVE  Calmness'
<1>1. \A x \in Workers \ {w} :
        Busy(x) => Parts(worker[w].kind, worker[w].rev, x)
  BY Apart
<1>2. QED
  BY <1>1, CalmKept

LEMMA SameRowsCalm ==
  ASSUME BaseInv, Calmness, "other" \notin conflicts, NEW w \in Workers,
         Stays(w), UNCHANGED conflicts, Busy(w), SameRows, Quietly(w),
         Busy(w)' => Fits(w)'
  PROVE  Calmness' /\ Kept /\ KeepsCounted
<1>1. RowsFit
  BY DEF Calmness
<1>2. /\ RowsFit' /\ Kept /\ PublishesNone
      /\ Changes(worker[w].kind, worker[w].rev)
      /\ Total' = Total /\ counts'["shipIt"] = counts["shipIt"]
  BY <1>1, SameRowsKeep
<1>3. KeepsCounted
  BY <1>2, QuietlyKeeps
<1>4. QED
  BY <1>2, <1>3, ServesCalm

LEMMA EndsQuietly ==
  ASSUME NEW w \in Workers, Ends(w),
         worker[w].at \notin {"fetch", "count", "uncount"}
  PROVE  Stays(w) /\ UNCHANGED conflicts /\ Quietly(w) /\ ~Busy(w)'
  BY DEF Ends, Rest, Quietly, Busy, At

LEMMA GoesQuietly ==
  ASSUME NEW w \in Workers, NEW step, Goes(w, step),
         step \notin {"rest", "fetch", "count", "uncount"},
         worker[w].at \notin {"fetch", "count", "uncount"}
  PROVE  Stays(w) /\ UNCHANGED conflicts /\ Quietly(w) /\ Busy(w)'
  BY DEF Goes, Quietly, Busy, At

LEMMA SaveReviewCalm ==
  ASSUME BaseInv, Calmness, "other" \notin conflicts, NEW w \in Workers,
         SaveReview(w)
  PROVE  Calmness' /\ Kept /\ KeepsCounted
<1> DEFINE v == worker[w].rev
<1>1. /\ Busy(w) /\ At(w, "save review")
      /\ reviews' = [reviews EXCEPT ![v] = worker[w].review]
      /\ UNCHANGED comments /\ UNCHANGED counts
      /\ \/ Ends(w) /\ ~Busy(w)'
         \/ Goes(w, "publish") /\ KeepsReview(w) /\ worker[w].kind = "review"
  BY SaveReviewFacts
<1>2. Fits(w) /\ Kinded(w) /\ v \in Reviews
  BY <1>1, BusyFacts DEF Calmness, BaseInv
<1>3. ~reviews[v].public /\ ~worker[w].review.public
  BY <1>1, <1>2 DEF Fits, ReviewFits, At
<1>4. /\ ~reviews'[v].public
      /\ \A u \in Reviews : u # v => reviews'[u] = reviews[u]
  BY <1>1, <1>2, <1>3 DEF BaseInv, TypeOK
<1>5. Stays(w) /\ UNCHANGED conflicts /\ Quietly(w)
  BY <1>1, EndsQuietly, GoesQuietly DEF At
<1>6. Kept /\ PublishesNone
  BY <1>1, <1>3, <1>4 DEF Kept, PublishesNone
<1>7. worker[w].kind \notin {"status", "revoke"}
  BY <1>1, <1>2, <1>3 DEF Fits, ChangeFits
<1>8. Changes(worker[w].kind, v)
  BY <1>1, <1>4, <1>7 DEF Changes
<1>9. RowsFit'
  BY <1>1, <1>3, <1>4, IssueAssumption DEF Calmness, RowsFit
<1>10. Busy(w)' => Fits(w)'
  <2>1. SUFFICES ASSUME Goes(w, "publish"), KeepsReview(w),
                        worker[w].kind = "review"
                 PROVE  Fits(w)'
    BY <1>1
  <2>2. QED
    BY <1>3, <1>4, <2>1
       DEF Goes, KeepsReview, Fits, ReviewFits, ChangeFits, At
<1>11. KeepsCounted
  BY <1>5, <1>6, QuietlyKeeps
<1>12. QED
  BY <1>1, <1>5, <1>6, <1>8, <1>9, <1>10, <1>11, SameCounts, ServesCalm

LEMMA PublishReviewCalm ==
  ASSUME BaseInv, Calmness, "other" \notin conflicts, NEW w \in Workers,
         PublishReview(w)
  PROVE  Calmness' /\ Kept /\ KeepsCounted
<1> DEFINE v == worker[w].rev
           row == [worker[w].review EXCEPT !.public = TRUE]
<1>1. /\ Busy(w) /\ At(w, "publish") /\ reviews' = [reviews EXCEPT ![v] = row]
      /\ UNCHANGED comments /\ UNCHANGED counts
      /\ Goes(w, "fetch") /\ KeepsReview(w)
  BY PublishReviewFacts
<1>2. Fits(w) /\ Kinded(w) /\ v \in Reviews /\ worker[w].review \in ReviewRow
  BY <1>1, BusyFacts DEF Calmness, BaseInv
<1>3. ~reviews[v].public /\ worker[w].kind = "review"
  BY <1>1, <1>2 DEF Fits, ReviewFits, Kinded, At
<1>4. row.public
  BY <1>2 DEF ReviewRow
<1>5. /\ reviews'[v] = row /\ reviews'[v].public
      /\ \A u \in Reviews : u # v => reviews'[u] = reviews[u]
  BY <1>1, <1>2, <1>4 DEF BaseInv, TypeOK
<1>6. Kept /\ Changes("review", v)
  BY <1>1, <1>5 DEF Kept, Changes
<1>7. \A u \in Reviews : Uncounted(u)' <=> Uncounted(u) \/ u = v
  BY <1>1 DEF Goes, Stays, Uncounted, At
<1>8. \A u \in Reviews : Revoking(u)' <=> Revoking(u)
  BY <1>1 DEF Goes, Stays, Revoking, At
<1>9. KeepsCounted
  BY <1>1, <1>3, <1>5, <1>7, <1>8, IssueAssumption DEF KeepsCounted, Counted
<1>10. RowsFit'
  BY <1>1, <1>5, IssueAssumption DEF Calmness, RowsFit
<1>11. Fits(w)'
  <2>1. /\ worker'[w].at = "fetch" /\ worker'[w].kind = "review"
        /\ worker'[w].rev = v /\ worker'[w].review = worker[w].review
    BY <1>1, <1>3 DEF Goes, KeepsReview
  <2>2. reviews'[worker'[w].rev] = [worker'[w].review EXCEPT !.public = TRUE]
    BY <1>5, <2>1
  <2>3. QED
    BY <2>1, <2>2 DEF Fits, ReviewFits, ChangeFits, At
<1>12. Stays(w) /\ UNCHANGED conflicts
  BY <1>1 DEF Goes
<1>13. QED
  BY <1>1, <1>3, <1>6, <1>9, <1>10, <1>11, <1>12, SameCounts, ServesCalm

LEMMA RefusePublishCalm ==
  ASSUME BaseInv, Calmness, "other" \notin conflicts, NEW w \in Workers,
         RefusePublish(w)
  PROVE  Calmness' /\ Kept /\ KeepsCounted
<1>1. Busy(w) /\ At(w, "publish") /\ SameRows /\ Ends(w)
  BY RefusePublishFacts
<1>2. QED
  BY <1>1, EndsQuietly, SameRowsCalm DEF At

(* Nothing that counts is lost with a worker but what it has not counted.  *)
LEMMA CrashKeeps ==
  ASSUME Calmness, NEW w \in Workers, Leaves(w), SameRows,
         worker[w].at \notin {"fetch", "count"}
  PROVE  CountedIssues' = CountedIssues
<1>1. \A v \in Reviews : Uncounted(v)' <=> Uncounted(v)
  BY DEF Leaves, Stays, Rest, Uncounted
<1>2. QED
  BY <1>1, IssueAssumption DEF CountedIssues, Counted, SameRows

LEMMA CrashCalm ==
  ASSUME BaseInv, Calmness, "other" \notin conflicts, NEW w \in Workers,
         Crash(w)
  PROVE  Calmness' /\ Kept
<1>1. /\ Busy(w) /\ SameRows /\ Leaves(w) /\ ~Busy(w)'
      /\ conflicts' = conflicts \cup Uncounting(w)
  BY CrashFacts
<1>2. /\ RowsFit' /\ Kept /\ PublishesNone
      /\ Changes(worker[w].kind, worker[w].rev)
      /\ Total' = Total /\ counts'["shipIt"] = counts["shipIt"]
  BY <1>1, SameRowsKeep DEF Calmness
<1>3. \A x \in Workers \ {w} :
        Busy(x) => Parts(worker[w].kind, worker[w].rev, x)
  BY <1>1, Apart
<1>4. \A x \in Workers \ {w} : Busy(x)' => Fits(x)'
  BY <1>1, <1>2, <1>3, OthersFit DEF Leaves
<1>5. TotalFits'
  <2>1. CASE worker[w].at \in {"fetch", "count"}
    BY <1>1, <2>1 DEF Uncounting, TotalFits
  <2>2. CASE worker[w].at \notin {"fetch", "count"}
    <3>1. Cardinality(CountedIssues)' = Cardinality(CountedIssues)
      BY <1>1, <2>2, CrashKeeps, Zenon
    <3>2. QED
      BY <1>1, <1>2, <3>1 DEF Calmness, TotalFits
  <2>3. QED
    BY <2>1, <2>2
<1>6. ShipItsFit'
  <2>1. CASE worker[w].at \in {"fetch", "count", "uncount"}
    BY <1>1, <2>1 DEF Uncounting, ShipItsFit
  <2>2. CASE worker[w].at \notin {"fetch", "count", "uncount"}
    <3>1. Stays(w) /\ Quietly(w)
      BY <1>1, <2>2 DEF Leaves, Rest, Quietly, At
    <3>2. KeepsCounted
      BY <1>2, <3>1, QuietlyKeeps
    <3>3. QED
      BY <1>1, <1>2, <3>2, CountersFit
  <2>3. QED
    BY <2>1, <2>2
<1>7. QED
  BY <1>1, <1>2, <1>4, <1>5, <1>6 DEF Calmness

LEMMA OpenCounted == CounterOf(Open) = "open"
  BY DEF CounterOf, Open, Resolved, Dropped, VerifyingResolved, VerifyingDropped

(* If no issue of a public review is counted with another status, all of   *)
(* them are open.                                                          *)
LEMMA FetchedOpen ==
  ASSUME NEW v \in Reviews, reviews[v].public, RowsFit,
         \A k \in IssueCounters \ {"open"} : FetchIssueCounts({v})[k] = 0
  PROVE  /\ AllOpen(v)
         /\ FetchIssueCounts({v})["open"] = Cardinality(IssuesOf(v))
<1> DEFINE S(k) == {c \in Comments : /\ ReviewOf[c] \in {v}
                                     /\ reviews[ReviewOf[c]].public
                                     /\ comments[c].opened
                                     /\ comments[c].status # NoStatus
                                     /\ CounterOf(comments[c].status) = k}
<1>1. \A k \in IssueCounters : FetchIssueCounts({v})[k] = Cardinality(S(k))
  BY FetchTyped
<1>2. CounterOf(Open) = "open" /\ Open # NoStatus
  BY OpenCounted, IssueAssumption DEF Statuses
<1>3. ASSUME NEW k \in IssueCounters \ {"open"} PROVE S(k) = {}
  <2>1. IsFiniteSet(S(k))
    BY IssuesFinite
  <2>2. Cardinality(S(k)) = 0
    BY <1>1
  <2> HIDE DEF S
  <2>3. QED
    BY <2>1, <2>2, FS_EmptySet
<1>4. ASSUME NEW c \in IssuesOf(v) PROVE comments[c].status = Open
  <2>1. /\ c \in Comments /\ ReviewOf[c] = v /\ comments[c].opened
        /\ comments[c].status \in Statuses
    BY DEF IssuesOf, RowsFit
  <2>2. comments[c].status # NoStatus
    BY <2>1, IssueAssumption
  <2>3. CounterOf(comments[c].status) \in IssueCounters
    BY <2>1, CounterTyped
  <2>4. c \in S(CounterOf(comments[c].status))
    BY <2>1, <2>2
  <2>5. CounterOf(comments[c].status) = "open"
    BY <1>3, <2>3, <2>4
  <2>6. QED
    BY <2>1, <2>5 DEF Statuses, CounterOf, Open, Resolved, Dropped,
       VerifyingResolved, VerifyingDropped
<1>5. S("open") = IssuesOf(v)
  BY <1>2, <1>4 DEF IssuesOf
<1>6. FetchIssueCounts({v})["open"] = Cardinality(S("open"))
  BY <1>1 DEF IssueCounters
<1> HIDE DEF S
<1>7. QED
  BY <1>4, <1>5, <1>6 DEF AllOpen

(* If the assertions fail, the request ends as one that dies.              *)
LEMMA FetchIssuesCalm ==
  ASSUME BaseInv, Calmness, "other" \notin conflicts, NEW w \in Workers,
         FetchIssues(w)
  PROVE  Calmness' /\ Kept /\ (KeepsCounted \/ Crash(w))
<1> DEFINE v == worker[w].rev
           found == FetchIssueCounts({v})
<1>1. /\ Busy(w) /\ At(w, "fetch") /\ SameRows
      /\ \/ Crash(w)
         \/ /\ \A k \in IssueCounters \ {"open"} : found[k] = 0
            /\ Goes(w, "count") /\ KeepsReview(w)
            /\ worker'[w].fetched = found
  BY FetchIssuesFacts
<1>2. CASE Crash(w)
  BY <1>2, CrashCalm
<1>3. CASE ~Crash(w)
  <2>1. Fits(w) /\ Kinded(w) /\ v \in Reviews /\ worker[w].review \in ReviewRow
    BY <1>1, BusyFacts DEF Calmness, BaseInv
  <2>2. /\ reviews[v] = [worker[w].review EXCEPT !.public = TRUE]
        /\ worker[w].kind = "review"
    BY <1>1, <2>1 DEF Fits, ReviewFits, Kinded, At
  <2>3. reviews[v].public
    BY <2>1, <2>2 DEF ReviewRow
  <2>4. AllOpen(v) /\ found["open"] = Cardinality(IssuesOf(v))
    BY <1>1, <1>3, <2>1, <2>3, FetchedOpen DEF Calmness
  <2>5. /\ worker'[w].at = "count" /\ worker'[w].kind = "review"
        /\ worker'[w].rev = v /\ worker'[w].review = worker[w].review
        /\ worker'[w].fetched = found /\ Stays(w)
        /\ UNCHANGED conflicts
    BY <1>1, <1>3, <2>2 DEF Goes, KeepsReview
  <2>6. UNCHANGED reviews /\ UNCHANGED comments
    BY <1>1 DEF SameRows
  <2>7. Fits(w)'
    <3>1. reviews'[worker'[w].rev] = [worker'[w].review EXCEPT !.public = TRUE]
      BY <2>2, <2>5, <2>6
    <3>2. AllOpen(worker[w].rev)'
      BY <2>4, <2>5, <2>6 DEF AllOpen, IssuesOf
    <3>3. IssuesOf(worker[w].rev)' = IssuesOf(worker[w].rev)
      BY <2>5, <2>6 DEF IssuesOf
    <3>4. worker'[w].fetched["open"] = Cardinality(IssuesOf(worker[w].rev))'
      BY <2>4, <2>5, <3>3
    <3>5. QED
      BY <2>5, <3>1, <3>2, <3>4 DEF Fits, ReviewFits, ChangeFits, At
  <2>8. Quietly(w)
    BY <1>1, <2>5 DEF Quietly, At
  <2>9. QED
    BY <1>1, <2>5, <2>7, <2>8, SameRowsCalm
<1>4. QED
  BY <1>2, <1>3

LEMMA SaveCommentCalm ==
  ASSUME BaseInv, Calmness, "other" \notin conflicts, NEW w \in Workers,
         SaveComment(w)
  PROVE  Calmness' /\ Kept /\ KeepsCounted
<1> DEFINE c == worker[w].com
           v == worker[w].rev
<1>1. /\ Busy(w) /\ At(w, "save comment") /\ worker[w].kind = "comment"
      /\ c \in Comments /\ v = ReviewOf[c]
      /\ comments' = [comments EXCEPT ![c] = worker[w].issue]
      /\ UNCHANGED reviews /\ UNCHANGED counts /\ Goes(w, "load review")
  BY SaveCommentFacts
<1>2. Fits(w)
  BY <1>1 DEF Calmness
<1>3. /\ ~reviews[v].public
      /\ worker[w].issue.opened => worker[w].issue.status \in Statuses
  BY <1>1, <1>2 DEF Fits, ReviewFits
<1>4. /\ comments'[c] = worker[w].issue
      /\ \A d \in Comments : d # c => comments'[d] = comments[d]
  BY <1>1 DEF BaseInv, TypeOK
<1>5. Kept /\ PublishesNone
  BY <1>1, <1>3, <1>4 DEF Kept, PublishesNone
<1>6. Changes("comment", v)
  BY <1>1, <1>4 DEF Changes
<1>7. RowsFit'
  BY <1>1, <1>3, <1>4 DEF Calmness, RowsFit
<1>8. Fits(w)'
  BY <1>1, <1>3 DEF Goes, Fits, ReviewFits, ChangeFits, At
<1>9. Stays(w) /\ UNCHANGED conflicts /\ Quietly(w)
  BY <1>1, GoesQuietly DEF At
<1>10. KeepsCounted
  BY <1>5, <1>9, QuietlyKeeps
<1>11. QED
  BY <1>1, <1>5, <1>6, <1>7, <1>8, <1>9, <1>10, SameCounts, ServesCalm

LEMMA LoadReviewCalm ==
  ASSUME BaseInv, Calmness, "other" \notin conflicts, NEW w \in Workers,
         LoadReview(w)
  PROVE  Calmness' /\ Kept /\ KeepsCounted
<1> DEFINE v == worker[w].rev
<1>1. /\ Busy(w) /\ At(w, "load review") /\ SameRows
      /\ worker[w].kind \in {"comment", "status"}
      /\ \/ /\ ~reviews[v].public /\ Goes(w, "save review")
            /\ worker'[w].review = reviews[v]
         \/ reviews[v].public /\ Ends(w)
         \/ /\ reviews[v].public /\ Goes(w, "toggle")
            /\ KeepsIssue(w) /\ KeepsPrev(w)
            /\ CounterOf(worker[w].prev) # CounterOf(worker[w].issue.status)
  BY LoadReviewFacts
<1>2. Fits(w)
  BY <1>1 DEF Calmness
<1>3. UNCHANGED reviews /\ UNCHANGED comments
  BY <1>1 DEF SameRows
<1>4. CASE Goes(w, "save review") /\ worker'[w].review = reviews[v]
             /\ ~reviews[v].public
  <2>1. worker[w].kind = "comment"
    BY <1>1, <1>2, <1>4 DEF Fits, ChangeFits
  <2>2. Fits(w)'
    BY <1>3, <1>4, <2>1 DEF Goes, Fits, ReviewFits, ChangeFits, At
  <2>3. QED
    BY <1>1, <1>4, <2>2, GoesQuietly, SameRowsCalm DEF At
<1>5. CASE Ends(w)
  BY <1>1, <1>5, EndsQuietly, SameRowsCalm DEF At
<1>6. CASE /\ reviews[v].public /\ Goes(w, "toggle")
           /\ KeepsIssue(w) /\ KeepsPrev(w)
           /\ CounterOf(worker[w].prev) # CounterOf(worker[w].issue.status)
  <2>1. worker[w].kind = "status"
    BY <1>1, <1>2, <1>6 DEF Fits, ReviewFits
  <2>2. /\ comments[worker[w].com].opened /\ worker[w].prev \in Statuses
    BY <1>1, <1>2, <2>1 DEF Fits, ChangeFits, At
  <2>3. Fits(w)'
    BY <1>3, <1>6, <2>1, <2>2
       DEF Goes, KeepsIssue, KeepsPrev, Fits, ReviewFits, ChangeFits, At
  <2>4. QED
    BY <1>1, <1>6, <2>3, GoesQuietly, SameRowsCalm DEF At
<1>7. QED
  BY <1>1, <1>4, <1>5, <1>6

LEMMA LoadIssueCalm ==
  ASSUME BaseInv, Calmness, "other" \notin conflicts, NEW w \in Workers,
         LoadIssue(w)
  PROVE  Calmness' /\ Kept /\ KeepsCounted
<1>1. /\ Busy(w) /\ At(w, "load issue") /\ SameRows
      /\ worker[w].kind = "status" /\ worker[w].com \in Comments
      /\ \/ Ends(w)
         \/ /\ Goes(w, "save status") /\ comments[worker[w].com].opened
            /\ worker'[w].prev = comments[worker[w].com].status
  BY LoadIssueFacts
<1>2. Fits(w) /\ UNCHANGED reviews /\ UNCHANGED comments
  BY <1>1 DEF Calmness, SameRows
<1>3. CASE Ends(w)
  BY <1>1, <1>3, EndsQuietly, SameRowsCalm DEF At
<1>4. CASE /\ Goes(w, "save status") /\ comments[worker[w].com].opened
           /\ worker'[w].prev = comments[worker[w].com].status
  <2>1. worker'[w].prev \in Statuses /\ reviews[worker[w].rev].public
    BY <1>1, <1>2, <1>4 DEF Calmness, RowsFit, Fits, ChangeFits
  <2>2. Fits(w)'
    BY <1>1, <1>2, <1>4, <2>1 DEF Goes, Fits, ReviewFits, ChangeFits, At
  <2>3. QED
    BY <1>1, <1>4, <2>2, GoesQuietly, SameRowsCalm DEF At
<1>5. QED
  BY <1>1, <1>3, <1>4

LEMMA SaveStatusCalm ==
  ASSUME BaseInv, Calmness, "other" \notin conflicts, NEW w \in Workers,
         SaveStatus(w)
  PROVE  Calmness' /\ Kept /\ KeepsCounted
<1> DEFINE c == worker[w].com
           v == worker[w].rev
<1>1. /\ Busy(w) /\ At(w, "save status") /\ worker[w].kind = "status"
      /\ c \in Comments /\ worker[w].issue.status \in Statuses
      /\ UNCHANGED reviews /\ UNCHANGED counts
      /\ \A d \in Comments : /\ comments'[d].opened = comments[d].opened
                             /\ d # c => comments'[d] = comments[d]
      /\ comments'[c].status = worker[w].issue.status
      /\ Goes(w, "load review") /\ KeepsPrev(w)
  BY SaveStatusFacts
<1>2. Fits(w) /\ v = ReviewOf[c]
  BY <1>1 DEF Calmness, BaseInv, Kinded
<1>3. reviews[v].public /\ comments[c].opened /\ worker[w].prev \in Statuses
  BY <1>1, <1>2 DEF Fits, ChangeFits, At
<1>4. Kept /\ PublishesNone /\ Changes("status", v)
  BY <1>1, <1>2 DEF Kept, PublishesNone, Changes
<1>5. RowsFit'
  BY <1>1, <1>2, <1>3 DEF Calmness, RowsFit
<1>6. Fits(w)'
  BY <1>1, <1>3 DEF Goes, KeepsPrev, Fits, ReviewFits, ChangeFits, At
<1>7. Stays(w) /\ UNCHANGED conflicts /\ Quietly(w)
  BY <1>1, GoesQuietly DEF At
<1>8. KeepsCounted
  BY <1>4, <1>7, QuietlyKeeps
<1>9. QED
  BY <1>1, <1>4, <1>5, <1>6, <1>7, <1>8, SameCounts, ServesCalm

LEMMA RecountCalm ==
  ASSUME BaseInv, Calmness, "other" \notin conflicts, NEW w \in Workers,
         Recount(w)
  PROVE  Calmness' /\ Kept /\ KeepsCounted
<1>1. /\ Busy(w) /\ At(w, "recount") /\ SameRows /\ worker[w].kind = "drop"
      /\ Goes(w, "save counts")
      /\ worker'[w].fetched = FetchIssueCounts(Reviews)
  BY RecountFacts
<1>2. FetchIssueCounts(Reviews)' = FetchIssueCounts(Reviews)
  BY <1>1 DEF SameRows, FetchIssueCounts
<1>3. Fits(w)'
  BY <1>1, <1>2 DEF Goes, Fits, ReviewFits, ChangeFits, At
<1>4. QED
  BY <1>1, <1>3, GoesQuietly, SameRowsCalm DEF At

(***************************************************************************)
(* Statements that count.                                                  *)
(***************************************************************************)

LEMMA CountsTyped ==
  ASSUME BaseInv
  PROVE  /\ counts["open"] \in Int /\ counts["resolved"] \in Int
         /\ counts["dropped"] \in Int /\ counts["verifying"] \in Int
         /\ counts["shipIt"] \in Int
  BY DEF BaseInv, TypeOK, Counters, IssueCounters

LEMMA ReviewsFinite ==
  ASSUME NEW S \in SUBSET Reviews
  PROVE  IsFiniteSet(S) /\ Cardinality(S) \in Nat
  BY IssueAssumption, FS_Subset, FS_CardinalityType

LEMMA DisjointSum ==
  ASSUME NEW S \in SUBSET Comments, NEW T \in SUBSET Comments, S \cap T = {}
  PROVE  Cardinality(S \cup T) = Cardinality(S) + Cardinality(T)
<1>1. /\ IsFiniteSet(S) /\ IsFiniteSet(T)
      /\ Cardinality(S) \in Nat /\ Cardinality(T) \in Nat
  BY IssuesFinite
<1>2. S \cap T = {} /\ Cardinality({}) = 0
  BY FS_EmptySet
<1>3. Cardinality(S \cap T) = 0
  BY <1>2, Zenon
<1>4. Cardinality(S \cup T)
        = Cardinality(S) + Cardinality(T) - Cardinality(S \cap T)
  BY <1>1, FS_Union, Zenon
<1>5. QED
  BY <1>1, <1>3, <1>4

(* The review that w has published is counted by nobody else, and its      *)
(* issues and its Ship It are not changed meanwhile.                       *)
LEMMA CountingAlone ==
  ASSUME BaseInv, "other" \notin conflicts, NEW w \in Workers,
         worker[w].at \in {"fetch", "count"},
         NEW x \in Workers, x # w, Busy(x)
  PROVE  worker[x].rev # worker[w].rev
<1>1. Busy(w) /\ worker[w].kind = "review"
  BY DEF Busy, At, BaseInv, Kinded
<1>2. Parts(worker[w].kind, worker[w].rev, x)
  BY <1>1, Apart
<1>3. QED
  BY <1>1, <1>2 DEF Parts

(* What counting a published review adds.                                  *)
LEMMA CountedMore ==
  ASSUME BaseInv, Calmness, "other" \notin conflicts, NEW w \in Workers,
         At(w, "count"), Ends(w), UNCHANGED <<reviews, comments>>
  PROVE  /\ worker[w].rev \in Reviews
         /\ ~Counted(worker[w].rev) /\ ~Revoking(worker[w].rev)
         /\ \A v \in Reviews : Counted(v)' <=> Counted(v) \/ v = worker[w].rev
         /\ \A v \in Reviews : Revoking(v)' <=> Revoking(v)
         /\ CountedIssues' = CountedIssues \cup IssuesOf(worker[w].rev)
         /\ CountedIssues \cap IssuesOf(worker[w].rev) = {}
<1> DEFINE r == worker[w].rev
<1>1. Busy(w) /\ r \in Reviews /\ worker[w].review \in ReviewRow
  BY BusyFacts DEF BaseInv, Busy, At
<1>2. Fits(w)
  BY <1>1 DEF Calmness
<1>3. reviews[r].public
  BY <1>1, <1>2 DEF Fits, ReviewFits, At, ReviewRow
<1>4. Uncounted(r)
  BY DEF Uncounted, At
<1>5. \A x \in Workers \ {w} : Busy(x) => worker[x].rev # r
  BY CountingAlone DEF At
<1>6. worker'[w] = Rest /\ \A x \in Workers \ {w} : worker'[x] = worker[x]
  BY DEF Ends, Stays
<1>7. \A v \in Reviews : Uncounted(v)' <=> Uncounted(v) /\ v # r
  <2>1. ASSUME NEW v \in Reviews, Uncounted(v)' PROVE Uncounted(v) /\ v # r
    <3>1. PICK x \in Workers : worker'[x].at \in {"fetch", "count"}
                                 /\ worker'[x].rev = v
      BY <2>1 DEF Uncounted
    <3>2. x # w
      BY <1>6, <3>1 DEF Rest
    <3>3. QED
      BY <1>5, <1>6, <3>1, <3>2 DEF Uncounted, Busy, At
  <2>2. ASSUME NEW v \in Reviews, Uncounted(v), v # r PROVE Uncounted(v)'
    <3>1. PICK x \in Workers : worker[x].at \in {"fetch", "count"}
                                 /\ worker[x].rev = v
      BY <2>2 DEF Uncounted
    <3>2. QED
      BY <1>6, <2>2, <3>1 DEF Uncounted
  <2>3. QED
    BY <2>1, <2>2
<1>8. \A v \in Reviews : Counted(v)' <=> Counted(v) \/ v = r
  BY <1>3, <1>7 DEF Counted
<1>9. \A v \in Reviews : Revoking(v)' <=> Revoking(v)
  <2>1. ~At(w, "uncount") /\ ~At(w, "uncount")'
    BY <1>6 DEF At, Rest
  <2>2. QED
    BY <1>6, <2>1 DEF Revoking, At
<1>10. ~Revoking(r)
  BY <1>5 DEF Revoking, Busy, At
<1>11. ~Counted(r)
  BY <1>4 DEF Counted
<1>12. CountedIssues' = CountedIssues \cup IssuesOf(r)
  BY <1>8, IssueAssumption DEF CountedIssues, IssuesOf
<1>13. CountedIssues \cap IssuesOf(r) = {}
  BY <1>11 DEF CountedIssues, IssuesOf
<1>14. QED
  BY <1>1, <1>8, <1>9, <1>10, <1>11, <1>12, <1>13

LEMMA CountReviewCalm ==
  ASSUME BaseInv, Calmness, "other" \notin conflicts, NEW w \in Workers,
         CountReview(w)
  PROVE  Calmness' /\ Kept
<1> DEFINE r == worker[w].rev
<1>1. /\ Busy(w) /\ At(w, "count") /\ Ends(w) /\ ~Busy(w)'
      /\ UNCHANGED reviews /\ UNCHANGED comments
      /\ counts'["open"] = counts["open"] + worker[w].fetched["open"]
      /\ counts'["shipIt"] =
           counts["shipIt"] + (IF worker[w].review.shipIt THEN 1 ELSE 0)
      /\ counts'["resolved"] = counts["resolved"]
      /\ counts'["dropped"] = counts["dropped"]
      /\ counts'["verifying"] = counts["verifying"]
  BY CountReviewFacts
<1>2. /\ r \in Reviews /\ ~Counted(r) /\ ~Revoking(r)
      /\ \A v \in Reviews : Counted(v)' <=> Counted(v) \/ v = r
      /\ \A v \in Reviews : Revoking(v)' <=> Revoking(v)
      /\ CountedIssues' = CountedIssues \cup IssuesOf(r)
      /\ CountedIssues \cap IssuesOf(r) = {}
  BY <1>1, CountedMore
<1>3. Fits(w) /\ worker[w].review \in ReviewRow
  BY <1>1, BusyFacts DEF Calmness, BaseInv
<1>4. /\ worker[w].fetched["open"] = Cardinality(IssuesOf(r))
      /\ reviews[r].shipIt = worker[w].review.shipIt
  BY <1>1, <1>3 DEF Fits, ReviewFits, At, ReviewRow
<1>5. TotalFits'
  <2> SUFFICES ASSUME "issues" \notin conflicts
               PROVE  Total' = Cardinality(CountedIssues)'
    BY <1>1 DEF Ends, TotalFits
  <2>1. /\ CountedIssues \in SUBSET Comments /\ IssuesOf(r) \in SUBSET Comments
    BY DEF CountedIssues, IssuesOf
  <2>2. Cardinality(CountedIssues \cup IssuesOf(r))
          = Cardinality(CountedIssues) + Cardinality(IssuesOf(r))
    BY <1>2, <2>1, DisjointSum
  <2>3. Cardinality(CountedIssues)' = Cardinality(CountedIssues \cup IssuesOf(r))
    BY <1>2, Zenon
  <2>4. Total' = Total + worker[w].fetched["open"]
    <3>1. worker[w].fetched["open"] \in Int
      BY <1>1, BusyFacts DEF BaseInv
    <3>2. QED
      BY <1>1, <3>1, CountsTyped DEF Total
  <2>5. QED
    BY <1>4, <2>2, <2>3, <2>4 DEF TotalFits, Calmness
<1>6. ShipItsFit'
  <2> SUFFICES ASSUME "shipIt" \notin conflicts
               PROVE  counts'["shipIt"] = Cardinality(ShipIts)'
    BY <1>1 DEF Ends, ShipItsFit
  <2>1. IsFiniteSet(ShipIts)
    BY ReviewsFinite DEF ShipIts
  <2>2. r \notin ShipIts
    BY <1>2 DEF ShipIts
  <2>3. CASE worker[w].review.shipIt
    <3>1. ShipIts' = ShipIts \cup {r}
      BY <1>1, <1>2, <1>4, <2>3 DEF ShipIts
    <3>2. Cardinality(ShipIts \cup {r}) = Cardinality(ShipIts) + 1
      BY <2>1, <2>2, FS_AddElement
    <3>3. Cardinality(ShipIts)' = Cardinality(ShipIts \cup {r})
      BY <3>1, Zenon
    <3>4. QED
      BY <1>1, <2>3, <3>2, <3>3 DEF ShipItsFit, Calmness
  <2>4. CASE ~worker[w].review.shipIt
    <3>1. ShipIts' = ShipIts
      BY <1>1, <1>2, <1>4, <2>4 DEF ShipIts
    <3>2. counts'["shipIt"] = counts["shipIt"]
      BY <1>1, <2>4, CountsTyped
    <3>3. Cardinality(ShipIts)' = Cardinality(ShipIts)
      BY <3>1, Zenon
    <3>4. QED
      BY <3>2, <3>3 DEF ShipItsFit, Calmness
  <2>5. QED
    BY <2>3, <2>4
<1>7. RowsFit' /\ Kept /\ Changes(worker[w].kind, r)
  BY <1>1 DEF Calmness, RowsFit, Kept, Changes
<1>8. \A x \in Workers \ {w} : Busy(x) => Parts(worker[w].kind, r, x)
  BY <1>1, Apart
<1>9. Stays(w)
  BY <1>1 DEF Ends
<1>10. \A x \in Workers \ {w} : Busy(x)' => Fits(x)'
  BY <1>7, <1>8, <1>9, OthersFit
<1>11. QED
  BY <1>1, <1>5, <1>6, <1>7, <1>10 DEF Calmness

(* Only changes of issues go on beside the revocation of a Ship It.        *)
LEMMA RevokingAlone ==
  ASSUME BaseInv, "other" \notin conflicts, NEW w \in Workers, Busy(w),
         worker[w].kind = "revoke",
         NEW x \in Workers, x # w, Busy(x), worker[x].rev = worker[w].rev
  PROVE  worker[x].kind = "status"
             /\ worker[x].at \notin {"fetch", "count", "revoke", "uncount"}
<1>1. Parts(worker[w].kind, worker[w].rev, x)
  BY Apart
<1>2. worker[x].kind = "status"
  BY <1>1 DEF Parts
<1>3. QED
  BY <1>2 DEF BaseInv, Kinded, At

LEMMA SaveRevokedCalm ==
  ASSUME BaseInv, Calmness, "other" \notin conflicts, NEW w \in Workers,
         SaveRevoked(w)
  PROVE  /\ Calmness' /\ Kept /\ CountedIssues' = CountedIssues
         /\ UNCHANGED <<comments, counts>> /\ Goes(w, "uncount")
<1> DEFINE r == worker[w].rev
<1>1. /\ Busy(w) /\ At(w, "revoke") /\ worker[w].kind = "revoke"
      /\ UNCHANGED comments /\ UNCHANGED counts
      /\ \A v \in Reviews : /\ reviews'[v].public = reviews[v].public
                            /\ v # r => reviews'[v] = reviews[v]
      /\ ~reviews'[r].shipIt /\ Goes(w, "uncount")
  BY SaveRevokedFacts
<1>2. Fits(w) /\ r \in Reviews
  BY <1>1, BusyFacts DEF Calmness, BaseInv
<1>3. reviews[r].public /\ reviews[r].shipIt
  BY <1>1, <1>2 DEF Fits, ChangeFits
<1>4. /\ worker'[w].at = "uncount" /\ worker'[w].rev = r
      /\ \A x \in Workers \ {w} : worker'[x] = worker[x]
  BY <1>1 DEF Goes, Stays
<1>5. \A v \in Reviews : Uncounted(v)' <=> Uncounted(v)
  BY <1>1, <1>4 DEF Uncounted, At
<1>6. \A v \in Reviews : Counted(v)' <=> Counted(v)
  BY <1>1, <1>5 DEF Counted
<1>7. \A v \in Reviews : Revoking(v)' <=> Revoking(v) \/ v = r
  BY <1>1, <1>4 DEF Revoking, At
<1>8. CountedIssues' = CountedIssues
  BY <1>1, <1>6, IssueAssumption DEF CountedIssues
<1>9. ShipIts' = ShipIts
  BY <1>1, <1>3, <1>6, <1>7 DEF ShipIts
<1>10. TotalFits' /\ ShipItsFit'
  <2>1. Cardinality(CountedIssues)' = Cardinality(CountedIssues)
    BY <1>8, Zenon
  <2>2. Cardinality(ShipIts)' = Cardinality(ShipIts)
    BY <1>9, Zenon
  <2>3. Total' = Total /\ counts'["shipIt"] = counts["shipIt"]
    BY <1>1, SameCounts
  <2>4. QED
    BY <1>1, <2>1, <2>2, <2>3 DEF Goes, Calmness, TotalFits, ShipItsFit
<1>11. Kept /\ Changes("revoke", r)
  BY <1>1 DEF Kept, Changes
<1>12. RowsFit'
  BY <1>1, IssueAssumption DEF Calmness, RowsFit
<1>13. Fits(w)'
  BY <1>1, <1>2, <1>3, <1>4 DEF Goes, Fits, ReviewFits, ChangeFits, At
<1>14. \A x \in Workers \ {w} : Busy(x)' => Fits(x)'
  <2>1. \A x \in Workers \ {w} : Busy(x) => Parts("revoke", r, x)
    BY <1>1, Apart
  <2>2. Stays(w)
    BY <1>1 DEF Goes
  <2>3. QED
    BY <1>11, <2>1, <2>2, OthersFit
<1>15. QED
  BY <1>1, <1>8, <1>10, <1>11, <1>12, <1>13, <1>14 DEF Calmness

LEMMA UncountShipItCalm ==
  ASSUME BaseInv, Calmness, "other" \notin conflicts, NEW w \in Workers,
         UncountShipIt(w)
  PROVE  /\ Calmness' /\ Kept /\ CountedIssues' = CountedIssues
         /\ UNCHANGED comments /\ Ends(w) /\ At(w, "uncount")
         /\ \A k \in IssueCounters : counts'[k] = counts[k]
<1>0. PICK r : r = worker[w].rev
  OBVIOUS
<1>1. /\ Busy(w) /\ At(w, "uncount") /\ Ends(w) /\ ~Busy(w)'
      /\ UNCHANGED reviews /\ UNCHANGED comments
      /\ counts'["shipIt"] = counts["shipIt"] - 1
      /\ \A k \in IssueCounters : counts'[k] = counts[k]
  BY UncountShipItFacts
<1>2. Fits(w) /\ r \in Reviews /\ worker[w].kind = "revoke"
  BY <1>0, <1>1, BusyFacts DEF Calmness, BaseInv, Kinded, At
<1>3. reviews[r].public /\ ~reviews[r].shipIt
  BY <1>0, <1>1, <1>2 DEF Fits, ChangeFits, At
<1>4. worker'[w] = Rest /\ \A x \in Workers \ {w} : worker'[x] = worker[x]
  BY <1>1 DEF Ends, Stays
<1>5. \A v \in Reviews : Uncounted(v)' <=> Uncounted(v)
  <2>1. worker[w].at \notin {"fetch", "count"} /\ worker'[w].at = "rest"
    BY <1>1, <1>4 DEF At, Rest
  <2>2. QED
    BY <1>4, <2>1 DEF Uncounted
<1>6. \A v \in Reviews : Counted(v)' <=> Counted(v)
  BY <1>1, <1>5 DEF Counted
<1>7. ~Uncounted(r)
  <2>1. SUFFICES ASSUME NEW x \in Workers,
                        worker[x].at \in {"fetch", "count"}, worker[x].rev = r
                 PROVE  FALSE
    BY DEF Uncounted
  <2>2. x # w /\ Busy(x)
    BY <1>1, <2>1 DEF Busy, At
  <2>3. QED
    BY <1>0, <1>1, <1>2, <2>1, <2>2, RevokingAlone
<1>8. ~Revoking(r)' /\ Revoking(r)
  <2>1. Revoking(r)
    BY <1>0, <1>1 DEF Revoking
  <2>2. SUFFICES ASSUME NEW x \in Workers, worker'[x].at = "uncount",
                        worker'[x].rev = r
                 PROVE  FALSE
    BY <2>1 DEF Revoking, At
  <2>3. x # w
    BY <1>4, <2>2 DEF Rest
  <2>4. worker[x].at = "uncount" /\ worker[x].rev = r /\ Busy(x)
    BY <1>4, <2>2, <2>3 DEF Busy, At
  <2>5. QED
    BY <1>0, <1>1, <1>2, <2>3, <2>4, RevokingAlone
<1>9. \A v \in Reviews : v # r => (Revoking(v)' <=> Revoking(v))
  <2>1. \A v \in Reviews : Revoking(v)' => Revoking(v)
    BY <1>1, <1>4 DEF Revoking, At, Rest
  <2>2. ASSUME NEW v \in Reviews, v # r, Revoking(v) PROVE Revoking(v)'
    <3>1. PICK x \in Workers : At(x, "uncount") /\ worker[x].rev = v
      BY <2>2 DEF Revoking
    <3>2. QED
      BY <1>0, <1>4, <2>2, <3>1 DEF Revoking, At
  <2>3. QED
    BY <2>1, <2>2
<1>10. Counted(r)
  BY <1>3, <1>7 DEF Counted
<1>11. CountedIssues' = CountedIssues
  BY <1>1, <1>6, IssueAssumption DEF CountedIssues
<1>12. ShipIts' = ShipIts \ {r} /\ r \in ShipIts
  BY <1>1, <1>2, <1>3, <1>6, <1>8, <1>9, <1>10 DEF ShipIts
<1>13. ShipItsFit'
  <2> SUFFICES ASSUME "shipIt" \notin conflicts
               PROVE  counts'["shipIt"] = Cardinality(ShipIts)'
    BY <1>1 DEF Ends, ShipItsFit
  <2>1. IsFiniteSet(ShipIts)
    BY ReviewsFinite DEF ShipIts
  <2>2. Cardinality(ShipIts \ {r}) = Cardinality(ShipIts) - 1
    BY <1>12, <2>1, FS_RemoveElement
  <2>3. Cardinality(ShipIts)' = Cardinality(ShipIts \ {r})
    BY <1>12, Zenon
  <2>4. QED
    BY <1>1, <2>2, <2>3 DEF ShipItsFit, Calmness
<1>14. TotalFits'
  <2>1. Cardinality(CountedIssues)' = Cardinality(CountedIssues)
    BY <1>11, Zenon
  <2>2. Total' = Total
    BY <1>1 DEF Total, IssueCounters
  <2>3. QED
    BY <1>1, <2>1, <2>2 DEF Ends, TotalFits, Calmness
<1>15. RowsFit' /\ Kept /\ Changes("revoke", r)
  BY <1>1 DEF Calmness, RowsFit, Kept, Changes
<1>16. \A x \in Workers \ {w} : Busy(x)' => Fits(x)'
  <2>1. \A x \in Workers \ {w} : Busy(x) => Parts("revoke", r, x)
    BY <1>0, <1>1, <1>2, Apart
  <2>2. Stays(w)
    BY <1>1 DEF Ends
  <2>3. QED
    BY <1>15, <2>1, <2>2, OthersFit
<1>17. QED
  BY <1>1, <1>11, <1>13, <1>14, <1>15, <1>16 DEF Calmness

LEMMA ToggleCalm ==
  ASSUME BaseInv, Calmness, "other" \notin conflicts, NEW w \in Workers,
         Toggle(w)
  PROVE  Calmness' /\ Kept /\ KeepsCounted
<1>1. /\ Busy(w) /\ At(w, "toggle") /\ Ends(w) /\ ~Busy(w)'
      /\ UNCHANGED reviews /\ UNCHANGED comments
  BY ToggleBase
<1>2. Fits(w) /\ Kinded(w)
  BY <1>1 DEF Calmness, BaseInv
<1>3. /\ worker[w].kind = "status" /\ worker[w].prev \in Statuses
      /\ worker[w].issue.status \in Statuses
      /\ CounterOf(worker[w].prev) # CounterOf(worker[w].issue.status)
  BY <1>1, <1>2 DEF Fits, ChangeFits, Kinded, At
<1>4. PICK old, new : /\ old = CounterOf(worker[w].prev)
                      /\ new = CounterOf(worker[w].issue.status)
  OBVIOUS
<1>5. old \in IssueCounters /\ new \in IssueCounters /\ old # new
  BY <1>3, <1>4, CounterTyped
<1>6. /\ counts'[old] = counts[old] - 1 /\ counts'[new] = counts[new] + 1
      /\ \A k \in Counters \ {old, new} : counts'[k] = counts[k]
  BY <1>4, <1>5, ToggleFacts
<1> DEFINE more(k) == (IF k = new THEN 1 ELSE 0) - (IF k = old THEN 1 ELSE 0)
<1>7. Total' = Total /\ counts'["shipIt"] = counts["shipIt"]
  <2>1. \A k \in IssueCounters : counts[k] \in Int
    BY CountsTyped DEF IssueCounters
  <2>2. \A k \in IssueCounters : counts'[k] = counts[k] + more(k)
    <3>1. SUFFICES ASSUME NEW k \in IssueCounters
                   PROVE  counts'[k] = counts[k] + more(k)
      OBVIOUS
    <3>2. CASE k = old
      BY <1>5, <1>6, <2>1, <3>2
    <3>3. CASE k = new
      BY <1>5, <1>6, <2>1, <3>3
    <3>4. CASE k \notin {old, new}
      BY <1>6, <2>1, <3>4 DEF Counters
    <3>5. QED
      BY <3>2, <3>3, <3>4
  <2>3. more("open") + more("resolved") + more("dropped") + more("verifying")
          = 0
    BY <1>5 DEF IssueCounters
  <2>4. \A k \in IssueCounters : more(k) \in Int
    OBVIOUS
  <2> HIDE DEF more
  <2>5. Total' = Total
    BY <2>1, <2>2, <2>3, <2>4 DEF Total, IssueCounters
  <2>6. counts'["shipIt"] = counts["shipIt"]
    BY <1>5, <1>6 DEF Counters, IssueCounters
  <2>7. QED
    BY <2>5, <2>6
<1>8. Stays(w) /\ UNCHANGED conflicts /\ Quietly(w)
  BY <1>1, EndsQuietly DEF At
<1>9. /\ Kept /\ PublishesNone /\ RowsFit'
      /\ Changes(worker[w].kind, worker[w].rev)
  BY <1>1 DEF Kept, PublishesNone, Calmness, RowsFit, Changes
<1>10. KeepsCounted
  BY <1>8, <1>9, QuietlyKeeps
<1>11. QED
  BY <1>1, <1>7, <1>8, <1>9, <1>10, ServesCalm

(* Of all reviews, the issues are counted once each.                       *)
LEMMA FetchedTotal ==
  ASSUME RowsFit
  PROVE  LET found == FetchIssueCounts(Reviews)
         IN  found["open"] + found["resolved"] + found["dropped"]
               + found["verifying"]
               = Cardinality({c \in Comments : reviews[ReviewOf[c]].public
                                                 /\ comments[c].opened})
<1> DEFINE S(k) == {c \in Comments : /\ ReviewOf[c] \in Reviews
                                     /\ reviews[ReviewOf[c]].public
                                     /\ comments[c].opened
                                     /\ comments[c].status # NoStatus
                                     /\ CounterOf(comments[c].status) = k}
           All == {c \in Comments : reviews[ReviewOf[c]].public
                                      /\ comments[c].opened}
<1>1. \A k \in IssueCounters :
        FetchIssueCounts(Reviews)[k] = Cardinality(S(k))
  BY FetchTyped
<1>2. \A k : S(k) \in SUBSET Comments
  OBVIOUS
<1>3. \A c \in All : \E k \in IssueCounters : c \in S(k)
  BY CounterTyped, IssueAssumption DEF RowsFit
<1>4. \A k : S(k) \subseteq All
  OBVIOUS
<1>5. \A j, k : j # k => S(j) \cap S(k) = {}
  OBVIOUS
<1> HIDE DEF S, All
<1>6. All = ((S("open") \cup S("resolved")) \cup S("dropped"))
              \cup S("verifying")
  BY <1>3, <1>4 DEF IssueCounters
<1>7. Cardinality(S("open") \cup S("resolved"))
        = Cardinality(S("open")) + Cardinality(S("resolved"))
  BY <1>2, <1>5, DisjointSum
<1>8. Cardinality((S("open") \cup S("resolved")) \cup S("dropped"))
        = Cardinality(S("open") \cup S("resolved")) + Cardinality(S("dropped"))
  <2>1. (S("open") \cup S("resolved")) \cap S("dropped") = {}
    BY <1>5
  <2>2. QED
    BY <1>2, <2>1, DisjointSum
<1>9. Cardinality(((S("open") \cup S("resolved")) \cup S("dropped"))
                     \cup S("verifying"))
        = Cardinality((S("open") \cup S("resolved")) \cup S("dropped"))
            + Cardinality(S("verifying"))
  <2>1. ((S("open") \cup S("resolved")) \cup S("dropped"))
           \cap S("verifying") = {}
    BY <1>5
  <2>2. QED
    BY <1>2, <2>1, DisjointSum
<1>10. \A k : Cardinality(S(k)) \in Nat
  BY <1>2, IssuesFinite
<1>11. Cardinality(All)
         = Cardinality(((S("open") \cup S("resolved")) \cup S("dropped"))
                         \cup S("verifying"))
  BY <1>6, Zenon
<1>12. Cardinality(All)
         = Cardinality(S("open")) + Cardinality(S("resolved"))
             + Cardinality(S("dropped")) + Cardinality(S("verifying"))
  BY <1>7, <1>8, <1>9, <1>10, <1>11
<1>13. QED
  BY <1>1, <1>12 DEF IssueCounters, All

(* Nothing is served beside the dropping of issues.                        *)
LEMMA DroppingAlone ==
  ASSUME BaseInv, "other" \notin conflicts, NEW w \in Workers, Busy(w),
         worker[w].kind = "drop", NEW x \in Workers, x # w
  PROVE  ~Busy(x)
  BY Apart DEF Parts

LEMMA SaveCountsCalm ==
  ASSUME BaseInv, Calmness, "other" \notin conflicts, NEW w \in Workers,
         SaveCounts(w)
  PROVE  Calmness' /\ Kept /\ KeepsCounted
<1>1. /\ Busy(w) /\ At(w, "save counts") /\ worker[w].kind = "drop"
      /\ Leaves(w) /\ ~Busy(w)' /\ UNCHANGED reviews /\ UNCHANGED comments
      /\ \A k \in IssueCounters : counts'[k] = worker[w].fetched[k]
      /\ counts'["shipIt"] = counts["shipIt"]
  BY SaveCountsFacts
<1>2. worker[w].fetched = FetchIssueCounts(Reviews)
  BY <1>1 DEF Calmness, Fits, ChangeFits
<1>3. \A v \in Reviews : ~Uncounted(v)
  BY <1>1, DroppingAlone DEF Uncounted, Busy, At
<1>4. CountedIssues = {c \in Comments : reviews[ReviewOf[c]].public
                                          /\ comments[c].opened}
  BY <1>3, IssueAssumption DEF CountedIssues, Counted
<1>5. Total' = Cardinality(CountedIssues)
  <2>1. Cardinality(CountedIssues)
          = Cardinality({c \in Comments : reviews[ReviewOf[c]].public
                                            /\ comments[c].opened})
    BY <1>4, Zenon
  <2>2. Total' = worker[w].fetched["open"] + worker[w].fetched["resolved"]
                   + worker[w].fetched["dropped"]
                   + worker[w].fetched["verifying"]
    BY <1>1 DEF Total, IssueCounters
  <2>3. QED
    BY <1>2, <2>1, <2>2, FetchedTotal DEF Calmness
<1>6. /\ Stays(w) /\ Quietly(w) /\ conflicts' = conflicts \ {"issues"}
  <2>1. worker[w].at = "save counts" /\ worker'[w].at = "rest"
    BY <1>1 DEF Busy, At
  <2>2. Quietly(w)
    BY <2>1 DEF Quietly, At
  <2>3. QED
    BY <1>1, <2>2, SaveCountsFacts DEF Leaves
<1>7. /\ Kept /\ PublishesNone /\ RowsFit'
  BY <1>1 DEF Kept, PublishesNone, Calmness, RowsFit
<1>8. KeepsCounted
  BY <1>6, <1>7, QuietlyKeeps
<1>9. TotalFits'
  <2>1. Cardinality(CountedIssues)' = Cardinality(CountedIssues)
    BY <1>8, CountedSame, Zenon
  <2>2. QED
    BY <1>5, <2>1 DEF TotalFits
<1>10. ShipItsFit'
  <2>1. Cardinality(ShipIts)' = Cardinality(ShipIts)
    BY <1>8, CountedSame, Zenon
  <2>2. QED
    BY <1>1, <1>6, <2>1 DEF Calmness, ShipItsFit
<1>11. \A x \in Workers : ~Busy(x)'
  BY <1>1, <1>6, DroppingAlone DEF Stays, Busy, At
<1>12. QED
  BY <1>7, <1>8, <1>9, <1>10, <1>11 DEF Calmness

(***************************************************************************)
(* While nothing but issues of one review is changed at the same time.     *)
(***************************************************************************)

LEMMA ConflictsKept ==
  ASSUME [Next]_vars
  PROVE  conflicts \ {"issues"} \subseteq conflicts'
<1>1. ASSUME NEW w \in Workers, Arrive(w) PROVE conflicts \subseteq conflicts'
  BY <1>1 DEF Arrive, UpdateReview, UpdateComment, UpdateIssueStatus,
     RevokeShipIt, DropOpenIssues, Start
<1>2. ASSUME NEW w \in Workers, Serve(w)
      PROVE  conflicts \ {"issues"} \subseteq conflicts'
  BY <1>2 DEF Serve, SaveReview, PublishReview, RefusePublish, FetchIssues,
     CountReview, SaveComment, LoadReview, Toggle, LoadIssue, SaveStatus,
     SaveRevoked, UncountShipIt, Recount, SaveCounts
<1>3. ASSUME NEW w \in Workers, Crash(w) PROVE conflicts \subseteq conflicts'
  BY <1>3 DEF Crash
<1>4. QED
  BY <1>1, <1>2, <1>3 DEF Next, vars

LEMMA NextCalm ==
  ASSUME BaseInv, Calmness, "other" \notin conflicts', Next
  PROVE  Calmness' /\ Kept
<1>1. "other" \notin conflicts
  BY ConflictsKept
<1>2. ASSUME NEW w \in Workers, Arrive(w) PROVE Calmness' /\ Kept
  BY <1>2, UpdateReviewCalm, UpdateCommentCalm, UpdateIssueStatusCalm,
     RevokeShipItCalm, DropCalm DEF Arrive
<1>3. ASSUME NEW w \in Workers, Serve(w) PROVE Calmness' /\ Kept
  BY <1>1, <1>3, SaveReviewCalm, PublishReviewCalm, RefusePublishCalm,
     FetchIssuesCalm, CountReviewCalm, SaveCommentCalm, LoadReviewCalm,
     ToggleCalm, LoadIssueCalm, SaveStatusCalm, SaveRevokedCalm,
     UncountShipItCalm, RecountCalm, SaveCountsCalm DEF Serve
<1>4. ASSUME NEW w \in Workers, Crash(w) PROVE Calmness' /\ Kept
  BY <1>1, <1>4, CrashCalm
<1>5. QED
  BY <1>2, <1>3, <1>4 DEF Next

LEMMA CalmUnchanged ==
  ASSUME Calmness, UNCHANGED vars
  PROVE  Calmness' /\ Kept
<1>1. /\ UNCHANGED reviews /\ UNCHANGED comments /\ UNCHANGED counts
      /\ UNCHANGED worker /\ UNCHANGED conflicts
  BY DEF vars
<1>2. RowsFit' /\ Kept
  BY <1>1 DEF Calmness, RowsFit, Kept
<1>3. CountedIssues' = CountedIssues /\ ShipIts' = ShipIts
  BY <1>1 DEF CountedIssues, ShipIts, Counted, Uncounted, Revoking, At
<1>4. TotalFits'
  <2>1. Cardinality(CountedIssues)' = Cardinality(CountedIssues)
    BY <1>3, Zenon
  <2>2. QED
    BY <1>1, <2>1 DEF Calmness, TotalFits, Total
<1>5. ShipItsFit'
  <2>1. Cardinality(ShipIts)' = Cardinality(ShipIts)
    BY <1>3, Zenon
  <2>2. QED
    BY <1>1, <2>1 DEF Calmness, ShipItsFit
<1>6. ASSUME NEW x \in Workers, Busy(x)' PROVE Fits(x)'
  <2>1. Fits(x)
    BY <1>1, <1>6 DEF Calmness, Busy, At
  <2>2. FetchIssueCounts(Reviews)' = FetchIssueCounts(Reviews)
    BY <1>1 DEF FetchIssueCounts
  <2>3. IssuesOf(worker[x].rev)' = IssuesOf(worker[x].rev)
    BY <1>1 DEF IssuesOf
  <2>4. QED
    BY <1>1, <2>1, <2>2, <2>3
       DEF Fits, ReviewFits, ChangeFits, AllOpen, At
<1>7. QED
  BY <1>2, <1>4, <1>5, <1>6 DEF Calmness

LEMMA InitCalm == Init => CalmInv
<1> SUFFICES ASSUME Init PROVE Calmness
  BY DEF CalmInv
<1>1. \A w \in Workers : ~Busy(w)
  BY DEF Init, Busy, At, Rest
<1>2. RowsFit
  BY DEF Init, RowsFit
<1>3. CountedIssues = {} /\ ShipIts = {}
  BY IssueAssumption DEF Init, CountedIssues, ShipIts, Counted
<1>4. Cardinality(CountedIssues) = 0 /\ Cardinality(ShipIts) = 0
  BY <1>3, FS_EmptySet
<1>5. TotalFits /\ ShipItsFit
  BY <1>4 DEF Init, TotalFits, ShipItsFit, Total, Counters, IssueCounters
<1>6. QED
  BY <1>1, <1>2, <1>5 DEF Calmness

LEMMA CalmStep == BaseInv /\ CalmInv /\ [Next]_vars => CalmInv'
<1> SUFFICES ASSUME BaseInv, CalmInv, [Next]_vars, "other" \notin conflicts'
             PROVE  Calmness'
  BY DEF CalmInv
<1>1. Calmness
  BY ConflictsKept DEF CalmInv
<1>2. QED
  BY <1>1, NextCalm, CalmUnchanged

LEMMA CalmCorrect == Spec => []CalmInv
<1>1. Init /\ [][Next]_vars /\ []BaseInv => []CalmInv
  BY InitCalm, CalmStep, PTL
<1>2. QED
  BY <1>1, BaseCorrect, PTL DEF Spec

(* A published review stays public with the issues that it was published   *)
(* with, whatever other requests do, unless one about the same review was  *)
(* served at the same time as its publication or its editing.              *)
THEOREM PublishedReviewsKept == Spec => PublishedReviewKept
<1>1. BaseInv /\ CalmInv /\ [Next]_vars => (("other" \notin conflicts') => Kept)
  <2> SUFFICES ASSUME BaseInv, CalmInv, [Next]_vars, "other" \notin conflicts'
               PROVE  Kept
    OBVIOUS
  <2>1. Calmness
    BY ConflictsKept DEF CalmInv
  <2>2. QED
    BY <2>1, NextCalm, CalmUnchanged
<1>2. BaseInv /\ CalmInv /\ [Next]_vars =>
        [("other" \notin conflicts') =>
           /\ \A v \in Reviews : reviews[v].public => reviews[v].public'
           /\ \A c \in Comments : reviews[ReviewOf[c]].public =>
                comments[c].opened' = comments[c].opened]_vars
  BY <1>1 DEF Kept
<1>3. QED
  BY <1>2, BaseCorrect, CalmCorrect, PTL DEF Spec, PublishedReviewKept

(***************************************************************************)
(* While no two requests collide: how many issues have which status.       *)
(***************************************************************************)

(* Whether w changes the status of issue c, and from which, is as before.  *)
MovesAsBefore(w, c) ==
  /\ Moving(w, c)' <=> Moving(w, c)
  /\ Moving(w, c) => worker'[w].prev = worker[w].prev
StillMoves(w) == \A c \in Comments : MovesAsBefore(w, c)

(* No other worker finds another status than it expects.                   *)
SparesOthers(w) ==
  \A x \in Workers \ {w} : Busy(x) /\ worker[x].kind = "status" =>
    comments'[worker[x].com].status = comments[worker[x].com].status

LEMMA OthersStatusFit ==
  ASSUME BaseInv, Exactness, NEW w \in Workers, Stays(w), SparesOthers(w)
  PROVE  \A x \in Workers \ {w} : Busy(x)' => StatusFits(x)'
<1>1. SUFFICES ASSUME NEW x \in Workers \ {w}, Busy(x)' PROVE StatusFits(x)'
  OBVIOUS
<1>2. worker'[x] = worker[x] /\ Busy(x)
  BY <1>1 DEF Stays, Busy, At
<1>3. StatusFits(x) /\ Kinded(x)
  BY <1>2 DEF Exactness, BaseInv
<1>4. At(x, "save status")' => At(x, "save status") /\ worker[x].kind = "status"
  BY <1>2, <1>3 DEF At, Kinded
<1>5. \A c \in Comments : Moving(x, c)' =>
        Moving(x, c) /\ worker[x].kind = "status" /\ worker[x].com = c
  BY <1>2 DEF Moving
<1>6. worker[x].kind = "status" =>
        comments'[worker[x].com].status = comments[worker[x].com].status
  BY <1>2 DEF SparesOthers
<1>7. At(x, "save status")' =>
        /\ comments'[worker'[x].com].status = worker'[x].prev
        /\ worker'[x].verifier \/
             ~Refused(worker'[x].com, worker'[x].prev,
                      worker'[x].issue.status, FALSE)
  BY <1>2, <1>3, <1>4, <1>6 DEF StatusFits
<1>8. \A c \in Comments : Moving(x, c)' =>
        comments'[c].status = worker'[x].issue.status
  BY <1>2, <1>3, <1>5, <1>6 DEF StatusFits
<1>9. QED
  BY <1>7, <1>8 DEF StatusFits, Refused

LEMMA StatusApart ==
  ASSUME BaseInv, "toggle" \notin conflicts, NEW w \in Workers, Busy(w),
         worker[w].kind = "status",
         NEW x \in Workers, x # w, Busy(x), worker[x].kind = "status"
  PROVE  worker[x].com # worker[w].com
<1>1. "toggle" \notin Conflict(worker[w], worker[x])
  BY DEF BaseInv, Recorded
<1>2. QED
  BY <1>1 DEF Conflict

LEMMA NotDropping ==
  ASSUME BaseInv, "other" \notin conflicts, NEW w \in Workers, Busy(w),
         worker[w].kind # "drop"
  PROVE  ~Dropping
<1>1. ASSUME NEW x \in Workers, worker[x].at \in {"recount", "save counts"}
      PROVE  FALSE
  <2>1. Busy(x) /\ worker[x].kind = "drop"
    BY <1>1 DEF Busy, At, BaseInv, Kinded
  <2>2. x # w
    BY <2>1
  <2>3. QED
    BY <2>1, <2>2, Apart DEF Parts
<1>2. QED
  BY <1>1 DEF Dropping

LEMMA CountedAsKept ==
  ASSUME NEW w \in Workers, Stays(w), NEW c \in Comments, MovesAsBefore(w, c),
         comments'[c].status = comments[c].status, NEW k
  PROVE  CountedAs(c, k)' <=> CountedAs(c, k)
<1>1. \A x \in Workers :
        /\ Moving(x, c)' <=> Moving(x, c)
        /\ Moving(x, c) => worker'[x].prev = worker[x].prev
  BY DEF Stays, MovesAsBefore, Moving
<1>2. QED
  BY <1>1 DEF CountedAs

LEMMA CountsFitKept ==
  ASSUME CountsFit, ~Dropping, conflicts \subseteq conflicts',
         CountedIssues' = CountedIssues,
         \A c \in CountedIssues, k \in IssueCounters :
           CountedAs(c, k)' <=> CountedAs(c, k),
         \A k \in IssueCounters : counts'[k] = counts[k]
  PROVE  CountsFit'
<1>1. SUFFICES ASSUME NEW k \in IssueCounters, "issues" \notin conflicts
               PROVE  counts'[k] = Cardinality(IssuesAs(k)')
  BY DEF CountsFit
<1>2. IssuesAs(k)' = IssuesAs(k)
  BY DEF IssuesAs
<1>3. Cardinality(IssuesAs(k)') = Cardinality(IssuesAs(k))
  BY <1>2, Zenon
<1>4. QED
  BY <1>1, <1>3 DEF CountsFit

LEMMA ExactKept ==
  ASSUME BaseInv, Exactness, conflicts \subseteq conflicts',
         NEW w \in Workers, Stays(w), ~Dropping,
         StillMoves(w), SparesOthers(w), CountedIssues' = CountedIssues,
         \A c \in CountedIssues : comments'[c].status = comments[c].status,
         \A k \in IssueCounters : counts'[k] = counts[k],
         Busy(w)' => StatusFits(w)'
  PROVE  Exactness'
<1>1. \A c \in CountedIssues, k \in IssueCounters :
        CountedAs(c, k)' <=> CountedAs(c, k)
  <2>1. CountedIssues \subseteq Comments
    BY DEF CountedIssues
  <2>2. QED
    BY <2>1, CountedAsKept DEF StillMoves
<1>2. CountsFit'
  BY <1>1, CountsFitKept DEF Exactness
<1>3. QED
  BY <1>2, OthersStatusFit DEF Exactness

(* Statements that say nothing of the status of an issue.                  *)
Mute == Steps \ {"save status", "load review", "toggle"}

LEMMA MuteExact ==
  ASSUME BaseInv, Exactness, conflicts \subseteq conflicts',
         NEW w \in Workers, Stays(w), ~Dropping,
         worker[w].at \notin {"load review", "toggle"},
         worker'[w].at \in Mute, UNCHANGED comments,
         CountedIssues' = CountedIssues,
         \A k \in IssueCounters : counts'[k] = counts[k]
  PROVE  Exactness'
<1>1. StillMoves(w) /\ StatusFits(w)'
  BY DEF StillMoves, MovesAsBefore, StatusFits, Moving, At, Mute
<1>2. SparesOthers(w)
  BY DEF SparesOthers
<1>3. QED
  BY <1>1, <1>2, ExactKept

LEMMA BeginsExact ==
  ASSUME BaseInv, Exactness, "other" \notin conflicts', NEW w \in Workers,
         NEW step \in Mute, NEW kind, NEW v, NEW c,
         Begins(w, step, kind, v, c), SameRows, KeepsCounted
  PROVE  Exactness'
<1>1. ~Dropping
  <2>1. \A x \in Workers \ {w} : Busy(x) => Parts(kind, v, x)
    BY BeginsApart
  <2>2. ~Busy(w)
    BY DEF Begins
  <2>3. \A x \in Workers : worker[x].at \in {"recount", "save counts"} =>
          Busy(x) /\ worker[x].kind = "drop"
    BY DEF Busy, At, BaseInv, Kinded
  <2>4. QED
    BY <2>1, <2>2, <2>3 DEF Dropping, Parts
<1>2. /\ Stays(w) /\ worker[w].at = "rest" /\ worker'[w].at \in Mute
      /\ conflicts \subseteq conflicts'
  BY DEF Begins, Busy, At
<1>3. CountedIssues' = CountedIssues /\ UNCHANGED comments /\ UNCHANGED counts
  BY CountedSame DEF SameRows
<1>4. QED
  BY <1>1, <1>2, <1>3, MuteExact

LEMMA ServesMute ==
  ASSUME BaseInv, Exactness, "other" \notin conflicts, NEW w \in Workers, Busy(w),
         worker[w].kind # "drop",
         worker[w].at \notin {"load review", "toggle"}, UNCHANGED comments,
         CountedIssues' = CountedIssues,
         \A k \in IssueCounters : counts'[k] = counts[k],
         Ends(w) \/ \E step \in Mute : Goes(w, step)
  PROVE  Exactness'
<1>1. ~Dropping
  BY NotDropping
<1>2. Stays(w) /\ UNCHANGED conflicts /\ worker'[w].at \in Mute
  <2>1. CASE Ends(w)
    <3>1. Stays(w) /\ UNCHANGED conflicts /\ worker'[w] = Rest
      BY <2>1 DEF Ends
    <3>2. Rest.at = "rest" /\ "rest" \in Mute
      BY DEF Rest, Mute, Steps
    <3>3. QED
      BY <3>1, <3>2
  <2>2. CASE \E step \in Mute : Goes(w, step)
    BY <2>2 DEF Goes
  <2>3. QED
    BY <2>1, <2>2
<1>3. QED
  BY <1>1, <1>2, MuteExact

LEMMA SaveReviewExact ==
  ASSUME BaseInv, Calmness, Exactness, "other" \notin conflicts,
         "toggle" \notin conflicts, NEW w \in Workers,
         SaveReview(w)
  PROVE  Exactness'
<1>1. /\ Busy(w) /\ At(w, "save review")
      /\ UNCHANGED comments /\ UNCHANGED counts
      /\ Ends(w) \/ Goes(w, "publish")
  BY SaveReviewFacts
<1>2. worker[w].kind # "drop" /\ "publish" \in Mute
  BY <1>1 DEF BaseInv, Kinded, Mute, Steps
<1>3. CountedIssues' = CountedIssues
  BY SaveReviewCalm, CountedSame
<1>4. QED
  BY <1>1, <1>2, <1>3, ServesMute DEF At

LEMMA PublishReviewExact ==
  ASSUME BaseInv, Calmness, Exactness, "other" \notin conflicts,
         "toggle" \notin conflicts, NEW w \in Workers,
         PublishReview(w)
  PROVE  Exactness'
<1>1. /\ Busy(w) /\ At(w, "publish")
      /\ UNCHANGED comments /\ UNCHANGED counts /\ Goes(w, "fetch")
  BY PublishReviewFacts
<1>2. worker[w].kind # "drop" /\ "fetch" \in Mute
  BY <1>1 DEF BaseInv, Kinded, At, Mute, Steps
<1>3. CountedIssues' = CountedIssues
  BY PublishReviewCalm, CountedSame
<1>4. QED
  BY <1>1, <1>2, <1>3, ServesMute DEF At

LEMMA RefusePublishExact ==
  ASSUME BaseInv, Calmness, Exactness, "other" \notin conflicts,
         "toggle" \notin conflicts, NEW w \in Workers,
         RefusePublish(w)
  PROVE  Exactness'
<1>1. /\ Busy(w) /\ At(w, "publish") /\ SameRows /\ Ends(w)
  BY RefusePublishFacts
<1>2. worker[w].kind # "drop"
  BY <1>1 DEF BaseInv, Kinded, At
<1>3. CountedIssues' = CountedIssues
  BY RefusePublishCalm, CountedSame
<1>4. QED
  BY <1>1, <1>2, <1>3, ServesMute DEF At, SameRows

LEMMA CrashExact ==
  ASSUME BaseInv, Calmness, Exactness, "other" \notin conflicts,
         "toggle" \notin conflicts, NEW w \in Workers, Crash(w)
  PROVE  Exactness'
<1>1. /\ Busy(w) /\ SameRows /\ Leaves(w) /\ ~Busy(w)'
      /\ conflicts' = conflicts \cup Uncounting(w)
  BY CrashFacts
<1>2. Stays(w) /\ UNCHANGED comments /\ SparesOthers(w)
  BY <1>1 DEF Leaves, SameRows, SparesOthers
<1>3. CASE "issues" \in conflicts'
  BY <1>1, <1>2, <1>3, OthersStatusFit DEF Exactness, CountsFit
<1>4. CASE "issues" \notin conflicts'
  <2>1. /\ worker[w].at \notin {"fetch", "count", "toggle", "recount",
                               "save counts"}
        /\ ~(At(w, "load review") /\ worker[w].kind = "status")
    BY <1>1, <1>4 DEF Uncounting
  <2>2. CountedIssues' = CountedIssues
    BY <1>1, <2>1, CrashKeeps
  <2>3. StillMoves(w)
    <3>1. \A c : ~Moving(w, c)
      BY <2>1 DEF Moving, At
    <3>2. worker'[w].at = "rest"
      BY <1>1 DEF Leaves, Rest
    <3>3. \A c : ~Moving(w, c)'
      BY <3>2 DEF Moving
    <3>4. QED
      BY <3>1, <3>3 DEF StillMoves, MovesAsBefore
  <2>4. CASE Dropping
    <3>1. Dropping'
      BY <1>2, <2>1, <2>4 DEF Stays, Dropping
    <3>2. QED
      BY <1>1, <1>2, <3>1, OthersStatusFit DEF Exactness, CountsFit
  <2>5. CASE ~Dropping
    BY <1>1, <1>2, <2>2, <2>3, <2>5, ExactKept DEF SameRows
  <2>6. QED
    BY <2>4, <2>5
<1>5. QED
  BY <1>3, <1>4

LEMMA FetchIssuesExact ==
  ASSUME BaseInv, Calmness, Exactness, "other" \notin conflicts,
         "toggle" \notin conflicts, NEW w \in Workers,
         FetchIssues(w)
  PROVE  Exactness'
<1>1. /\ Busy(w) /\ At(w, "fetch") /\ SameRows
      /\ Crash(w) \/ Goes(w, "count")
  BY FetchIssuesFacts
<1>2. worker[w].kind # "drop" /\ "count" \in Mute
  BY <1>1 DEF BaseInv, Kinded, At, Mute, Steps
<1>3. CASE Crash(w)
  BY <1>3, CrashExact
<1>4. CASE ~Crash(w)
  <2>1. CountedIssues' = CountedIssues
    BY <1>4, FetchIssuesCalm, CountedSame
  <2>2. QED
    BY <1>1, <1>2, <1>4, <2>1, ServesMute DEF At, SameRows
<1>5. QED
  BY <1>3, <1>4

LEMMA SaveRevokedExact ==
  ASSUME BaseInv, Calmness, Exactness, "other" \notin conflicts,
         "toggle" \notin conflicts, NEW w \in Workers,
         SaveRevoked(w)
  PROVE  Exactness'
<1>1. /\ Busy(w) /\ At(w, "revoke") /\ worker[w].kind = "revoke"
      /\ UNCHANGED comments /\ UNCHANGED counts /\ Goes(w, "uncount")
  BY SaveRevokedFacts
<1>2. "uncount" \in Mute
  BY DEF Mute, Steps
<1>3. CountedIssues' = CountedIssues
  BY SaveRevokedCalm
<1>4. QED
  BY <1>1, <1>2, <1>3, ServesMute DEF At

LEMMA UncountShipItExact ==
  ASSUME BaseInv, Calmness, Exactness, "other" \notin conflicts,
         "toggle" \notin conflicts, NEW w \in Workers,
         UncountShipIt(w)
  PROVE  Exactness'
<1>1. /\ At(w, "uncount") /\ UNCHANGED comments /\ Ends(w)
      /\ \A k \in IssueCounters : counts'[k] = counts[k]
      /\ CountedIssues' = CountedIssues
  BY UncountShipItCalm
<1>2. Busy(w) /\ worker[w].kind # "drop"
  BY <1>1 DEF Busy, BaseInv, Kinded, At
<1>3. QED
  BY <1>1, <1>2, ServesMute DEF At

LEMMA CountReviewExact ==
  ASSUME BaseInv, Calmness, Exactness, "other" \notin conflicts,
         "toggle" \notin conflicts, NEW w \in Workers,
         CountReview(w)
  PROVE  Exactness'
<1>0. PICK r : r = worker[w].rev
  OBVIOUS
<1>1. /\ Busy(w) /\ At(w, "count") /\ Ends(w) /\ ~Busy(w)'
      /\ UNCHANGED reviews /\ UNCHANGED comments
      /\ counts'["open"] = counts["open"] + worker[w].fetched["open"]
      /\ counts'["resolved"] = counts["resolved"]
      /\ counts'["dropped"] = counts["dropped"]
      /\ counts'["verifying"] = counts["verifying"]
  BY CountReviewFacts
<1>2. /\ r \in Reviews /\ CountedIssues' = CountedIssues \cup IssuesOf(r)
      /\ CountedIssues \cap IssuesOf(r) = {}
  BY <1>0, <1>1, CountedMore
<1>3. Fits(w) /\ worker[w].kind = "review"
  BY <1>1 DEF Calmness, BaseInv, Kinded, At
<1>4. AllOpen(r) /\ worker[w].fetched["open"] = Cardinality(IssuesOf(r))
  BY <1>0, <1>1, <1>3 DEF Fits, ReviewFits, At
<1>5. ~Dropping
  BY <1>1, <1>3, NotDropping
<1>6. Stays(w) /\ StillMoves(w) /\ SparesOthers(w)
  BY <1>1 DEF Ends, StillMoves, MovesAsBefore, SparesOthers, Moving, At, Rest
<1>7. \A c \in IssuesOf(r), x \in Workers : ~Moving(x, c)
  <2>1. SUFFICES ASSUME NEW c \in IssuesOf(r), NEW x \in Workers, Moving(x, c)
                 PROVE  FALSE
    OBVIOUS
  <2>2. Busy(x) /\ worker[x].kind = "status" /\ worker[x].com = c
    BY <2>1 DEF Moving, Busy, At
  <2>3. worker[x].rev = r /\ x # w
    BY <1>3, <2>1, <2>2 DEF BaseInv, Kinded, IssuesOf
  <2>4. QED
    BY <1>0, <1>1, <2>2, <2>3, CountingAlone DEF At
<1>8. \A c \in IssuesOf(r) : \A k : CountedAs(c, k)' <=> k = "open"
  <2>1. SUFFICES ASSUME NEW c \in IssuesOf(r), NEW k
                 PROVE  CountedAs(c, k)' <=> k = "open"
    OBVIOUS
  <2>2. \A x \in Workers : ~Moving(x, c)'
    <3>1. c \in Comments /\ \A x \in Workers : ~Moving(x, c)
      BY <1>7 DEF IssuesOf
    <3>2. ~Moving(w, c)'
      BY <1>6, <3>1 DEF StillMoves, MovesAsBefore
    <3>3. QED
      BY <1>6, <3>1, <3>2 DEF Stays, Moving
  <2>3. comments'[c].status = Open
    BY <1>1, <1>4 DEF AllOpen
  <2>4. CounterOf(Open) = "open"
    BY OpenCounted
  <2>5. CountedAs(c, k)' <=> CounterOf(comments'[c].status) = k
    BY <2>2 DEF CountedAs
  <2>6. QED
    BY <2>3, <2>4, <2>5
<1>9. \A c \in CountedIssues : \A k : CountedAs(c, k)' <=> CountedAs(c, k)
  BY <1>1, <1>6, CountedAsKept DEF CountedIssues, StillMoves
<1>10. ASSUME NEW k \in IssueCounters, "issues" \notin conflicts
       PROVE  counts'[k] = Cardinality(IssuesAs(k)')
  <2>1. counts[k] = Cardinality(IssuesAs(k))
    BY <1>5, <1>10 DEF Exactness, CountsFit
  <2>2. CASE k = "open"
    <3>1. IssuesAs("open")' = IssuesAs("open") \cup IssuesOf(r)
      BY <1>2, <1>8, <1>9 DEF IssuesAs
    <3>2. IssuesAs("open") \cap IssuesOf(r) = {}
      BY <1>2 DEF IssuesAs
    <3>3. IssuesAs("open") \in SUBSET Comments /\ IssuesOf(r) \in SUBSET Comments
      BY DEF IssuesAs, CountedIssues, IssuesOf
    <3>4. Cardinality(IssuesAs("open") \cup IssuesOf(r))
            = Cardinality(IssuesAs("open")) + Cardinality(IssuesOf(r))
      BY <3>2, <3>3, DisjointSum
    <3>5. Cardinality(IssuesAs("open")')
            = Cardinality(IssuesAs("open") \cup IssuesOf(r))
      BY <3>1, Zenon
    <3>6. QED
      BY <1>1, <1>4, <2>1, <2>2, <3>4, <3>5
  <2>3. CASE k # "open"
    <3>1. IssuesAs(k)' = IssuesAs(k)
      BY <1>2, <1>8, <1>9, <2>3 DEF IssuesAs
    <3>2. Cardinality(IssuesAs(k)') = Cardinality(IssuesAs(k))
      BY <3>1, Zenon
    <3>3. counts'[k] = counts[k]
      BY <1>1, <2>3 DEF IssueCounters
    <3>4. QED
      BY <2>1, <3>2, <3>3
  <2>4. QED
    BY <2>2, <2>3
<1>11. CountsFit'
  BY <1>1, <1>10 DEF CountsFit, Ends
<1>12. QED
  BY <1>1, <1>6, <1>11, OthersStatusFit DEF Exactness

LEMMA SaveCommentExact ==
  ASSUME BaseInv, Calmness, Exactness, "other" \notin conflicts,
         "toggle" \notin conflicts, NEW w \in Workers,
         SaveComment(w)
  PROVE  Exactness'
<1> DEFINE c == worker[w].com
           v == worker[w].rev
<1>1. /\ Busy(w) /\ At(w, "save comment") /\ worker[w].kind = "comment"
      /\ c \in Comments /\ v = ReviewOf[c]
      /\ comments' = [comments EXCEPT ![c] = worker[w].issue]
      /\ UNCHANGED counts /\ Goes(w, "load review")
  BY SaveCommentFacts
<1>2. ~reviews[v].public /\ ~Dropping
  BY <1>1, NotDropping DEF Calmness, Fits, ReviewFits
<1>3. \A d \in Comments : d # c => comments'[d] = comments[d]
  BY <1>1 DEF BaseInv, TypeOK
<1>4. c \notin CountedIssues /\ CountedIssues \subseteq Comments
  BY <1>1, <1>2 DEF CountedIssues, Counted
<1>5. /\ Stays(w) /\ UNCHANGED conflicts
      /\ StillMoves(w) /\ StatusFits(w)'
  BY <1>1 DEF Goes, StillMoves, MovesAsBefore, StatusFits, Moving, At
<1>6. SparesOthers(w)
  <2>1. ASSUME NEW x \in Workers \ {w}, Busy(x), worker[x].kind = "status"
        PROVE  worker[x].com \in Comments /\ worker[x].com # c
    <3>1. Parts("comment", v, x)
      BY <1>1, <2>1, Apart
    <3>2. worker[x].rev # v
      BY <3>1 DEF Parts
    <3>3. worker[x].com \in Comments /\ worker[x].rev = ReviewOf[worker[x].com]
      BY <2>1 DEF BaseInv, Kinded
    <3>4. QED
      BY <1>1, <3>2, <3>3
  <2>2. QED
    BY <1>3, <2>1 DEF SparesOthers
<1>7. CountedIssues' = CountedIssues
  BY SaveCommentCalm, CountedSame
<1>8. QED
  BY <1>1, <1>2, <1>3, <1>4, <1>5, <1>6, <1>7, ExactKept

(* Nobody else is changing the status of the same issue.                   *)
LEMMA MovingAlone ==
  ASSUME BaseInv, "toggle" \notin conflicts, NEW w \in Workers, Busy(w),
         worker[w].kind = "status", NEW x \in Workers, x # w
  PROVE  ~Moving(x, worker[w].com)
<1>1. SUFFICES ASSUME Moving(x, worker[w].com) PROVE FALSE
  OBVIOUS
<1>2. Busy(x) /\ worker[x].kind = "status" /\ worker[x].com = worker[w].com
  BY <1>1 DEF Moving, Busy, At
<1>3. QED
  BY <1>2, StatusApart

LEMMA LoadReviewExact ==
  ASSUME BaseInv, Calmness, Exactness, "other" \notin conflicts,
         "toggle" \notin conflicts, NEW w \in Workers,
         LoadReview(w)
  PROVE  Exactness'
<1>0. PICK c : c = worker[w].com
  OBVIOUS
<1>1. /\ Busy(w) /\ At(w, "load review") /\ SameRows
      /\ worker[w].kind \in {"comment", "status"}
      /\ \/ ~reviews[worker[w].rev].public /\ Goes(w, "save review")
         \/ /\ Ends(w)
            /\ worker[w].kind = "status" /\ worker[w].prev # NoStatus =>
                 CounterOf(worker[w].prev) = CounterOf(worker[w].issue.status)
         \/ Goes(w, "toggle") /\ KeepsIssue(w) /\ KeepsPrev(w)
  BY LoadReviewFacts
<1>2. Fits(w) /\ Kinded(w) /\ StatusFits(w) /\ CountsFit
  BY <1>1 DEF Calmness, BaseInv, Exactness
<1>3. /\ UNCHANGED comments /\ UNCHANGED counts
      /\ ~Dropping /\ SparesOthers(w) /\ CountedIssues' = CountedIssues
  BY <1>1, NotDropping, LoadReviewCalm, CountedSame DEF SameRows, SparesOthers
<1>4. CASE Goes(w, "save review") /\ ~reviews[worker[w].rev].public
  <2>1. worker[w].kind = "comment"
    BY <1>1, <1>2, <1>4 DEF Fits, ChangeFits
  <2>2. /\ Stays(w) /\ UNCHANGED conflicts
        /\ StillMoves(w) /\ StatusFits(w)'
    BY <1>4, <2>1
       DEF Goes, StillMoves, MovesAsBefore, StatusFits, Moving, At
  <2>3. QED
    BY <1>3, <2>2, ExactKept
<1>5. CASE Goes(w, "toggle") /\ KeepsIssue(w) /\ KeepsPrev(w)
  <2>1. Stays(w) /\ UNCHANGED conflicts /\ StillMoves(w)
    BY <1>1, <1>5 DEF Goes, KeepsPrev, StillMoves, MovesAsBefore, Moving, At
  <2>2. \A d \in Comments : Moving(w, d)' => Moving(w, d)
    BY <2>1 DEF StillMoves, MovesAsBefore
  <2>3. StatusFits(w)'
    BY <1>2, <1>3, <1>5, <2>2 DEF Goes, KeepsIssue, StatusFits, At
  <2>4. QED
    BY <1>3, <2>1, <2>3, ExactKept
<1>6. CASE Ends(w) /\ worker[w].kind = "comment"
  <2>1. Stays(w) /\ UNCHANGED conflicts /\ StillMoves(w) /\ ~Busy(w)'
    BY <1>6 DEF Ends, Rest, StillMoves, MovesAsBefore, Moving, Busy, At
  <2>2. QED
    BY <1>3, <2>1, ExactKept
<1>7. CASE Ends(w) /\ worker[w].kind = "status"
  <2>1. /\ c \in Comments /\ worker[w].prev \in Statuses
        /\ CounterOf(worker[w].prev) = CounterOf(worker[w].issue.status)
    <3>1. worker[w].prev \in Statuses
      BY <1>1, <1>2, <1>7 DEF Fits, ChangeFits, At
    <3>2. worker[w].prev # NoStatus
      BY <3>1, IssueAssumption
    <3>3. worker'[w] = Rest
      BY <1>7 DEF Ends
    <3>4. ~Goes(w, "save review") /\ ~Goes(w, "toggle")
      BY <3>3 DEF Goes, Rest
    <3>5. QED
      BY <1>0, <1>1, <1>2, <1>7, <3>1, <3>2, <3>4 DEF Kinded
  <2>2. Moving(w, c) /\ comments[c].status = worker[w].issue.status
    BY <1>0, <1>1, <1>2, <1>7, <2>1 DEF Moving, StatusFits, At
  <2>3. /\ Stays(w) /\ UNCHANGED conflicts
        /\ ~Busy(w)' /\ \A d : ~Moving(w, d)'
    BY <1>7 DEF Ends, Rest, Busy, Moving, At
  <2>4. \A x \in Workers \ {w} : ~Moving(x, c)
    BY <1>0, <1>1, <1>7, MovingAlone
  <2>5. \A x \in Workers : ~Moving(x, c)'
    BY <2>3, <2>4 DEF Stays, Moving
  <2>6. \A k : CountedAs(c, k)' <=> CountedAs(c, k)
    <3>1. \A k : CountedAs(c, k)' <=> CounterOf(comments[c].status) = k
      BY <1>3, <2>5 DEF CountedAs
    <3>2. \A k : CountedAs(c, k) <=> CounterOf(worker[w].prev) = k
      BY <2>2, <2>4 DEF CountedAs
    <3>3. QED
      BY <2>1, <2>2, <3>1, <3>2
  <2>7. \A d \in Comments : d # c => MovesAsBefore(w, d)
    BY <1>0, <2>3 DEF MovesAsBefore, Moving
  <2>8. \A d \in CountedIssues, k \in IssueCounters :
          CountedAs(d, k)' <=> CountedAs(d, k)
    BY <1>3, <2>3, <2>6, <2>7, CountedAsKept DEF CountedIssues
  <2>9. CountsFit'
    BY <1>2, <1>3, <2>3, <2>8, CountsFitKept
  <2>10. QED
    BY <1>3, <2>3, <2>9, OthersStatusFit DEF Exactness
<1>8. QED
  BY <1>1, <1>4, <1>5, <1>6, <1>7

LEMMA LoadIssueExact ==
  ASSUME BaseInv, Calmness, Exactness, "other" \notin conflicts,
         "toggle" \notin conflicts, NEW w \in Workers,
         LoadIssue(w)
  PROVE  Exactness'
<1>1. /\ Busy(w) /\ At(w, "load issue") /\ SameRows /\ worker[w].kind = "status"
      /\ \/ Ends(w) /\ ~Busy(w)'
         \/ /\ Goes(w, "save status")
            /\ worker'[w].prev = comments[worker[w].com].status
            /\ worker'[w].verifier \/
                 ~Refused(worker[w].com, worker'[w].prev,
                          worker'[w].issue.status, FALSE)
  BY LoadIssueFacts
<1>2. /\ UNCHANGED comments /\ UNCHANGED counts
      /\ ~Dropping /\ SparesOthers(w) /\ CountedIssues' = CountedIssues
  BY <1>1, NotDropping, LoadIssueCalm, CountedSame DEF SameRows, SparesOthers
<1>3. Stays(w) /\ UNCHANGED conflicts /\ StillMoves(w)
  <2>1. Stays(w) /\ UNCHANGED conflicts /\ worker'[w].at \in {"rest", "save status"}
    BY <1>1 DEF Ends, Goes, Busy, At
  <2>2. QED
    BY <1>1, <2>1 DEF StillMoves, MovesAsBefore, Moving, At
<1>4. Busy(w)' => StatusFits(w)'
  <2>1. SUFFICES ASSUME Goes(w, "save status"),
                        worker'[w].prev = comments[worker[w].com].status,
                        worker'[w].verifier \/
                          ~Refused(worker[w].com, worker'[w].prev,
                                   worker'[w].issue.status, FALSE)
                 PROVE  StatusFits(w)'
    BY <1>1
  <2>2. worker'[w].at = "save status" /\ worker'[w].com = worker[w].com
    BY <2>1 DEF Goes
  <2>3. \A d : ~Moving(w, d)'
    BY <2>2 DEF Moving
  <2>4. comments'[worker'[w].com].status = worker'[w].prev
    BY <1>2, <2>1, <2>2
  <2>5. worker'[w].verifier \/
          ~Refused(worker'[w].com, worker'[w].prev,
                   worker'[w].issue.status, FALSE)
    BY <2>1, <2>2
  <2>6. QED
    BY <2>3, <2>4, <2>5 DEF StatusFits, Refused
<1>5. QED
  BY <1>2, <1>3, <1>4, ExactKept

LEMMA SaveStatusExact ==
  ASSUME BaseInv, Calmness, Exactness, "other" \notin conflicts,
         "toggle" \notin conflicts, NEW w \in Workers,
         SaveStatus(w)
  PROVE  Exactness'
<1>0. PICK c : c = worker[w].com
  OBVIOUS
<1>1. /\ Busy(w) /\ At(w, "save status") /\ worker[w].kind = "status"
      /\ c \in Comments /\ UNCHANGED counts
      /\ \A d \in Comments : d # c => comments'[d] = comments[d]
      /\ comments'[c].status = worker[w].issue.status
      /\ Goes(w, "load review") /\ KeepsIssue(w) /\ KeepsPrev(w)
  BY <1>0, SaveStatusFacts
<1>2. StatusFits(w) /\ CountsFit /\ ~Dropping
  BY <1>1, NotDropping DEF Exactness
<1>3. comments[c].status = worker[w].prev
  BY <1>0, <1>1, <1>2 DEF StatusFits
<1>4. CountedIssues' = CountedIssues
  BY SaveStatusCalm, CountedSame
<1>5. /\ worker'[w].at = "load review" /\ worker'[w].kind = "status"
      /\ worker'[w].com = c /\ worker'[w].prev = worker[w].prev
      /\ worker'[w].issue = worker[w].issue /\ Stays(w)
      /\ UNCHANGED conflicts
  BY <1>0, <1>1 DEF Goes, KeepsIssue, KeepsPrev
<1>6. \A x \in Workers : ~Moving(x, c)
  <2>1. ~Moving(w, c)
    BY <1>1 DEF Moving, At
  <2>2. QED
    BY <1>0, <1>1, <2>1, MovingAlone
<1>7. Moving(w, c)' /\ \A x \in Workers \ {w} : ~Moving(x, c)'
  BY <1>5, <1>6 DEF Stays, Moving
<1>8. \A k : CountedAs(c, k)' <=> CountedAs(c, k)
  <2>1. \A k : CountedAs(c, k)' <=> CounterOf(worker'[w].prev) = k
    BY <1>7 DEF CountedAs
  <2>2. \A k : CountedAs(c, k) <=> CounterOf(comments[c].status) = k
    BY <1>6 DEF CountedAs
  <2>3. QED
    BY <1>3, <1>5, <2>1, <2>2
<1>9. \A d \in Comments : d # c => MovesAsBefore(w, d)
  BY <1>1, <1>5 DEF MovesAsBefore, Moving, At
<1>10. \A d \in CountedIssues, k \in IssueCounters :
         CountedAs(d, k)' <=> CountedAs(d, k)
  BY <1>1, <1>5, <1>8, <1>9, CountedAsKept DEF CountedIssues
<1>11. CountsFit'
  BY <1>1, <1>2, <1>4, <1>5, <1>10, CountsFitKept
<1>12. SparesOthers(w)
  <2>1. ASSUME NEW x \in Workers \ {w}, Busy(x), worker[x].kind = "status"
        PROVE  worker[x].com \in Comments /\ worker[x].com # c
    BY <1>0, <1>1, <2>1, StatusApart DEF BaseInv, Kinded
  <2>2. QED
    BY <1>1, <2>1 DEF SparesOthers
<1>13. StatusFits(w)'
  <2>1. \A d \in Comments : Moving(w, d)' => d = c
    BY <1>5 DEF Moving
  <2>2. QED
    BY <1>1, <1>5, <2>1 DEF StatusFits, At
<1>14. QED
  BY <1>5, <1>11, <1>12, <1>13, OthersStatusFit DEF Exactness

LEMMA ToggleExact ==
  ASSUME BaseInv, Calmness, Exactness, "other" \notin conflicts,
         "toggle" \notin conflicts, NEW w \in Workers,
         Toggle(w)
  PROVE  Exactness'
<1>0. PICK c, old, new : /\ c = worker[w].com
                         /\ old = CounterOf(worker[w].prev)
                         /\ new = CounterOf(worker[w].issue.status)
  OBVIOUS
<1>1. /\ Busy(w) /\ At(w, "toggle") /\ Ends(w) /\ ~Busy(w)'
      /\ UNCHANGED reviews /\ UNCHANGED comments
  BY ToggleBase
<1>2. Fits(w) /\ Kinded(w) /\ StatusFits(w) /\ CountsFit
  BY <1>1 DEF Calmness, BaseInv, Exactness
<1>3. /\ worker[w].kind = "status" /\ worker[w].prev \in Statuses
      /\ worker[w].issue.status \in Statuses /\ old # new
      /\ c \in Comments /\ worker[w].rev = ReviewOf[c]
      /\ reviews[worker[w].rev].public /\ comments[c].opened
  BY <1>0, <1>1, <1>2 DEF Fits, ChangeFits, Kinded, At
<1>4. old \in IssueCounters /\ new \in IssueCounters
  BY <1>0, <1>3, CounterTyped
<1>5. /\ counts'[old] = counts[old] - 1 /\ counts'[new] = counts[new] + 1
      /\ \A k \in Counters \ {old, new} : counts'[k] = counts[k]
  BY <1>0, <1>3, <1>4, ToggleFacts
<1>6. ~Dropping /\ CountedIssues' = CountedIssues
  BY <1>1, <1>3, NotDropping, ToggleCalm, CountedSame
<1>7. c \in CountedIssues
  <2>1. ASSUME NEW x \in Workers, worker[x].at \in {"fetch", "count"},
               worker[x].rev = worker[w].rev
        PROVE  FALSE
    <3>1. x # w
      BY <1>1, <2>1 DEF At
    <3>2. QED
      BY <1>1, <2>1, <3>1, CountingAlone
  <2>2. ~Uncounted(worker[w].rev)
    BY <2>1 DEF Uncounted
  <2>3. QED
    BY <1>3, <2>2 DEF CountedIssues, Counted
<1>8. Moving(w, c) /\ comments[c].status = worker[w].issue.status
  BY <1>0, <1>1, <1>2, <1>3 DEF Moving, StatusFits, At
<1>9. \A x \in Workers \ {w} : ~Moving(x, c)
  BY <1>0, <1>1, <1>3, MovingAlone
<1>10. Stays(w) /\ \A d : ~Moving(w, d)'
  BY <1>1 DEF Ends, Rest, Moving
<1>11. \A k : CountedAs(c, k) <=> k = old
  <2>1. \A k : CountedAs(c, k) <=> CounterOf(worker[w].prev) = k
    BY <1>8, <1>9 DEF CountedAs
  <2>2. QED
    BY <1>0, <2>1
<1>12. \A k : CountedAs(c, k)' <=> k = new
  <2>1. \A x \in Workers : ~Moving(x, c)'
    BY <1>9, <1>10 DEF Stays, Moving
  <2>2. \A k : CountedAs(c, k)' <=> CounterOf(comments[c].status) = k
    BY <1>1, <2>1 DEF CountedAs
  <2>3. QED
    BY <1>0, <1>8, <2>2
<1>13. \A d \in CountedIssues : d # c =>
         \A k : CountedAs(d, k)' <=> CountedAs(d, k)
  <2>1. \A d \in Comments : d # c => MovesAsBefore(w, d)
    BY <1>0, <1>10 DEF MovesAsBefore, Moving
  <2>2. QED
    BY <1>1, <1>10, <2>1, CountedAsKept DEF CountedIssues
<1>14. ASSUME NEW k \in IssueCounters, "issues" \notin conflicts
       PROVE  counts'[k] = Cardinality(IssuesAs(k)')
  <2>1. counts[k] = Cardinality(IssuesAs(k))
    BY <1>2, <1>6, <1>14 DEF CountsFit
  <2>2. IsFiniteSet(IssuesAs(k)) /\ Cardinality(IssuesAs(k)) \in Nat
    BY IssuesFinite DEF IssuesAs, CountedIssues
  <2>3. CASE k = old
    <3>1. c \in IssuesAs(k) /\ IssuesAs(k)' = IssuesAs(k) \ {c}
      BY <1>3, <1>6, <1>7, <1>11, <1>12, <1>13, <2>3 DEF IssuesAs
    <3>2. Cardinality(IssuesAs(k) \ {c}) = Cardinality(IssuesAs(k)) - 1
      BY <2>2, <3>1, FS_RemoveElement
    <3>3. Cardinality(IssuesAs(k)') = Cardinality(IssuesAs(k) \ {c})
      BY <3>1, Zenon
    <3>4. QED
      BY <1>5, <2>1, <2>3, <3>2, <3>3
  <2>4. CASE k = new
    <3>1. c \notin IssuesAs(k) /\ IssuesAs(k)' = IssuesAs(k) \cup {c}
      BY <1>3, <1>6, <1>7, <1>11, <1>12, <1>13, <2>4 DEF IssuesAs
    <3>2. Cardinality(IssuesAs(k) \cup {c}) = Cardinality(IssuesAs(k)) + 1
      BY <2>2, <3>1, FS_AddElement
    <3>3. Cardinality(IssuesAs(k)') = Cardinality(IssuesAs(k) \cup {c})
      BY <3>1, Zenon
    <3>4. QED
      BY <1>5, <2>1, <2>4, <3>2, <3>3
  <2>5. CASE k \notin {old, new}
    <3>1. IssuesAs(k)' = IssuesAs(k)
      BY <1>6, <1>11, <1>12, <1>13, <2>5 DEF IssuesAs
    <3>2. Cardinality(IssuesAs(k)') = Cardinality(IssuesAs(k))
      BY <3>1, Zenon
    <3>3. QED
      BY <1>5, <2>1, <2>5, <3>2 DEF Counters
  <2>6. QED
    BY <2>3, <2>4, <2>5
<1>15. CountsFit'
  BY <1>1, <1>14 DEF CountsFit, Ends
<1>16. SparesOthers(w)
  BY <1>1 DEF SparesOthers
<1>17. QED
  BY <1>1, <1>10, <1>15, <1>16, OthersStatusFit DEF Exactness

LEMMA DropExact ==
  ASSUME BaseInv, Calmness, Exactness, "other" \notin conflicts',
         "toggle" \notin conflicts', NEW w \in Workers,
         NEW v \in Reviews, DropOpenIssues(w, v)
  PROVE  Exactness'
<1>1. Begins(w, "recount", "drop", v, NoComment)
  BY DropFacts
<1>2. /\ worker'[w].at = "recount" /\ worker'[w].kind = "drop" /\ Stays(w)
      /\ ~Busy(w)
  BY <1>1 DEF Begins
<1>3. Dropping'
  BY <1>2 DEF Dropping
<1>4. \A x \in Workers \ {w} : ~Busy(x)
  BY <1>1, BeginsApart DEF Parts
<1>5. SparesOthers(w)
  BY <1>4 DEF SparesOthers
<1>6. StatusFits(w)'
  BY <1>2 DEF StatusFits, Moving, At
<1>7. QED
  BY <1>2, <1>3, <1>5, <1>6, OthersStatusFit DEF Exactness, CountsFit

LEMMA RecountExact ==
  ASSUME BaseInv, Calmness, Exactness, "other" \notin conflicts,
         "toggle" \notin conflicts, NEW w \in Workers,
         Recount(w)
  PROVE  Exactness'
<1>1. /\ Busy(w) /\ SameRows /\ worker[w].kind = "drop"
      /\ Goes(w, "save counts")
  BY RecountFacts
<1>2. /\ worker'[w].at = "save counts" /\ worker'[w].kind = "drop" /\ Stays(w)
  BY <1>1 DEF Goes
<1>3. Dropping'
  BY <1>2 DEF Dropping
<1>4. SparesOthers(w)
  BY <1>1 DEF SparesOthers, SameRows
<1>5. StatusFits(w)'
  BY <1>2 DEF StatusFits, Moving, At
<1>6. QED
  BY <1>2, <1>3, <1>4, <1>5, OthersStatusFit DEF Exactness, CountsFit

LEMMA SaveCountsExact ==
  ASSUME BaseInv, Calmness, Exactness, "other" \notin conflicts,
         "toggle" \notin conflicts, NEW w \in Workers,
         SaveCounts(w)
  PROVE  Exactness'
<1>1. /\ Busy(w) /\ At(w, "save counts") /\ worker[w].kind = "drop"
      /\ Leaves(w) /\ ~Busy(w)' /\ UNCHANGED reviews /\ UNCHANGED comments
      /\ \A k \in IssueCounters : counts'[k] = worker[w].fetched[k]
  BY SaveCountsFacts
<1>2. worker[w].fetched = FetchIssueCounts(Reviews)
  BY <1>1 DEF Calmness, Fits, ChangeFits
<1>3. Stays(w) /\ \A x \in Workers : ~Busy(x)'
  BY <1>1, DroppingAlone DEF Leaves, Stays, Busy, At
<1>4. \A v \in Reviews : ~Uncounted(v)'
  BY <1>3 DEF Uncounted, Busy, At
<1>5. \A x \in Workers, c \in Comments : ~Moving(x, c)'
  BY <1>3 DEF Moving, Busy, At
<1>6. ASSUME NEW k \in IssueCounters
      PROVE  counts'[k] = Cardinality(IssuesAs(k)')
  <2>1. counts'[k] =
          Cardinality({c \in Comments :
                         /\ ReviewOf[c] \in Reviews
                         /\ reviews[ReviewOf[c]].public
                         /\ comments[c].opened
                         /\ comments[c].status # NoStatus
                         /\ CounterOf(comments[c].status) = k})
    BY <1>1, <1>2, FetchTyped
  <2>2. \A c \in Comments : CountedAs(c, k)' <=> CounterOf(comments[c].status) = k
    BY <1>1, <1>5 DEF CountedAs
  <2>3. IssuesAs(k)' = {c \in Comments :
                          /\ ReviewOf[c] \in Reviews
                          /\ reviews[ReviewOf[c]].public
                          /\ comments[c].opened
                          /\ comments[c].status # NoStatus
                          /\ CounterOf(comments[c].status) = k}
    BY <1>1, <1>4, <2>2, IssueAssumption
       DEF IssuesAs, CountedIssues, Counted, Calmness, RowsFit
  <2>4. QED
    BY <2>1, <2>3, Zenon
<1>7. CountsFit'
  BY <1>6 DEF CountsFit
<1>8. QED
  BY <1>3, <1>7 DEF Exactness

LEMMA ArriveExact ==
  ASSUME BaseInv, Calmness, Exactness, "other" \notin conflicts',
         "toggle" \notin conflicts', NEW w \in Workers,
         Arrive(w)
  PROVE  Exactness'
<1> DEFINE Mutely == \E step \in Mute : \E kind, v, c :
                       Begins(w, step, kind, v, c) /\ SameRows /\ KeepsCounted
<1>1. Mutely => Exactness'
  BY BeginsExact
<1>2. {"save review", "save comment", "load issue", "revoke"} \subseteq Mute
  BY DEF Mute, Steps
<1>3. ASSUME NEW v \in Reviews, NEW shipIt \in BOOLEAN,
             NEW publish \in BOOLEAN, UpdateReview(w, v, shipIt, publish)
      PROVE  Mutely
  BY <1>2, <1>3, UpdateReviewFacts, UpdateReviewCalm
<1>4. ASSUME NEW c \in Comments, NEW opened \in BOOLEAN,
             UpdateComment(w, c, opened)
      PROVE  Mutely
  BY <1>2, <1>4, UpdateCommentFacts, UpdateCommentCalm
<1>5. ASSUME NEW c \in Comments, NEW status \in Statuses,
             NEW verifier \in BOOLEAN,
             UpdateIssueStatus(w, c, status, verifier)
      PROVE  Mutely
  BY <1>2, <1>5, UpdateIssueStatusFacts, UpdateIssueStatusCalm
<1>6. ASSUME NEW v \in Reviews, RevokeShipIt(w, v) PROVE Mutely
  BY <1>2, <1>6, RevokeShipItFacts, RevokeShipItCalm
<1> HIDE DEF Mutely
<1>7. QED
  BY <1>1, <1>3, <1>4, <1>5, <1>6, DropExact DEF Arrive

LEMMA NextExact ==
  ASSUME BaseInv, Calmness, Exactness, "other" \notin conflicts',
         "toggle" \notin conflicts', Next
  PROVE  Exactness'
<1>1. "other" \notin conflicts /\ "toggle" \notin conflicts
  BY ConflictsKept
<1>2. ASSUME NEW w \in Workers, Serve(w) PROVE Exactness'
  BY <1>1, <1>2, SaveReviewExact, PublishReviewExact, RefusePublishExact,
     FetchIssuesExact, CountReviewExact, SaveCommentExact, LoadReviewExact,
     ToggleExact, LoadIssueExact, SaveStatusExact, SaveRevokedExact,
     UncountShipItExact, RecountExact, SaveCountsExact DEF Serve
<1>3. ASSUME NEW w \in Workers, Crash(w) PROVE Exactness'
  BY <1>1, <1>3, CrashExact
<1>4. QED
  BY <1>2, <1>3, ArriveExact DEF Next

LEMMA ExactUnchanged ==
  ASSUME Exactness, UNCHANGED vars
  PROVE  Exactness'
<1>1. /\ UNCHANGED reviews /\ UNCHANGED comments /\ UNCHANGED counts
      /\ UNCHANGED worker /\ UNCHANGED conflicts
  BY DEF vars
<1>2. Dropping' <=> Dropping
  BY <1>1 DEF Dropping
<1>3. CountedIssues' = CountedIssues
  BY <1>1 DEF CountedIssues, Counted, Uncounted
<1>4. \A k \in IssueCounters : IssuesAs(k)' = IssuesAs(k)
  BY <1>1, <1>3 DEF IssuesAs, CountedAs, Moving
<1>5. CountsFit'
  <2>1. ASSUME NEW k \in IssueCounters
        PROVE  Cardinality(IssuesAs(k)') = Cardinality(IssuesAs(k))
    BY <1>4, Zenon
  <2>2. QED
    BY <1>1, <1>2, <2>1 DEF Exactness, CountsFit
<1>6. \A x \in Workers : Busy(x)' => StatusFits(x)'
  BY <1>1 DEF Exactness, StatusFits, Moving, Refused, Busy, At
<1>7. QED
  BY <1>5, <1>6 DEF Exactness

LEMMA InitExact == Init => ExactInv
<1> SUFFICES ASSUME Init PROVE Exactness
  BY DEF ExactInv
<1>1. \A w \in Workers : ~Busy(w)
  BY DEF Init, Busy, At, Rest
<1>2. \A k : IssuesAs(k) = {}
  BY DEF Init, IssuesAs, CountedIssues
<1>3. \A k : Cardinality(IssuesAs(k)) = 0
  BY <1>2, FS_EmptySet
<1>4. CountsFit
  BY <1>3 DEF Init, CountsFit, Counters
<1>5. QED
  BY <1>1, <1>4 DEF Exactness

LEMMA ExactStep == BaseInv /\ CalmInv /\ ExactInv /\ [Next]_vars => ExactInv'
<1> SUFFICES ASSUME BaseInv, CalmInv, ExactInv, [Next]_vars,
                    "other" \notin conflicts', "toggle" \notin conflicts'
             PROVE  Exactness'
  BY DEF ExactInv
<1>1. Calmness /\ Exactness
  BY ConflictsKept DEF CalmInv, ExactInv
<1>2. QED
  BY <1>1, NextExact, ExactUnchanged

LEMMA ExactCorrect == Spec => []ExactInv
<1>1. Init /\ [][Next]_vars /\ []BaseInv /\ []CalmInv => []ExactInv
  BY InitExact, ExactStep, PTL
<1>2. QED
  BY <1>1, BaseCorrect, CalmCorrect, PTL DEF Spec

(***************************************************************************)
(* What the counters are once all requests are answered.                   *)
(***************************************************************************)

(* Whatever requests about different reviews, and changes of different     *)
(* issues, are served at the same time: once all are answered, each        *)
(* counter is the number of issues with its status, or of Ship Its, in     *)
(* public reviews; and changes of one issue at the same time lose none.    *)
(* What requests that died, or failed the assertions of a publication,     *)
(* have left uncounted stays wrong, and nothing else, until a recount.     *)
THEOREM CountsAreExact == Spec => []CountsExact
<1>1. BaseInv /\ CalmInv /\ ExactInv => CountsExact
  <2> SUFFICES ASSUME BaseInv, CalmInv, ExactInv, Quiet,
                      "other" \notin conflicts
               PROVE  /\ "issues" \notin conflicts => IssueTotalExact
                      /\ "shipIt" \notin conflicts =>
                           counts["shipIt"] =
                             Cardinality({v \in Reviews :
                               reviews[v].public /\ reviews[v].shipIt})
                      /\ ("toggle" \notin conflicts /\ "issues" \notin conflicts) =>
                           \A k \in IssueCounters :
                             counts[k] = FetchIssueCounts(Reviews)[k]
    BY DEF CountsExact
  <2>1. Calmness
    BY DEF CalmInv
  <2>2. \A v \in Reviews : (Counted(v) <=> reviews[v].public) /\ ~Revoking(v)
    BY DEF Quiet, Counted, Uncounted, Revoking, Busy, At
  <2>3. CountedIssues = {c \in Comments : /\ reviews[ReviewOf[c]].public
                                          /\ comments[c].opened}
    BY <2>2, IssueAssumption DEF CountedIssues
  <2>4. Cardinality(CountedIssues)
          = Cardinality({c \in Comments : /\ reviews[ReviewOf[c]].public
                                          /\ comments[c].opened})
    BY <2>3, Zenon
  <2>5. "issues" \notin conflicts => IssueTotalExact
    BY <2>1, <2>4 DEF Calmness, TotalFits, Total, IssueTotalExact
  <2>6. ShipIts = {v \in Reviews : reviews[v].public /\ reviews[v].shipIt}
    BY <2>2 DEF ShipIts
  <2>7. Cardinality(ShipIts)
          = Cardinality({v \in Reviews : reviews[v].public /\ reviews[v].shipIt})
    BY <2>6, Zenon
  <2>8. "shipIt" \notin conflicts =>
          counts["shipIt"] =
            Cardinality({v \in Reviews : reviews[v].public /\ reviews[v].shipIt})
    BY <2>1, <2>7 DEF Calmness, ShipItsFit
  <2>9. ASSUME "toggle" \notin conflicts, "issues" \notin conflicts,
               NEW k \in IssueCounters
        PROVE  counts[k] = FetchIssueCounts(Reviews)[k]
    <3>1. ~Dropping /\ \A w \in Workers, c \in Comments : ~Moving(w, c)
      BY DEF Quiet, Dropping, Moving, Busy, At
    <3>2. counts[k] = Cardinality(IssuesAs(k))
      BY <2>9, <3>1 DEF ExactInv, Exactness, CountsFit
    <3>3. IssuesAs(k) = {c \in Comments : /\ ReviewOf[c] \in Reviews
                                          /\ reviews[ReviewOf[c]].public
                                          /\ comments[c].opened
                                          /\ comments[c].status # NoStatus
                                          /\ CounterOf(comments[c].status) = k}
      BY <2>1, <2>3, <3>1, IssueAssumption
         DEF IssuesAs, CountedAs, Calmness, RowsFit
    <3>4. Cardinality(IssuesAs(k)) = FetchIssueCounts(Reviews)[k]
      <4>1. FetchIssueCounts(Reviews)[k]
              = Cardinality({c \in Comments :
                               /\ ReviewOf[c] \in Reviews
                               /\ reviews[ReviewOf[c]].public
                               /\ comments[c].opened
                               /\ comments[c].status # NoStatus
                               /\ CounterOf(comments[c].status) = k})
        BY FetchTyped
      <4>2. QED
        BY <3>3, <4>1, Zenon
    <3>5. QED
      BY <3>2, <3>4
  <2>10. QED
    BY <2>5, <2>8, <2>9
<1>2. QED
  BY <1>1, BaseCorrect, CalmCorrect, ExactCorrect, PTL

(* No worker is about to close an issue that requires verification for a   *)
(* caller who may not verify it: what the worker checked is still so when  *)
(* it saves, unless two requests change that issue at the same time.       *)
THEOREM ClosedByVerifiers == Spec => []ClosedByVerifier
<1>1. BaseInv /\ CalmInv /\ ExactInv => ClosedByVerifier
  <2> SUFFICES ASSUME BaseInv, CalmInv, ExactInv,
                      conflicts \cap {"toggle", "other"} = {},
                      NEW w \in Workers, At(w, "save status"),
                      worker[w].com \in Guarded,
                      worker[w].issue.status \in Closed,
                      comments[worker[w].com].status \notin Closed
               PROVE  worker[w].verifier
    BY DEF ClosedByVerifier
  <2>1. Busy(w)
    BY DEF Busy, At
  <2>2. Calmness /\ StatusFits(w) /\ Fits(w)
    BY <2>1 DEF CalmInv, Calmness, ExactInv, Exactness
  <2>3. /\ comments[worker[w].com].status = worker[w].prev
        /\ worker[w].verifier \/ ~Refused(worker[w].com, worker[w].prev,
                                          worker[w].issue.status, FALSE)
    BY <2>2 DEF StatusFits
  <2>4. worker[w].prev \in Statuses
    BY <2>1, <2>2 DEF Fits, ChangeFits, BaseInv, Kinded, At
  <2>5. Refused(worker[w].com, worker[w].prev, worker[w].issue.status, FALSE)
    BY <2>3, <2>4 DEF Refused, Statuses, Closed
  <2>6. QED
    BY <2>3, <2>5
<1>2. QED
  BY <1>1, BaseCorrect, CalmCorrect, ExactCorrect, PTL
===============================================================================
