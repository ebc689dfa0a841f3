----------------------------- MODULE PendingReview -----------------------------
(***************************************************************************)
(* The unpublished reviews of one user on one review request               *)
(* (reviews/managers.py, webapi/resources/base_review.py).  There should   *)
(* be one at most, but nothing in the database says so: two requests that  *)
(* find none create two.  Loading a page that shows the pending review     *)
(* consolidates what it finds into the review that was saved longest ago.  *)
(*                                                                         *)
(* As in IssueTracking, each statement commits on its own, and a worker    *)
(* keeps the rows that it has loaded.  A worker may die between two        *)
(* statements.                                                             *)
(***************************************************************************)
EXTENDS Integers, FiniteSets, Sequences

CONSTANTS
  Workers,    \* processes that serve web requests
  Reviews,    \* primary keys of reviews
  Comments,   \* primary keys of comments
  Leftovers,  \* sequences of reviews that may be pending at first
  Contents,   \* what a request writes: [shipIt : BOOLEAN, top : BOOLEAN]
  Unborn,     \* a review that has not been created
  Deleted,    \* a review whose row is gone
  MaxCrashes  \* bound on the number of workers that die

VARIABLES
  reviews,    \* [Reviews -> Row, Unborn or Deleted]
  before,     \* [Reviews -> SUBSET Reviews], those with an older timestamp
  links,      \* [Reviews -> SUBSET Comments], the many-to-many table
  comments,   \* the comments that have been created and not deleted
  worker,     \* [Workers -> the request that is served, or Rest]
  owed,       \* history: comments that were added and not withdrawn
  collisions, \* history: kinds of requests that met on one review
  crashes     \* history: how many workers have died

rows == <<reviews, before, links, comments>>
vars == <<rows, worker, owed, collisions, crashes>>

(* top stands for any of body_top, body_bottom and what they reply to:     *)
(* whether it has been filled in.                                          *)
Content == [shipIt : BOOLEAN, top : BOOLEAN]
Row     == [public : BOOLEAN, shipIt : BOOLEAN, top : BOOLEAN]

ASSUME PendingAssumption ==
  /\ IsFiniteSet(Reviews) /\ IsFiniteSet(Comments)
  /\ Contents \subseteq Content
  /\ Leftovers \subseteq Seq(Reviews)
  /\ \A s \in Leftovers : \A i, j \in DOMAIN s : s[i] = s[j] => i = j
  /\ Unborn \notin Row /\ Deleted \notin Row /\ Deleted # Unborn
  /\ Unborn \notin Reviews /\ Unborn \notin Comments
  /\ MaxCrashes \in Nat

Kinds == {"save", "publish", "comment", "delete", "fix"}

(* The next statement of a worker; "render" is the end of a consolidation. *)
Steps == {"rest", "insert", "save", "publish", "link", "collect", "move",
          "unlink", "save master", "delete comments", "delete review", "render"}

(* rev and row are the instance that the request is about; fix has found   *)
(* several reviews, some of them filled, and has a master, its instance in *)
(* row, the duplicates to be merged after rev and the comments of rev that *)
(* are still to be moved.                                                  *)
Requests == [at : Steps, kind : Kinds, rev : Reviews \cup {Unborn}, row : Row,
             master : Reviews \cup {Unborn}, rest : Seq(Reviews),
             found : SUBSET Reviews, filled : SUBSET Reviews,
             todo : SUBSET Comments, com : Comments \cup {Unborn}]

Rest  == [at |-> "rest"]
Blank == [public |-> FALSE, shipIt |-> FALSE, top |-> FALSE]

Ask(kind, at, v, row) ==
  [at |-> at, kind |-> kind, rev |-> v, row |-> row, master |-> Unborn,
   rest |-> <<>>, found |-> {}, filled |-> {},
   todo |-> {}, com |-> Unborn]

(***************************************************************************)
(* The database.                                                           *)
(***************************************************************************)
Live(v)  == reviews[v] \in Row
IsPublic(v) == Live(v) /\ reviews[v].public

(* A mistake: the query does not ask for public=False.                     *)
PendingOrNot(v) == Live(v)

(* The query of get_pending_review, and its rows ordered by timestamp.     *)
Pending(v) == Live(v) /\ ~reviews[v].public
PendingReviews == {v \in Reviews : Pending(v)}

Listed(S) ==
  {s \in [1..Cardinality(S) -> S] :
     \A i, j \in DOMAIN s : i < j => s[i] \in before[s[j]]}

(* Review.save: every column, and a new timestamp.  Django inserts the row *)
(* again when there is none to update.                                     *)
Save(v, row) ==
  /\ reviews' = [reviews EXCEPT ![v] = row]
  /\ before' = [u \in Reviews |-> IF u = v THEN {x \in Reviews : Live(x)} \ {v}
                                           ELSE before[u] \ {v}]
  /\ UNCHANGED <<links, comments>>

At(w, step) == worker[w].at = step
Busy(w)     == ~At(w, "rest")

Become(w, rq)     == worker' = [worker EXCEPT ![w] = rq]
Continue(w, step) == Become(w, [worker[w] EXCEPT !.at = step])
Finish(w)         == Become(w, Rest)

(* The reviews whose instances a request holds.                            *)
Holds(rq) ==
  ({rq.rev, rq.master} \cup {rq.rest[i] : i \in DOMAIN rq.rest}) \ {Unborn}

Meeting(w, rq) ==
  {x \in Workers \ {w} : Busy(x) /\ Holds(worker[x]) \cap Holds(rq) # {}}

(* Saving and commenting do not harm each other.                           *)
Harmful ==
  {{k, other} : k \in {"fix", "publish", "delete"}, other \in Kinds}

Start(w, rq) ==
  /\ At(w, "rest")
  /\ Become(w, rq)
  /\ collisions' = collisions \cup
       (Harmful \cap {{rq.kind, worker[x].kind} : x \in Meeting(w, rq)})

(***************************************************************************)
(* Creating and updating a review, by POST or PUT.                         *)
(***************************************************************************)
Filled(row, content) ==
  [row EXCEPT !.shipIt = content.shipIt, !.top = row.top \/ content.top]

(* get_or_create, up to the insertion; finding several is an error.        *)
Post(w, content, kind) ==
  /\ Cardinality(PendingReviews) < 2
  /\ IF PendingReviews = {}
     THEN Start(w, Ask(kind, "insert", Unborn, Filled(Blank, content)))
     ELSE \E v \in PendingReviews :
            Start(w, Ask(kind, "save", v, Filled(reviews[v], content)))
  /\ UNCHANGED <<rows, owed, crashes>>

Insert(w) ==
  /\ At(w, "insert")
  /\ \E v \in Reviews :
       /\ reviews[v] = Unborn
       /\ Save(v, Blank)
       /\ Become(w, [worker[w] EXCEPT !.at = "save", !.rev = v])
  /\ UNCHANGED <<owed, collisions, crashes>>

Put(w, v, content, kind) ==
  /\ Pending(v)
  /\ Start(w, Ask(kind, "save", v, Filled(reviews[v], content)))
  /\ UNCHANGED <<rows, owed, crashes>>

SaveUpdate(w) ==
  /\ At(w, "save")
  /\ Save(worker[w].rev, worker[w].row)
  /\ IF worker[w].kind = "publish" THEN Continue(w, "publish") ELSE Finish(w)
  /\ UNCHANGED <<owed, collisions, crashes>>

(* can_publish refuses an empty review.                                    *)
Publish(w) ==
  LET rq    == worker[w]
      empty == ~rq.row.top /\ ~rq.row.shipIt /\ links[rq.rev] = {}
  IN  /\ At(w, "publish")
      /\ IF empty THEN UNCHANGED rows
                  ELSE Save(rq.rev, [rq.row EXCEPT !.public = TRUE])
      /\ Finish(w)
      /\ UNCHANGED <<owed, collisions, crashes>>

(***************************************************************************)
(* Adding a comment, which nobody sees before it is linked, and deleting   *)
(* a draft.  A key is not used again while a request knows it.             *)
(***************************************************************************)
AddComment(w, v, c) ==
  /\ Pending(v)
  /\ c \notin comments
  /\ \A x \in Workers : Busy(x) => worker[x].com # c /\ c \notin worker[x].todo
  /\ Start(w, [Ask("comment", "link", v, Blank) EXCEPT !.com = c])
  /\ UNCHANGED <<rows, owed, crashes>>

(* The foreign key refuses a review that is gone.                          *)
LinkComment(w) ==
  LET rq == worker[w]
  IN  /\ At(w, "link")
      /\ IF Live(rq.rev)
         THEN /\ comments' = comments \cup {rq.com}
              /\ links' = [links EXCEPT ![rq.rev] = @ \cup {rq.com}]
              /\ owed' = owed \cup {rq.com}
         ELSE UNCHANGED <<comments, links, owed>>
      /\ Finish(w)
      /\ UNCHANGED <<reviews, before, collisions, crashes>>

Delete(w, v) ==
  /\ Pending(v)
  /\ Start(w, Ask("delete", "delete comments", v, Blank))
  /\ UNCHANGED <<rows, owed, crashes>>

(***************************************************************************)
(* get_pending_review and fix_duplicate_reviews.                           *)
(***************************************************************************)
Fix(w) ==
  /\ Cardinality(PendingReviews) >= 2
  /\ \E found \in Listed(PendingReviews) :
       Start(w, [Ask("fix", "collect", found[2], reviews[found[1]]) EXCEPT
                   !.master = found[1],
                   !.rest   = SubSeq(found, 3, Len(found)),
                   !.found  = PendingReviews,
                   !.filled = {v \in PendingReviews : reviews[v].top}])
  /\ UNCHANGED <<rows, owed, crashes>>

(* A mistake: the duplicate's text is not looked at.                       *)
CollectComments(w) ==
  /\ At(w, "collect")
  /\ Become(w, [worker[w] EXCEPT !.at = "move", !.todo = links[worker[w].rev]])
  /\ UNCHANGED <<rows, owed, collisions, crashes>>

(* Text of the duplicate where the master, in memory, has none.            *)
Collect(w) ==
  /\ At(w, "collect")
  /\ Become(w, [worker[w] EXCEPT
                  !.at      = "move",
                  !.row.top = @ \/ worker[w].rev \in worker[w].filled,
                  !.todo    = links[worker[w].rev]])
  /\ UNCHANGED <<rows, owed, collisions, crashes>>

(* A mistake: a comment leaves the duplicate before the master has it.     *)
MoveRemovingFirst(w) ==
  LET rq == worker[w]
  IN  /\ At(w, "move")
      /\ rq.todo # {}
      /\ \E c \in rq.todo :
           /\ links' = [links EXCEPT ![rq.rev] = @ \ {c}]
           /\ Become(w, [rq EXCEPT !.at = "unlink", !.com = c])
      /\ UNCHANGED <<reviews, before, comments, owed, collisions, crashes>>

(* The foreign keys refuse a master or a comment that is gone.             *)
Move(w) ==
  LET rq == worker[w]
  IN  /\ At(w, "move")
      /\ rq.todo # {}
      /\ \E c \in rq.todo :
           IF Live(rq.master) /\ c \in comments
           THEN /\ links' = [links EXCEPT ![rq.master] = @ \cup {c}]
                /\ Become(w, [rq EXCEPT !.at = "unlink", !.com = c])
           ELSE Finish(w) /\ UNCHANGED links
      /\ UNCHANGED <<reviews, before, comments, owed, collisions, crashes>>

Unlink(w) ==
  LET rq == worker[w]
  IN  /\ At(w, "unlink")
      /\ links' = [links EXCEPT ![rq.rev] = @ \ {rq.com}]
      /\ Become(w, [rq EXCEPT !.at = "move", !.todo = @ \ {rq.com},
                              !.com = Unborn])
      /\ UNCHANGED <<reviews, before, comments, owed, collisions, crashes>>

SaveMaster(w) ==
  /\ At(w, "move")
  /\ worker[w].todo = {}
  /\ Save(worker[w].master, worker[w].row)
  /\ Continue(w, "delete comments")
  /\ UNCHANGED <<owed, collisions, crashes>>

(* Review.delete, for a request of the user or for a duplicate.            *)
DeleteComments(w) ==
  LET rq   == worker[w]
      gone == links[rq.rev]
  IN  /\ At(w, "delete comments")
      /\ comments' = comments \ gone
      /\ links' = [v \in Reviews |-> links[v] \ gone]
      /\ owed' = IF rq.kind = "delete" THEN owed \ gone ELSE owed
      /\ Continue(w, "delete review")
      /\ UNCHANGED <<reviews, before, collisions, crashes>>

DeleteReview(w) ==
  LET rq == worker[w]
  IN  /\ At(w, "delete review")
      /\ reviews' = [reviews EXCEPT ![rq.rev] = Deleted]
      /\ before' = [u \in Reviews |-> IF u = rq.rev THEN {}
                                                     ELSE before[u] \ {rq.rev}]
      /\ links' = [links EXCEPT ![rq.rev] = {}]
      /\ IF rq.kind = "delete"
         THEN Finish(w)
         ELSE IF rq.rest = <<>>
              THEN Continue(w, "render")
              ELSE Become(w, [rq EXCEPT !.at   = "collect",
                                        !.rev  = Head(rq.rest),
                                        !.rest = Tail(rq.rest)])
      /\ UNCHANGED <<comments, owed, collisions, crashes>>

Render(w) ==
  /\ At(w, "render")
  /\ Finish(w)
  /\ UNCHANGED <<rows, owed, collisions, crashes>>

Crash(w) ==
  /\ Busy(w)
  /\ crashes < MaxCrashes
  /\ crashes' = crashes + 1
  /\ Finish(w)
  /\ UNCHANGED <<rows, owed, collisions>>

(***************************************************************************)
(* The specification.                                                      *)
(***************************************************************************)

(* Reviews that as many requests have created, all at the same time.       *)
Init ==
  /\ reviews \in [Reviews -> {Blank, Unborn}
                        \cup {Filled(Blank, content) : content \in Contents}]
  /\ \E s \in Leftovers :
       /\ \A v \in Reviews : reviews[v] # Unborn <=> \E i \in DOMAIN s : s[i] = v
       /\ before = [v \in Reviews |->
            {u \in Reviews : \E i, j \in DOMAIN s : i < j /\ s[i] = u /\ s[j] = v}]
  /\ links = [v \in Reviews |-> {}]
  /\ comments = {}
  /\ worker = [w \in Workers |-> Rest]
  /\ owed = {}
  /\ collisions = {}
  /\ crashes = 0

Arrive(w) ==
  \/ \E content \in Contents, kind \in {"save", "publish"} :
       Post(w, content, kind) \/ \E v \in Reviews : Put(w, v, content, kind)
  \/ \E v \in Reviews, c \in Comments : AddComment(w, v, c)
  \/ \E v \in Reviews : Delete(w, v)
  \/ Fix(w)

Serve(w) ==
  \/ Insert(w) \/ SaveUpdate(w) \/ Publish(w)
  \/ LinkComment(w)
  \/ Collect(w) \/ Move(w) \/ Unlink(w) \/ SaveMaster(w)
  \/ DeleteComments(w) \/ DeleteReview(w) \/ Render(w)

Next == \E w \in Workers : Arrive(w) \/ Serve(w) \/ Crash(w)

Spec == Init /\ [][Next]_vars

(***************************************************************************)
(* Properties.                                                             *)
(***************************************************************************)
(* The timestamps order the live reviews.                                  *)
Ordered ==
  /\ \A u, v \in Reviews : u # v /\ Live(u) /\ Live(v) =>
       (u \in before[v] <=> v \notin before[u])
  /\ \A t, u, v \in Reviews :
       t \in before[u] /\ u \in before[v] => t \in before[v] /\ t # v

TypeOK ==
  /\ reviews \in [Reviews -> Row \cup {Unborn, Deleted}]
  /\ before \in [Reviews -> SUBSET Reviews]
  /\ \A u, v \in Reviews : u \in before[v] => Live(u) /\ Live(v)
  /\ Ordered
  /\ links \in [Reviews -> SUBSET comments]
  /\ comments \subseteq Comments
  /\ worker \in [Workers -> Requests \cup {Rest}]
  /\ owed \subseteq Comments
  /\ collisions \subseteq SUBSET Kinds
  /\ crashes \in 0..MaxCrashes

Met(pairs) == collisions \cap pairs # {}

(* What loses comments: two consolidations at once, a comment added to a   *)
(* review that is being merged or deleted, a deletion during a merge.      *)
Losing == {{"fix"}, {"fix", "comment"}, {"fix", "delete"}, {"comment", "delete"}}

(* A comment that was added is in a review until its author deletes that   *)
(* review, wherever consolidations are interrupted, restarted with another *)
(* master, or met by requests that save what they merge.                   *)
CommentsKept ==
  ~Met(Losing) => \A c \in owed : \E v \in Reviews : Live(v) /\ c \in links[v]

(* A published review stays: it is not deleted, made private, emptied or   *)
(* filled by what another page consolidates, unless a request publishes    *)
(* a review that another one holds.  (Its comments may go when a worker    *)
(* has died, for between the two statements that move a comment it is in   *)
(* two reviews, and one may be published and the other deleted; likewise   *)
(* when two consolidations have moved it to different reviews.)            *)
PublishedKept ==
  [][~(\E pair \in collisions' : "publish" \in pair) =>
       \A v \in Reviews : IsPublic(v) =>
         /\ reviews'[v] = reviews[v]
         /\ crashes = 0 /\ {"fix"} \notin collisions => links'[v] = links[v]]_vars

(* A consolidation that nothing met leaves one of the reviews that it      *)
(* found, and with text if any of them had some.                           *)
Consolidated ==
  (\A pair \in collisions : "fix" \notin pair) =>
    \A w \in Workers : At(w, "render") =>
      LET rq == worker[w]
      IN  /\ Pending(rq.master)
          /\ rq.filled # {} => reviews[rq.master].top
          /\ \A v \in rq.found \ {rq.master} : ~Live(v) /\ links[v] = {}

(***************************************************************************)
(* What the code does not keep.                                            *)
(***************************************************************************)

Merges(w, step) == At(w, step) /\ worker[w].kind = "fix"

(* A consolidation deletes no comment with the duplicates that it removes. *)
MergingDeletesNoComment ==
  [][\A w \in Workers :
       Merges(w, "delete comments") /\ At(w, "delete review")' => comments' = comments]_vars
===============================================================================
