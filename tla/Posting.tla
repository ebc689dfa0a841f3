------------------------------ MODULE Posting ------------------------------
(***************************************************************************)
(* The identifiers of review requests: the commit ID and the change number *)
(* that a review request, or its draft, stands for, and its number on a    *)
(* Local Site (reviews/managers.py, webapi/resources/review_request.py,    *)
(* webapi/resources/review_request_draft.py).                              *)
(*                                                                         *)
(* One repository and one Local Site, on which a review request can only   *)
(* be addressed by its number.  Creating a review request and editing a    *)
(* draft check and write in different statements, so they are served here  *)
(* by workers in several steps; the other operations check nothing.  The   *)
(* unique indexes of the database refuse what would collide, but they do   *)
(* not know of drafts.                                                     *)
(***************************************************************************)
EXTENDS Naturals, FiniteSets, FiniteSetsExt

CONSTANTS
  Requests,   \* review requests
  Workers,    \* the workers that create review requests and edit drafts
  Commits,    \* commit IDs
  Numbers,    \* the commit IDs that are also change numbers
  None,       \* no commit ID, no change number
  NoDraft,    \* no draft
  Absent,     \* a review request that was not created
  Deleted,    \* a review request that was deleted
  Idle        \* a worker without a request

VARIABLES
  rr,         \* the table of review requests, each with its draft's commit ID
  requests,   \* what each worker is doing
  orphans,    \* whether a failed creation left a diff set history behind
  given,      \* history: the highest number that was ever given
  harm        \* history: what has made identifiers collide

vars == <<rr, requests, orphans, given, harm>>

Row == [commit : Commits \cup {None}, number : Numbers \cup {None},
        local : Nat, discarded : BOOLEAN,
        draft : Commits \cup {None, NoDraft}]
Harms == {"met", "number", "reassociated", "numbered together", "died",
          "view refused", "publication refused"}

Stages == {"insert", "number", "save number", "draft"}
Request ==
  [op : Stages, r : Requests, c : Commits \cup {None}, local : Nat]
    \cup [op : {"edit"}, r : Requests, c : Commits,
          draft : {"none", "held", "gone"}]

ASSUME PostingAssumption ==
  /\ Numbers \subseteq Commits
  /\ None \notin Commits /\ NoDraft \notin Commits \cup {None}
  /\ {Absent, Deleted} \cap Row = {} /\ Absent # Deleted
  /\ Idle \notin Request

Live(r) == rr[r] \in Row
Addressed(r) == Live(r) /\ rr[r].local # 0

NumberOf(c) == IF c \in Numbers THEN c ELSE None

(* Review requests other than r for which an index of the table, or only   *)
(* the checks of the API, know the commit ID c.                            *)
Holders(c, r) == {s \in Requests \ {r} : Live(s) /\ rr[s].commit = c}
Numbered(c, r) ==
  {s \in Requests \ {r} : Live(s) /\ c \in Numbers /\ rr[s].number = c}
Drafted(c, r) == {s \in Requests \ {r} : Live(s) /\ rr[s].draft = c}

Clash(c, r) == c # None /\ Holders(c, r) # {}
NumberClash(c, r) == c # None /\ Numbered(c, r) # {}

(* Requests that have checked this commit ID and not yet written it, and   *)
(* what another claim of it adds to harm.                                  *)
Claiming(c) == {w \in Workers : /\ requests[w] # Idle
                                /\ requests[w].op \in {"insert", "edit"}
                                /\ requests[w].c = c}

Met(c) == IF c # None /\ Claiming(c) # {} THEN {"met"} ELSE {}

Init ==
  /\ rr = [r \in Requests |-> Absent]
  /\ requests = [w \in Workers |-> Idle]
  /\ orphans = FALSE
  /\ given = 0
  /\ harm = {}

Begin(w, request) ==
  /\ requests[w] = Idle
  /\ requests' = [requests EXCEPT ![w] = request]

For(w, r) == requests[w] # Idle /\ requests[w].r = r
At(w, op) == requests[w] # Idle /\ requests[w].op = op
End(w) == requests' = [requests EXCEPT ![w] = Idle]
Go(w, op) == requests' = [requests EXCEPT ![w].op = op]

(* A mistake: drafts are not asked. *)
CreatePublic(w, r, c) ==
  /\ rr[r] = Absent
  /\ \A v \in Workers : ~For(v, r)
  /\ c # None => Holders(c, r) \cup Numbered(c, r) = {}
  /\ Begin(w, [op |-> "insert", r |-> r, c |-> c, local |-> 0])
  /\ harm' = harm \cup Met(c)
  /\ UNCHANGED <<rr, orphans, given>>

(* A mistake: review requests are not asked. *)
CreateDrafted(w, r, c) ==
  /\ rr[r] = Absent
  /\ \A v \in Workers : ~For(v, r)
  /\ c # None => Drafted(c, r) = {}
  /\ Begin(w, [op |-> "insert", r |-> r, c |-> c, local |-> 0])
  /\ harm' = harm \cup Met(c)
  /\ UNCHANGED <<rr, orphans, given>>

(* The commit ID must not be that of a review request or a draft, nor, if  *)
(* it is a number, a change number.                                        *)
Create(w, r, c) ==
  /\ rr[r] = Absent
  /\ \A v \in Workers : ~For(v, r)
  /\ c # None => Holders(c, r) \cup Drafted(c, r) \cup Numbered(c, r) = {}
  /\ Begin(w, [op |-> "insert", r |-> r, c |-> c, local |-> 0])
  /\ harm' = harm \cup Met(c)
  /\ UNCHANGED <<rr, orphans, given>>

Insert(w) ==
  LET r == requests[w].r
      c == requests[w].c IN
  /\ At(w, "insert")
  /\ ~Clash(c, r) /\ ~NumberClash(c, r)
  /\ rr' = [rr EXCEPT ![r] = [commit |-> c, number |-> NumberOf(c),
                              local |-> 0, discarded |-> FALSE,
                              draft |-> NoDraft]]
  /\ Go(w, "number")
  /\ UNCHANGED <<orphans, given, harm>>

(* The insertion is refused by an index.  What was saved before it is      *)
(* deleted again if the error names the change number; the database names  *)
(* one of the indexes that refused.                                        *)
RefuseInsert(w) ==
  LET r == requests[w].r
      c == requests[w].c IN
  /\ At(w, "insert")
  /\ \/ NumberClash(c, r) /\ UNCHANGED orphans
     \/ Clash(c, r) /\ orphans' = TRUE
  /\ End(w)
  /\ UNCHANGED <<rr, given, harm>>

(* A mistake: review requests that were discarded are not counted. *)
MaxLocalOpen ==
  Max({rr[r].local : r \in {s \in Requests : Live(s) /\ ~rr[s].discarded}}
        \cup {0})

MaxLocal == Max({rr[r].local : r \in {s \in Requests : Live(s)}} \cup {0})

(* UPDATE ... SET local_id = COALESCE(MAX + 1, 1): two of them may both    *)
(* read before either commits, unless the database serializes them.        *)
ReadNumber(w) ==
  /\ At(w, "number")
  /\ requests' = [requests EXCEPT ![w].op = "save number",
                                  ![w].local = MaxLocal + 1]
  /\ harm' = IF \E v \in Workers \ {w} : At(v, "save number")
               THEN harm \cup {"numbered together"} ELSE harm
  /\ UNCHANGED <<rr, orphans, given>>

SaveNumber(w) ==
  LET r == requests[w].r
      n == requests[w].local IN
  /\ At(w, "save number")
  /\ IF \E s \in Requests : Live(s) /\ rr[s].local = n
       THEN End(w) /\ UNCHANGED <<rr, given>>
       ELSE /\ rr' = [rr EXCEPT ![r].local = n]
            /\ Go(w, "draft")
            /\ given' = Max({given, n})
  /\ UNCHANGED <<orphans, harm>>

CreateDraft(w) ==
  LET r == requests[w].r IN
  /\ At(w, "draft")
  /\ rr' = IF Live(r) /\ rr[r].draft = NoDraft
             THEN [rr EXCEPT ![r].draft = rr[r].commit] ELSE rr
  /\ End(w)
  /\ UNCHANGED <<orphans, given, harm>>

(* The worker dies: nothing is undone and nobody goes on. *)
Die(w) ==
  /\ requests[w] # Idle /\ requests[w].op \in Stages \ {"insert"}
  /\ "died" \notin harm
  /\ End(w)
  /\ harm' = harm \cup {"died"}
  /\ UNCHANGED <<rr, orphans, given>>

(* A mistake: other drafts are not asked. *)
EditDraftPublic(w, r, c) ==
  /\ Addressed(r)
  /\ c \notin {rr[r].commit, rr[r].draft}
  /\ Holders(c, r) = {}
  /\ Begin(w, [op |-> "edit", r |-> r, c |-> c,
               draft |-> IF rr[r].draft = NoDraft THEN "none" ELSE "held"])
  /\ harm' = harm \cup Met(c)
                \cup (IF NumberClash(c, r) THEN {"number"} ELSE {})
  /\ UNCHANGED <<rr, orphans, given>>

(* PUT and POST of a draft: a commit ID that is not the review request's   *)
(* own, nor its draft's, must not be that of another one or its draft.     *)
(* Change numbers are not asked.                                           *)
EditDraft(w, r, c) ==
  /\ Addressed(r)
  /\ c \notin {rr[r].commit, rr[r].draft}
  /\ Holders(c, r) \cup Drafted(c, r) = {}
  /\ Begin(w, [op |-> "edit", r |-> r, c |-> c,
               draft |-> IF rr[r].draft = NoDraft THEN "none" ELSE "held"])
  /\ harm' = harm \cup Met(c)
                \cup (IF NumberClash(c, r) THEN {"number"} ELSE {})
  /\ UNCHANGED <<rr, orphans, given>>

(* Saving a draft that has gone fails; one that did not exist is created,  *)
(* or found.                                                               *)
SaveDraft(w) ==
  LET r == requests[w].r IN
  /\ At(w, "edit")
  /\ rr' = IF Live(r) /\ requests[w].draft # "gone"
             THEN [rr EXCEPT ![r].draft = requests[w].c] ELSE rr
  /\ End(w)
  /\ UNCHANGED <<orphans, given, harm>>

(* The drafts that workers hold go with the draft of r. *)
DraftGoes(r) ==
  requests' = [w \in Workers |->
    IF At(w, "edit") /\ requests[w].r = r /\ requests[w].draft = "held"
      THEN [requests[w] EXCEPT !.draft = "gone"] ELSE requests[w]]

DiscardDraft(r) ==
  /\ Addressed(r) /\ rr[r].draft # NoDraft
  /\ rr' = [rr EXCEPT ![r].draft = NoDraft]
  /\ DraftGoes(r)
  /\ UNCHANGED <<orphans, given, harm>>

(* The review request takes its draft's commit ID, if the index lets it.   *)
Publish(r) ==
  /\ Addressed(r) /\ rr[r].draft # NoDraft
  /\ IF Clash(rr[r].draft, r)
       THEN /\ harm' = harm \cup {"publication refused"}
            /\ UNCHANGED <<rr, requests>>
       ELSE /\ rr' = [rr EXCEPT ![r].commit = rr[r].draft,
                                ![r].draft = NoDraft]
            /\ DraftGoes(r)
            /\ UNCHANGED harm
  /\ UNCHANGED <<orphans, given>>

(* Discarding gives the commit ID away, but not the change number.         *)
Discard(r) ==
  /\ Addressed(r)
  /\ rr' = [rr EXCEPT ![r].discarded = TRUE, ![r].draft = NoDraft,
                      ![r].commit = IF rr[r].discarded THEN @ ELSE None]
  /\ DraftGoes(r)
  /\ UNCHANGED <<orphans, given, harm>>

Reopen(r) ==
  /\ Addressed(r) /\ rr[r].discarded
  /\ rr' = [rr EXCEPT ![r].discarded = FALSE,
                      ![r].draft = IF @ = NoDraft THEN rr[r].commit ELSE @]
  /\ UNCHANGED <<requests, orphans, given, harm>>

(* A review request is sent to a client: one without a commit ID takes its *)
(* change number for it, by an update that the index may refuse.           *)
View(r) ==
  /\ Live(r) /\ rr[r].commit = None /\ rr[r].number # None
  /\ IF Clash(rr[r].number, r)
       THEN harm' = harm \cup {"view refused"} /\ UNCHANGED rr
       ELSE rr' = [rr EXCEPT ![r].commit = rr[r].number] /\ UNCHANGED harm
  /\ UNCHANGED <<requests, orphans, given>>

(* PUT changenum=...: the review request is given the number, if it is     *)
(* another one, and reopened; its draft takes the number; and the number   *)
(* is saved.  An index may refuse it when the review request is reopened,  *)
(* where one that was discarded gets a draft first, or at the end.  Drafts *)
(* of other review requests are not asked.                                 *)
Reassociate(r, c) ==
  LET moved == c # rr[r].number
      refused == moved /\ (Clash(c, r) \/ NumberClash(c, r)) IN
  /\ Addressed(r)
  /\ \/ /\ ~refused
        /\ rr' = [rr EXCEPT ![r].draft = c, ![r].discarded = FALSE,
                            ![r].commit = IF moved THEN c ELSE @,
                            ![r].number = c]
     \/ /\ refused /\ (rr[r].discarded => rr[r].draft = NoDraft)
        /\ rr' = [rr EXCEPT ![r].draft = c]
     \/ /\ refused /\ (rr[r].discarded => rr[r].draft # NoDraft)
        /\ UNCHANGED rr
  /\ harm' = harm \cup Met(c)
       \cup (IF Holders(c, r) \cup Numbered(c, r) \cup Drafted(c, r) = {}
               THEN {} ELSE {"reassociated"})
  /\ UNCHANGED <<requests, orphans, given>>

Delete(r) ==
  /\ Addressed(r)
  /\ rr' = [rr EXCEPT ![r] = Deleted]
  /\ DraftGoes(r)
  /\ UNCHANGED <<orphans, given, harm>>

Next ==
  \/ \E w \in Workers, r \in Requests :
       \/ \E c \in Commits \cup {None} : Create(w, r, c)
       \/ \E c \in Commits : EditDraft(w, r, c)
  \/ \E w \in Workers :
       \/ Insert(w)
       \/ RefuseInsert(w)
       \/ ReadNumber(w)
       \/ SaveNumber(w)
       \/ CreateDraft(w)
       \/ Die(w)
       \/ SaveDraft(w)
  \/ \E r \in Requests :
       \/ DiscardDraft(r)
       \/ Publish(r)
       \/ Discard(r)
       \/ Reopen(r)
       \/ View(r)
       \/ Delete(r)
       \/ \E c \in Numbers : Reassociate(r, c)

Spec == Init /\ [][Next]_vars
-----------------------------------------------------------------------------
(* Rows and requests are of their types. *)
TypeOK ==
  /\ rr \in [Requests -> Row \cup {Absent, Deleted}]
  /\ requests \in [Workers -> Request \cup {Idle}]
  /\ orphans \in BOOLEAN /\ given \in Nat
  /\ harm \subseteq Harms

Without(causes) == causes \cap harm = {}

(* No two review requests and drafts of review requests claim one commit   *)
(* ID, through every sequence of discarding, reopening, publishing and     *)
(* editing; unless two requests claimed it at the same time, or it is the  *)
(* change number of a discarded review request, or a review request was    *)
(* given another change number.                                            *)
OneClaim ==
  Without({"met", "number", "reassociated"}) =>
    \A c \in Commits :
      Cardinality({r \in Requests : Live(r) /\ c \in {rr[r].commit,
                                                      rr[r].draft}}) <= 1

(* Nothing that the checks of the API let pass is refused by the database  *)
(* when it is published or shown, with the same exceptions.                *)
NeverRefused ==
  Without({"met", "number", "reassociated"}) =>
    Without({"view refused", "publication refused"})

(* A review request whose creation has ended can be addressed and, when it *)
(* is the only one numbered at the time, no creation fails half way.       *)
CreationCompletes ==
  \A r \in Requests :
    /\ Without({"numbered together", "died"})
    /\ Live(r) /\ rr[r].local = 0
    => \E w \in Workers : For(w, r)

(* A creation that the database refuses leaves nothing behind, unless two  *)
(* requests claimed the commit ID, or the draft API gave it away.          *)
NothingLeft == Without({"met", "number", "reassociated"}) => ~orphans

(* The numbers on a Local Site only ever grow, as the comment in           *)
(* ReviewRequestManager.create says.                                       *)
NumbersGrow ==
  [][\A r \in Requests :
       Addressed(r)' /\ ~Addressed(r) => rr'[r].local > given]_vars
=============================================================================
