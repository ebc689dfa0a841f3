----------------------------- MODULE ReviewRequest -----------------------------
(***************************************************************************)
(* Review requests, their drafts, and the counters that the dashboard      *)
(* reads (reviews/models/review_request.py, review_request_draft.py and    *)
(* accounts/models.py).                                                    *)
(*                                                                         *)
(* The counters are not computed when they are read: every operation adds  *)
(* or subtracts one, from the values it finds, so that each counter stays  *)
(* the number of rows of a query, its initializer.  This module takes each *)
(* operation of the web API as one step: what goes wrong here goes wrong   *)
(* without any concurrency.                                                *)
(***************************************************************************)
EXTENDS Integers, FiniteSets

CONSTANTS
  Requests,   \* identities of review requests
  Users,      \* users, each with a LocalSiteProfile
  Groups,     \* review groups
  Texts,      \* values of the summary and description
  Blank,      \* the text that does not pass validation
  NoRow,      \* a review request that is not in the database
  NoDraft,    \* a review request without a draft
  Null        \* a counter that the next load of its row recomputes

VARIABLES
  rr,                \* [Requests -> Row or NoRow], the review request table
  members,           \* [Groups -> SUBSET Users], Group.users
  starred,           \* [Users -> SUBSET Requests], starred_review_requests
  groupIncoming,     \* Group.incoming_request_count
  directIncoming,    \* LocalSiteProfile.direct_incoming_request_count
  totalIncoming,     \* LocalSiteProfile.total_incoming_request_count
  pendingOutgoing,   \* LocalSiteProfile.pending_outgoing_request_count
  totalOutgoing,     \* LocalSiteProfile.total_outgoing_request_count
  starredPublic,     \* LocalSiteProfile.starred_public_request_count
  drift              \* history: the ways in which a counter went wrong so far

incoming == <<groupIncoming, directIncoming, totalIncoming, starredPublic>>
outgoing == <<pendingOutgoing, totalOutgoing>>
people   == <<members, starred>>
vars     == <<rr, people, incoming, outgoing, drift>>

Pending   == "P"
Submitted == "S"
Discarded == "D"
Statuses  == {Pending, Submitted, Discarded}

(* The change description that a draft holds: none before the first        *)
(* publication, an empty one, or the one in which reopen recorded that     *)
(* a discarded review request is pending again.                            *)
ChangeDescs == {"none", "empty", "reopened"}

(* What get_close_info reads: the status that the latest public change      *)
(* description closes with, if it is one of a closing.                     *)
CloseInfos == {"none", Submitted, Discarded}

Draft == [owner : Users, people : SUBSET Users, groups : SUBSET Groups,
          text : Texts, changedesc : ChangeDescs]

Row == [status : Statuses, public : BOOLEAN, submitter : Users,
        people : SUBSET Users, groups : SUBSET Groups, text : Texts,
        closeInfo : CloseInfos, draft : Draft \cup {NoDraft}]

(* The causes of drift: a draft on a closed review request is published,   *)
(* or fails to be; a private review request is discarded while its draft   *)
(* names another owner; a review request is starred or unstarred twice, or *)
(* while submitted; a counter is recomputed from an initializer that also  *)
(* counts starred review requests; the profile of the old owner is loaded  *)
(* in the middle of a publication; a closing fails half-way.               *)
Causes == {"closed publish", "owner discarded", "star", "recount",
           "old owner recount", "failed close"}

ASSUME ConstantsAssumption ==
  /\ IsFiniteSet(Requests)
  /\ Blank \in Texts
  /\ NoRow \notin Row
  /\ NoRow \notin [status : Statuses, public : BOOLEAN]
  /\ NoDraft \notin Draft
  /\ Null \notin Int

(***************************************************************************)
(* The queries that the counters stand for.                                *)
(***************************************************************************)
Listed(r, rows) ==
  rows[r] # NoRow /\ rows[r].status = Pending /\ rows[r].public

Reviewers(row) == row.people \cup UNION {members[g] : g \in row.groups}

ToGroup(g)        == {r \in Requests : Listed(r, rr) /\ g \in rr[r].groups}
ToUserDirectly(u) == {r \in Requests : Listed(r, rr) /\ u \in rr[r].people}
ToUser(u)         == {r \in Requests : Listed(r, rr) /\ u \in Reviewers(rr[r])}
StarredBy(u)      == {r \in Requests : Listed(r, rr) /\ r \in starred[u]}
FromUser(u)       == {r \in Requests : rr[r] # NoRow /\ rr[r].submitter = u}
PendingFrom(u)    == {r \in FromUser(u) : rr[r].status = Pending}

(* to_user, the query behind the initializer of totalIncoming: unlike the  *)
(* increments, it also matches what the user has starred.                  *)
TotalInitializer(u, rows, stars) ==
  Cardinality({r \in Requests : /\ Listed(r, rows)
                                /\ u \in Reviewers(rows[r]) \/ r \in stars[u]})

(***************************************************************************)
(* Counters (djblets CounterField): UPDATE ... SET c = c + n, which leaves *)
(* NULL alone; a NULL is recomputed and saved when its row is loaded.      *)
(***************************************************************************)
Add(counter, S, n) ==
  [x \in DOMAIN counter |->
     IF x \in S /\ counter[x] # Null THEN counter[x] + n ELSE counter[x]]

Load(counter, us, rows, stars) ==
  [u \in Users |-> IF u \in us /\ counter[u] = Null
                   THEN TotalInitializer(u, rows, stars)
                   ELSE counter[u]]

(* Whether loading u's profile stores a number that the increments and     *)
(* decrements do not stand for.                                            *)
RecountDrifts(u, rows, stars) ==
  /\ totalIncoming[u] = Null
  /\ \E r \in stars[u] : Listed(r, rows) /\ u \notin Reviewers(rows[r])

Cause(c, holds) == IF holds THEN {c} ELSE {}

(* Whose counters a review request bumps when it enters or leaves the      *)
(* dashboards: _increment_reviewer_counts and _decrement_reviewer_counts.  *)
Targets(r, row) ==
  [groups |-> row.groups, direct |-> row.people, all |-> Reviewers(row),
   stars |-> {u \in Users : r \in starred[u]}]

NoTargets == [groups |-> {}, direct |-> {}, all |-> {}, stars |-> {}]

Move(counter, from, to) == Add(Add(counter, from, -1), to, 1)

(* Mistakes in _decrement_reviewer_counts: called once the draft is         *)
(* published, for the new groups; counting members as named reviewers;     *)
(* passing over those who starred the review request.                      *)
MoveIncomingLate(from, to) ==
  /\ groupIncoming' =
       Move(groupIncoming,
            IF to = NoTargets THEN from.groups ELSE to.groups, to.groups)
  /\ directIncoming' = Move(directIncoming, from.direct, to.direct)
  /\ starredPublic'  = Move(starredPublic, from.stars, to.stars)

MoveIncomingMembers(from, to) ==
  /\ groupIncoming'  = Move(groupIncoming, from.groups, to.groups)
  /\ directIncoming' = Move(directIncoming, from.all, to.all)
  /\ starredPublic'  = Move(starredPublic, from.stars, to.stars)

MoveIncomingUnstarred(from, to) ==
  /\ groupIncoming'  = Move(groupIncoming, from.groups, to.groups)
  /\ directIncoming' = Move(directIncoming, from.direct, to.direct)
  /\ UNCHANGED starredPublic

MoveIncoming(from, to) ==
  /\ groupIncoming'  = Move(groupIncoming, from.groups, to.groups)
  /\ directIncoming' = Move(directIncoming, from.direct, to.direct)
  /\ starredPublic'  = Move(starredPublic, from.stars, to.stars)

(* A mistake in _update_counts: the old owner keeps what is given away.    *)
MoveOutgoingKept(status, oldOwner, row) ==
  /\ UNCHANGED totalOutgoing
  /\ pendingOutgoing' =
       Move(pendingOutgoing,
            IF status = Pending /\ row.status # Pending THEN {oldOwner} ELSE {},
            IF row.status = Pending /\ status # Pending THEN {row.submitter} ELSE {})

(* What _update_counts does to the owners' counters when status is what    *)
(* the database held and oldOwner who owned the review request until now.  *)
MoveOutgoing(status, oldOwner, row) ==
  LET moved == oldOwner # row.submitter
      opens  == row.status = Pending /\ (moved \/ status # Pending)
      closes == status = Pending /\ (moved \/ row.status # Pending)
  IN  /\ totalOutgoing' = IF moved
                          THEN Move(totalOutgoing, {oldOwner}, {row.submitter})
                          ELSE totalOutgoing
      /\ pendingOutgoing' = Move(pendingOutgoing,
                                 IF closes THEN {oldOwner} ELSE {},
                                 IF opens THEN {row.submitter} ELSE {})

Store(r, row) == rr' = [rr EXCEPT ![r] = row]

(***************************************************************************)
(* Drafts.                                                                 *)
(***************************************************************************)

(* A mistake: owner is a nullable column, read without its fallback.       *)
NewDraftUnowned(row, changedesc) ==
  [owner |-> Null, people |-> row.people, groups |-> row.groups,
   text |-> row.text, changedesc |-> changedesc]

(* ReviewRequestDraft.create of a draft that does not exist yet.           *)
NewDraft(row, changedesc) ==
  [owner |-> row.submitter, people |-> row.people, groups |-> row.groups,
   text |-> row.text, changedesc |-> changedesc]

(* What copy_fields_to_request leaves in the review request once saved.    *)
Copied(row) ==
  [row EXCEPT !.submitter = row.draft.owner, !.people = row.draft.people,
              !.groups = row.draft.groups, !.text = row.draft.text]

Modified(row) == Copied(row) # row

(* The change description of a publication: the draft's, or a new one when *)
(* the review request is public.  has_modified_fields counts the status    *)
(* change that reopen recorded in it.                                      *)
HasChangeDesc(row) == row.draft.changedesc # "none" \/ row.public

NotModified(row) ==
  HasChangeDesc(row) /\ ~Modified(row) /\ row.draft.changedesc # "reopened"

(* The validation of ReviewRequestDraft.publish.                           *)
Invalid(row) ==
  \/ row.draft.people = {} /\ row.draft.groups = {}
  \/ row.draft.text = Blank

Live(r) == rr[r] # NoRow

(* ReviewRequestManager.create: the review request and its first draft.    *)
Create(r, u) ==
  /\ ~Live(r)
  /\ LET row == [status |-> Pending, public |-> FALSE, submitter |-> u,
                 people |-> {}, groups |-> {}, text |-> Blank,
                 closeInfo |-> "none", draft |-> NoDraft]
     IN  Store(r, [row EXCEPT !.draft = NewDraft(row, "none")])
  /\ totalOutgoing' = Add(totalOutgoing, {u}, 1)
  /\ pendingOutgoing' = Add(pendingOutgoing, {u}, 1)
  /\ totalIncoming' = Load(totalIncoming, {u}, rr, starred)
  /\ drift' = drift \cup Cause("recount", RecountDrifts(u, rr, starred))
  /\ UNCHANGED <<people, groupIncoming, directIncoming, starredPublic>>

(* ReviewRequestDraftResource.update: creates the draft when there is none *)
(* and sets a field of it; a call that sets several leaves what as many    *)
(* calls leave.  The status is not looked at.                              *)
Edits(d) ==
  {[d EXCEPT !.owner = u] : u \in Users}
    \cup {[d EXCEPT !.people = to] : to \in SUBSET Users}
    \cup {[d EXCEPT !.groups = to] : to \in SUBSET Groups}
    \cup {[d EXCEPT !.text = text] : text \in Texts}

EditDraft(r) ==
  /\ Live(r)
  /\ LET row   == rr[r]
         draft == IF row.draft = NoDraft
                  THEN NewDraft(row, IF row.public THEN "empty" ELSE "none")
                  ELSE row.draft
     IN  \E d \in Edits(draft) : Store(r, [row EXCEPT !.draft = d])
  /\ UNCHANGED <<people, incoming, outgoing, drift>>

(* ReviewRequestDraftResource.delete.                                      *)
DiscardDraft(r) ==
  /\ Live(r)
  /\ rr[r].draft # NoDraft
  /\ Store(r, [rr[r] EXCEPT !.draft = NoDraft])
  /\ UNCHANGED <<people, incoming, outgoing, drift>>

(***************************************************************************)
(* ReviewRequest.publish.                                                  *)
(***************************************************************************)

(* The profile fetched before anything else: the next owner's only.        *)
NextOwner(row) == IF row.draft = NoDraft THEN row.submitter ELSE row.draft.owner

(* The row once ReviewRequestDraft.publish has saved it: not yet public.   *)
DraftPublished(row) == IF row.draft = NoDraft THEN row ELSE Copied(row)

(* Mistakes: the draft outlives its publication; the first publication     *)
(* adds a change description as well.                                      *)
PublishedKeepingDraft(row) ==
  [DraftPublished(row) EXCEPT
     !.public    = TRUE,
     !.closeInfo = IF row.draft # NoDraft /\ HasChangeDesc(row)
                   THEN "none" ELSE row.closeInfo]

PublishedDescribed(row) ==
  [DraftPublished(row) EXCEPT
     !.public    = TRUE,
     !.draft     = NoDraft,
     !.closeInfo = "none"]

Published(row) ==
  [DraftPublished(row) EXCEPT
     !.public    = TRUE,
     !.draft     = NoDraft,
     !.closeInfo = IF row.draft # NoDraft /\ HasChangeDesc(row)
                   THEN "none" ELSE row.closeInfo]

(* The web API and the batch operations publish a draft and validate it;   *)
(* close_review_request, for a hosting service's hook, publishes what is   *)
(* not public yet, with or without a draft, and does not.                  *)
(* Taken out of the dashboards when public, and back in, with the new      *)
(* reviewers, when pending.  _update_counts loads the profile of an owner  *)
(* who gives the review request away between the two.                      *)
Publish(r, validate) ==
  /\ Live(r)
  /\ LET row  == rr[r]
         new  == Published(row)
         mid  == [rr EXCEPT ![r] = DraftPublished(row)]
         gone == {row.submitter} \ {new.submitter}
         from == IF row.public THEN Targets(r, row) ELSE NoTargets
         to   == IF row.status = Pending THEN Targets(r, new) ELSE NoTargets
         left == Add(Load(totalIncoming, {NextOwner(row)}, rr, starred),
                     from.all, -1)
     IN  /\ row.draft # NoDraft => ~NotModified(row)
         /\ IF validate THEN row.draft # NoDraft /\ ~Invalid(row)
                        ELSE ~row.public
         /\ Store(r, new)
         /\ MoveIncoming(from, to)
         /\ totalIncoming' = Add(Load(left, gone, mid, starred), to.all, 1)
         /\ MoveOutgoing(row.status, row.submitter, new)
         /\ drift' = drift
              \cup Cause("closed publish", row.public /\ row.status # Pending)
              \cup Cause("recount",
                         \/ RecountDrifts(NextOwner(row), rr, starred)
                         \/ \E u \in gone : RecountDrifts(u, mid, starred))
              \cup Cause("old owner recount",
                         \E u \in gone : /\ totalIncoming[u] = Null
                                        /\ Listed(r, mid)
                                        /\ u \in Reviewers(new))
  /\ UNCHANGED people

(* ReviewRequestDraft.publish raises NotModifiedError or PublishError, but *)
(* copy_fields_to_request came first and has written the reviewers of the  *)
(* draft to the review request.  The counters that were decremented are    *)
(* incremented again, for the reviewers that are there now.                *)
PublishFails(r) ==
  /\ Live(r)
  /\ rr[r].draft # NoDraft
  /\ NotModified(rr[r]) \/ Invalid(rr[r])
  /\ LET row  == rr[r]
         new  == [row EXCEPT !.people = row.draft.people,
                             !.groups = row.draft.groups]
         from == IF row.public THEN Targets(r, row) ELSE NoTargets
         to   == IF row.public THEN Targets(r, new) ELSE NoTargets
     IN  /\ Store(r, new)
         /\ MoveIncoming(from, to)
         /\ totalIncoming' =
              Move(Load(totalIncoming, {NextOwner(row)}, rr, starred),
                   from.all, to.all)
         /\ drift' = drift
              \cup Cause("closed publish", row.public /\ row.status # Pending)
              \cup Cause("recount", RecountDrifts(NextOwner(row), rr, starred))
  /\ UNCHANGED <<people, outgoing>>

(***************************************************************************)
(* ReviewRequest.close, reopen and delete.                                 *)
(***************************************************************************)

(* The row that is closed: a private discard keeps what the draft said.    *)
ClosingRow(row, type) ==
  IF row.draft # NoDraft /\ ~row.public /\ type = Discarded
  THEN Copied(row)
  ELSE row

(* A mistake: what nobody has seen can be submitted.                       *)
MayCloseUnseen(row, type) == row.status # type

MayClose(row, type) == row.status # type /\ (type = Submitted => row.public)

Close(r, type) ==
  /\ Live(r)
  /\ MayClose(rr[r], type)
  /\ LET row  == rr[r]
         new  == [ClosingRow(row, type) EXCEPT !.status    = type,
                                               !.closeInfo = type,
                                               !.draft     = NoDraft]
         from == IF row.status = Pending /\ row.public
                 THEN Targets(r, new) ELSE NoTargets
     IN  /\ Store(r, new)
         /\ MoveIncoming(from, NoTargets)
         /\ totalIncoming' =
              Add(Load(totalIncoming, {new.submitter}, rr, starred), from.all, -1)
         /\ MoveOutgoing(row.status, new.submitter, new)
         /\ drift' = drift
              \cup Cause("owner discarded", new.submitter # row.submitter)
              \cup Cause("recount", RecountDrifts(new.submitter, rr, starred))
  /\ UNCHANGED people

(* Closing as submitted what is not public raises PublishError, after the  *)
(* change description has been saved.                                      *)
CloseFails(r) ==
  /\ Live(r)
  /\ ~rr[r].public
  /\ rr[r].status # Submitted
  /\ Store(r, [rr[r] EXCEPT !.closeInfo = Submitted])
  /\ drift' = drift \cup {"failed close"}
  /\ UNCHANGED <<people, incoming, outgoing>>

(* Closing again edits the close description and throws the draft away.    *)
CloseAgain(r) ==
  /\ Live(r)
  /\ rr[r].status # Pending
  /\ Store(r, [rr[r] EXCEPT !.draft = NoDraft])
  /\ UNCHANGED <<people, incoming, outgoing, drift>>

Reopen(r) ==
  /\ Live(r)
  /\ rr[r].status # Pending
  /\ LET row    == rr[r]
         draft  == IF row.draft = NoDraft
                   THEN NewDraft(row, "reopened")
                   ELSE [row.draft EXCEPT !.changedesc = "reopened"]
         new    == IF row.status = Discarded
                   THEN [row EXCEPT !.status = Pending, !.public = FALSE,
                                    !.draft = draft]
                   ELSE [row EXCEPT !.status = Pending, !.closeInfo = "none"]
         to     == IF new.public THEN Targets(r, new) ELSE NoTargets
     IN  /\ Store(r, new)
         /\ MoveIncoming(NoTargets, to)
         /\ totalIncoming' =
              Add(Load(totalIncoming, {row.submitter}, rr, starred), to.all, 1)
         /\ MoveOutgoing(row.status, row.submitter, new)
         /\ drift' = drift \cup Cause("recount",
                                    RecountDrifts(row.submitter, rr, starred))
  /\ UNCHANGED people

Delete(r) ==
  /\ Live(r)
  /\ LET row  == rr[r]
         from == IF row.status = Pending /\ row.public
                 THEN Targets(r, row) ELSE NoTargets
     IN  /\ rr' = [rr EXCEPT ![r] = NoRow]
         /\ MoveIncoming(from, NoTargets)
         /\ totalIncoming' =
              Add(Load(totalIncoming, {row.submitter}, rr, starred), from.all, -1)
         /\ totalOutgoing' = Add(totalOutgoing, {row.submitter}, -1)
         /\ pendingOutgoing' =
              Add(pendingOutgoing,
                  IF row.status = Pending THEN {row.submitter} ELSE {}, -1)
         /\ drift' = drift \cup Cause("recount",
                                    RecountDrifts(row.submitter, rr, starred))
  /\ starred' = [u \in Users |-> starred[u] \ {r}]
  /\ UNCHANGED members

(***************************************************************************)
(* Profile.star_review_request and unstar_review_request; LocalSiteProfile *)
(* counts the pending ones, these also the submitted ones.                 *)
(***************************************************************************)
Starrable(row) == row.public /\ row.status \in {Pending, Submitted}

SetStar(u, r, stars, n, already) ==
  /\ Live(r)
  /\ starred' = [starred EXCEPT ![u] = stars]
  /\ IF Starrable(rr[r])
     THEN /\ starredPublic' = Add(starredPublic, {u}, n)
          /\ totalIncoming' = Load(totalIncoming, {u}, rr, starred')
          /\ drift' = drift
               \cup Cause("star", already \/ rr[r].status = Submitted)
               \cup Cause("recount", RecountDrifts(u, rr, starred'))
     ELSE UNCHANGED <<starredPublic, totalIncoming, drift>>
  /\ UNCHANGED <<rr, members, groupIncoming, directIncoming, outgoing>>

Star(u, r)   == SetStar(u, r, starred[u] \cup {r}, 1, r \in starred[u])
Unstar(u, r) == SetStar(u, r, starred[u] \ {r}, -1, r \notin starred[u])

(***************************************************************************)
(* Group membership, and loading a profile.                                *)
(***************************************************************************)

(* A mistake: the cached total of who joins or leaves is kept.             *)
SetMembersSilently(g, u, users) ==
  /\ users # members[g]
  /\ members' = [members EXCEPT ![g] = users]
  /\ UNCHANGED <<rr, starred, incoming, outgoing, drift>>

(* _on_group_user_membership_changed.                                      *)
SetMembers(g, u, users) ==
  /\ users # members[g]
  /\ members' = [members EXCEPT ![g] = users]
  /\ totalIncoming' = [totalIncoming EXCEPT ![u] = Null]
  /\ UNCHANGED <<rr, starred, groupIncoming, directIncoming, starredPublic,
                 outgoing, drift>>

Join(g, u)  == SetMembers(g, u, members[g] \cup {u})
Leave(g, u) == SetMembers(g, u, members[g] \ {u})

LoadProfile(u) ==
  /\ totalIncoming[u] = Null
  /\ totalIncoming' = Load(totalIncoming, {u}, rr, starred)
  /\ drift' = drift \cup Cause("recount", RecountDrifts(u, rr, starred))
  /\ UNCHANGED <<rr, people, groupIncoming, directIncoming, starredPublic,
                 outgoing>>

(***************************************************************************)
(* The specification.                                                      *)
(***************************************************************************)
Init ==
  /\ rr = [r \in Requests |-> NoRow]
  /\ members = [g \in Groups |-> {}]
  /\ starred = [u \in Users |-> {}]
  /\ groupIncoming = [g \in Groups |-> 0]
  /\ directIncoming = [u \in Users |-> 0]
  /\ totalIncoming = [u \in Users |-> 0]
  /\ pendingOutgoing = [u \in Users |-> 0]
  /\ totalOutgoing = [u \in Users |-> 0]
  /\ starredPublic = [u \in Users |-> 0]
  /\ drift = {}

RequestNext(r) ==
  \/ \E u \in Users : Create(r, u) \/ Star(u, r) \/ Unstar(u, r)
  \/ EditDraft(r)
  \/ DiscardDraft(r)
  \/ \E validate \in BOOLEAN : Publish(r, validate)
  \/ PublishFails(r)
  \/ \E type \in {Submitted, Discarded} : Close(r, type)
  \/ CloseFails(r)
  \/ CloseAgain(r)
  \/ Reopen(r)
  \/ Delete(r)

UserNext(u) ==
  \/ \E g \in Groups : Join(g, u) \/ Leave(g, u)
  \/ LoadProfile(u)

Next == (\E r \in Requests : RequestNext(r)) \/ (\E u \in Users : UserNext(u))

Spec == Init /\ [][Next]_vars

(***************************************************************************)
(* Properties.                                                             *)
(***************************************************************************)
Without(causes) == drift \cap causes = {}

TypeOK ==
  /\ rr \in [Requests -> Row \cup {NoRow}]
  /\ members \in [Groups -> SUBSET Users]
  /\ starred \in [Users -> SUBSET Requests]
  /\ groupIncoming \in [Groups -> Int]
  /\ directIncoming \in [Users -> Int]
  /\ totalIncoming \in [Users -> Int \cup {Null}]
  /\ pendingOutgoing \in [Users -> Int]
  /\ totalOutgoing \in [Users -> Int]
  /\ starredPublic \in [Users -> Int]
  /\ drift \subseteq Causes

(* Group.incoming_request_count is the number of open public review        *)
(* requests assigned to the group, unless a draft was published on a       *)
(* closed one: publications that fail half-way, discards, reopenings and   *)
(* changes of owner keep it exact.                                         *)
GroupIncomingExact ==
  Without({"closed publish"}) =>
    \A g \in Groups : groupIncoming[g] = Cardinality(ToGroup(g))

(* The same of direct_incoming_request_count and the reviewers named       *)
(* directly.                                                               *)
DirectIncomingExact ==
  Without({"closed publish"}) =>
    \A u \in Users : directIncoming[u] = Cardinality(ToUserDirectly(u))

(* total_incoming_request_count, when it is not waiting to be recomputed,  *)
(* is the number of open public review requests that reach the user        *)
(* directly or through a group, whatever joins and leaves the groups in    *)
(* the meantime, unless a recount stored what the increments do not mean.  *)
TotalIncomingExact ==
  Without({"closed publish", "recount", "old owner recount"}) =>
    \A u \in Users :
      totalIncoming[u] # Null => totalIncoming[u] = Cardinality(ToUser(u))

(* The owners' counters are exact through closing, reopening, deleting and *)
(* giving away, unless a private review request was discarded while its    *)
(* draft was giving it away.                                               *)
OutgoingExact ==
  Without({"owner discarded"}) =>
    \A u \in Users : /\ pendingOutgoing[u] = Cardinality(PendingFrom(u))
                     /\ totalOutgoing[u] = Cardinality(FromUser(u))

(* starred_public_request_count is the number of open public review        *)
(* requests that the user watches, unless a star was set or removed twice  *)
(* or on a submitted one.                                                  *)
StarredExact ==
  Without({"closed publish", "star"}) =>
    \A u \in Users : starredPublic[u] = Cardinality(StarredBy(u))

(* A closed review request shows the close description of the closing that *)
(* gave it its status (get_close_info reads the latest public change       *)
(* description, close edits it), unless an update was published after the  *)
(* closing or a closing that was refused left its own description behind.  *)
CloseInfoFits ==
  Without({"closed publish", "failed close"}) =>
    \A r \in Requests :
      Live(r) /\ rr[r].status # Pending => rr[r].closeInfo = rr[r].status

(* A draft never meets the publication with the wrong change description:  *)
(* a public review request's draft has one to describe the update, a new   *)
(* one's draft has none, and the one that records a reopening waits on a   *)
(* pending review request that must be published again.                    *)
DraftChangeDescFits ==
  \A r \in Requests :
    (Live(r) /\ rr[r].draft # NoDraft) =>
      CASE rr[r].draft.changedesc = "none"     -> ~rr[r].public
        [] rr[r].draft.changedesc = "empty"    -> rr[r].public
        [] rr[r].draft.changedesc = "reopened" ->
             ~rr[r].public /\ rr[r].status = Pending

(* The lifecycle that the drafts and counters are built around.            *)
Lifecycle == INSTANCE ReviewRequestLifecycle WITH
  Absent <- NoRow,
  life   <- [r \in Requests |->
               IF rr[r] = NoRow THEN NoRow
               ELSE [status |-> rr[r].status, public |-> rr[r].public]]

(* Every operation is a step of the abstract lifecycle, or leaves it alone. *)
ImplementsLifecycle == Lifecycle!Spec

(***************************************************************************)
(* What the code does not keep.                                            *)
(***************************************************************************)

(* The reviewers of a review request change only when the draft that       *)
(* changes them is published or discarded with it.                         *)
ReviewersChangeWithDraft ==
  [][\A r \in Requests :
       (/\ Live(r)
        /\ Live(r)'
        /\ <<rr[r].people, rr[r].groups>>' # <<rr[r].people, rr[r].groups>>)
       => rr'[r].draft = NoDraft]_vars

(* The counters of the reviewers are exact whatever happens.               *)
IncomingAlwaysExact ==
  /\ \A g \in Groups : groupIncoming[g] = Cardinality(ToGroup(g))
  /\ \A u \in Users : directIncoming[u] = Cardinality(ToUserDirectly(u))

(* The owners' counters are exact whatever happens.                        *)
OutgoingAlwaysExact ==
  \A u \in Users : pendingOutgoing[u] = Cardinality(PendingFrom(u))
===============================================================================
