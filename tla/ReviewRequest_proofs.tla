------------------------- MODULE ReviewRequest_proofs -------------------------
(***************************************************************************)
(* Proofs about ReviewRequest, for every set of users, groups and texts    *)
(* and every finite set of review requests.                                *)
(***************************************************************************)
EXTENDS ReviewRequest, FiniteSetTheorems, TLAPS

(***************************************************************************)
(* Counters and rows keep their types.                                     *)
(***************************************************************************)

(* UPDATE ... SET c = c + n changes exactly the rows it names.             *)
LEMMA AddInt ==
  ASSUME NEW D, NEW c \in [D -> Int], NEW S, NEW n \in Int
  PROVE  /\ Add(c, S, n) \in [D -> Int]
         /\ \A x \in D : Add(c, S, n)[x] = IF x \in S THEN c[x] + n ELSE c[x]
  BY ConstantsAssumption DEF Add

(* It leaves a counter that waits to be recomputed alone.                  *)
LEMMA AddIntOrNull ==
  ASSUME NEW D, NEW c \in [D -> Int \cup {Null}], NEW S, NEW n \in Int
  PROVE  Add(c, S, n) \in [D -> Int \cup {Null}]
  BY DEF Add

(* A decrement and an increment add up.                                    *)
LEMMA MoveInt ==
  ASSUME NEW D, NEW c \in [D -> Int], NEW from, NEW to
  PROVE  /\ Move(c, from, to) \in [D -> Int]
         /\ \A x \in D : Move(c, from, to)[x] =
              c[x] - (IF x \in from THEN 1 ELSE 0) + (IF x \in to THEN 1 ELSE 0)
<1> DEFINE taken == Add(c, from, -1)
<1>1. taken \in [D -> Int]
  BY AddInt
<1>2. \A x \in D : taken[x] = IF x \in from THEN c[x] + (-1) ELSE c[x]
  BY AddInt
<1>3. /\ Add(taken, to, 1) \in [D -> Int]
      /\ \A x \in D : Add(taken, to, 1)[x] =
           IF x \in to THEN taken[x] + 1 ELSE taken[x]
  BY <1>1, AddInt
<1>4. QED
  BY <1>1, <1>2, <1>3 DEF Move

(* Loading a profile stores a number, if anything.                         *)
LEMMA LoadIntOrNull ==
  ASSUME NEW c \in [Users -> Int \cup {Null}], NEW us, NEW rows, NEW stars
  PROVE  Load(c, us, rows, stars) \in [Users -> Int \cup {Null}]
<1>1. ASSUME NEW u \in Users
      PROVE  TotalInitializer(u, rows, stars) \in Int
  BY ConstantsAssumption, FS_Subset, FS_CardinalityType DEF TotalInitializer
<1>2. QED
  BY <1>1 DEF Load

(* A draft takes its fields from its review request.                       *)
LEMMA NewDraftType ==
  ASSUME NEW row \in Row, NEW c \in ChangeDescs
  PROVE  NewDraft(row, c) \in Draft /\ NewDraft(row, c).changedesc = c
  BY DEF NewDraft, Draft, Row

(* Editing a draft leaves its change description.                          *)
LEMMA EditsType ==
  ASSUME NEW d \in Draft, NEW e \in Edits(d)
  PROVE  e \in Draft /\ e.changedesc = d.changedesc
  BY DEF Edits, Draft

(* Copying a draft to its review request leaves the lifecycle alone.       *)
LEMMA CopiedType ==
  ASSUME NEW row \in Row, row.draft # NoDraft
  PROVE  /\ Copied(row) \in Row
         /\ Copied(row).status = row.status
         /\ Copied(row).public = row.public
         /\ Copied(row).closeInfo = row.closeInfo
         /\ Copied(row).draft = row.draft
         /\ Copied(row).submitter = row.draft.owner
  BY DEF Copied, Row, Draft

(* So does publishing it, but for the public flag.                         *)
LEMMA DraftPublishedType ==
  ASSUME NEW row \in Row
  PROVE  /\ DraftPublished(row) \in Row
         /\ DraftPublished(row).status = row.status
         /\ DraftPublished(row).closeInfo = row.closeInfo
  BY CopiedType DEF DraftPublished

(* What a publication leaves: public, without a draft, and with the close  *)
(* information that its change description brings.                         *)
LEMMA PublishedType ==
  ASSUME NEW row \in Row
  PROVE  /\ Published(row) \in Row
         /\ Published(row).status = row.status
         /\ Published(row).public
         /\ Published(row).draft = NoDraft
         /\ Published(row).closeInfo =
              IF row.draft # NoDraft /\ HasChangeDesc(row)
              THEN "none" ELSE row.closeInfo
<1>1. DraftPublished(row) \in Row /\ DraftPublished(row).status = row.status
  BY DraftPublishedType
<1>2. "none" \in CloseInfos /\ row.closeInfo \in CloseInfos
  BY DEF Row, CloseInfos
<1> HIDE DEF CloseInfos
<1>3. QED
  BY <1>1, <1>2 DEF Published, Row

(* What is about to be closed: only a private discard changes fields.      *)
LEMMA ClosingRowType ==
  ASSUME NEW row \in Row, NEW type \in {Submitted, Discarded}
  PROVE  /\ ClosingRow(row, type) \in Row
         /\ ClosingRow(row, type).status = row.status
         /\ ClosingRow(row, type).public = row.public
         /\ row.public => ClosingRow(row, type) = row
         /\ ClosingRow(row, type).submitter \in Users
  BY CopiedType DEF ClosingRow, Row

(* The increments and decrements of the reviewers' counters are numbers.   *)
LEMMA MoveIncomingType ==
  ASSUME TypeOK, NEW from, NEW to, MoveIncoming(from, to)
  PROVE  /\ groupIncoming' \in [Groups -> Int]
         /\ directIncoming' \in [Users -> Int]
         /\ starredPublic' \in [Users -> Int]
  BY MoveInt DEF TypeOK, MoveIncoming

(* So are those of the owners'.                                            *)
LEMMA MoveOutgoingType ==
  ASSUME TypeOK, NEW status, NEW oldOwner, NEW row,
         MoveOutgoing(status, oldOwner, row)
  PROVE  /\ pendingOutgoing' \in [Users -> Int]
         /\ totalOutgoing' \in [Users -> Int]
  BY MoveInt DEF TypeOK, MoveOutgoing

(* Saving a row keeps the table's type.                                    *)
LEMMA StoreType ==
  ASSUME TypeOK, NEW r \in Requests, NEW row \in Row, Store(r, row)
  PROVE  /\ rr' \in [Requests -> Row \cup {NoRow}]
         /\ rr'[r] = row
         /\ \A q \in Requests \ {r} : rr'[q] = rr[q]
  BY DEF TypeOK, Store

(* A review request that is in the database has a row.                     *)
LEMMA LiveRow ==
  ASSUME TypeOK, NEW r \in Requests, Live(r)
  PROVE  /\ rr[r] \in Row
         /\ rr[r].draft \in Draft \cup {NoDraft}
         /\ rr[r].submitter \in Users
  BY DEF TypeOK, Live, Row

(* The history variable only takes the causes it names.                    *)
LEMMA CauseType ==
  ASSUME NEW c \in Causes, NEW holds
  PROVE  Cause(c, holds) \subseteq Causes
  BY DEF Cause

(* ReviewRequestManager.create's first draft and row are well typed.       *)
LEMMA CreateType ==
  ASSUME TypeOK, NEW r \in Requests, NEW u \in Users, Create(r, u)
  PROVE  TypeOK'
<1> DEFINE row == [status |-> Pending, public |-> FALSE, submitter |-> u,
                   people |-> {}, groups |-> {}, text |-> Blank,
                   closeInfo |-> "none", draft |-> NoDraft]
           new == [row EXCEPT !.draft = NewDraft(row, "none")]
<1>1. row \in Row
  BY ConstantsAssumption DEF Row, Statuses, CloseInfos
<1>2. NewDraft(row, "none") \in Draft
  BY <1>1, NewDraftType DEF ChangeDescs
<1>3. new \in Row
  BY <1>1, <1>2 DEF Row
<1>4. Store(r, new)
  BY DEF Create
<1>5. rr' \in [Requests -> Row \cup {NoRow}]
  BY <1>3, <1>4, StoreType
<1>6. /\ totalOutgoing' \in [Users -> Int]
      /\ pendingOutgoing' \in [Users -> Int]
  BY AddInt DEF TypeOK, Create
<1>7. totalIncoming' \in [Users -> Int \cup {Null}]
  BY LoadIntOrNull DEF TypeOK, Create
<1>8. drift' \subseteq Causes
  BY CauseType DEF TypeOK, Create, Causes
<1>9. QED
  BY <1>5, <1>6, <1>7, <1>8 DEF TypeOK, Create, people

(* Editing creates the draft when there is none, then changes one field.   *)
LEMMA EditDraftType ==
  ASSUME TypeOK, NEW r \in Requests, EditDraft(r)
  PROVE  TypeOK'
<1> DEFINE row   == rr[r]
           draft == IF row.draft = NoDraft
                    THEN NewDraft(row, IF row.public THEN "empty" ELSE "none")
                    ELSE row.draft
<1>1. row \in Row
  BY LiveRow DEF EditDraft
<1>2. draft \in Draft
  BY <1>1, LiveRow, NewDraftType DEF EditDraft, ChangeDescs
<1>3. PICK d \in Edits(draft) : Store(r, [row EXCEPT !.draft = d])
  BY DEF EditDraft
<1>4. d \in Draft
  BY <1>2, EditsType
<1>5. [row EXCEPT !.draft = d] \in Row
  BY <1>1, <1>4 DEF Row
<1>6. rr' \in [Requests -> Row \cup {NoRow}]
  BY <1>3, <1>5, StoreType
<1>7. QED
  BY <1>6 DEF TypeOK, EditDraft, people, incoming, outgoing

(* Publishing.                                                             *)
LEMMA PublishType ==
  ASSUME TypeOK, NEW r \in Requests, NEW validate \in BOOLEAN,
         Publish(r, validate)
  PROVE  TypeOK'
<1> DEFINE row  == rr[r]
           new  == Published(row)
           mid  == [rr EXCEPT ![r] = DraftPublished(row)]
           gone == {row.submitter} \ {new.submitter}
           from == IF row.public THEN Targets(r, row) ELSE NoTargets
           to   == IF row.status = Pending THEN Targets(r, new) ELSE NoTargets
           left == Add(Load(totalIncoming, {NextOwner(row)}, rr, starred),
                       from.all, -1)
<1>1. new \in Row
  BY LiveRow, PublishedType DEF Publish
<1>2. /\ Store(r, new)
      /\ MoveIncoming(from, to)
      /\ totalIncoming' = Add(Load(left, gone, mid, starred), to.all, 1)
      /\ MoveOutgoing(row.status, row.submitter, new)
      /\ UNCHANGED people
  BY DEF Publish
<1>3. totalIncoming \in [Users -> Int \cup {Null}]
  BY DEF TypeOK
<1>4. left \in [Users -> Int \cup {Null}]
  <2>1. Load(totalIncoming, {NextOwner(row)}, rr, starred)
          \in [Users -> Int \cup {Null}]
    BY <1>3, LoadIntOrNull
  <2>2. QED
    BY <2>1, AddIntOrNull
<1>5. totalIncoming' \in [Users -> Int \cup {Null}]
  <2> DEFINE loaded == Load(left, gone, mid, starred)
  <2>1. loaded \in [Users -> Int \cup {Null}]
    BY <1>4, LoadIntOrNull
  <2>2. totalIncoming' = Add(loaded, to.all, 1)
    BY <1>2
  <2> HIDE DEF loaded, to
  <2>3. QED
    BY <2>1, <2>2, AddIntOrNull
<1>6. drift' \subseteq Causes
  BY CauseType DEF TypeOK, Publish, Causes
<1>7. rr' \in [Requests -> Row \cup {NoRow}]
  BY <1>1, <1>2, StoreType
<1>8. /\ groupIncoming' \in [Groups -> Int]
      /\ directIncoming' \in [Users -> Int]
      /\ starredPublic' \in [Users -> Int]
  BY <1>2, MoveIncomingType
<1>9. /\ pendingOutgoing' \in [Users -> Int]
      /\ totalOutgoing' \in [Users -> Int]
  BY <1>2, MoveOutgoingType
<1>10. QED
  BY <1>2, <1>5, <1>6, <1>7, <1>8, <1>9 DEF TypeOK, people

(* A publication that fails.                                               *)
LEMMA PublishFailsType ==
  ASSUME TypeOK, NEW r \in Requests, PublishFails(r)
  PROVE  TypeOK'
<1> DEFINE row  == rr[r]
           new  == [row EXCEPT !.people = row.draft.people,
                               !.groups = row.draft.groups]
           from == IF row.public THEN Targets(r, row) ELSE NoTargets
           to   == IF row.public THEN Targets(r, new) ELSE NoTargets
<1>1. new \in Row
  BY LiveRow DEF PublishFails, Row, Draft
<1>2. /\ Store(r, new)
      /\ MoveIncoming(from, to)
      /\ totalIncoming' =
           Move(Load(totalIncoming, {NextOwner(row)}, rr, starred),
                from.all, to.all)
      /\ UNCHANGED <<people, outgoing>>
  BY DEF PublishFails
<1>3. Load(totalIncoming, {NextOwner(row)}, rr, starred)
        \in [Users -> Int \cup {Null}]
  BY LoadIntOrNull DEF TypeOK
<1>4. totalIncoming' \in [Users -> Int \cup {Null}]
  BY <1>2, <1>3, AddIntOrNull DEF Move
<1>5. drift' \subseteq Causes
  BY CauseType DEF TypeOK, PublishFails, Causes
<1>6. rr' \in [Requests -> Row \cup {NoRow}]
  BY <1>1, <1>2, StoreType
<1>7. /\ groupIncoming' \in [Groups -> Int]
      /\ directIncoming' \in [Users -> Int]
      /\ starredPublic' \in [Users -> Int]
  BY <1>2, MoveIncomingType
<1>8. QED
  BY <1>2, <1>4, <1>5, <1>6, <1>7 DEF TypeOK, people, outgoing

(* Closing.                                                                *)
LEMMA CloseType ==
  ASSUME TypeOK, NEW r \in Requests, NEW type \in {Submitted, Discarded},
         Close(r, type)
  PROVE  TypeOK'
<1> DEFINE row  == rr[r]
           new  == [ClosingRow(row, type) EXCEPT !.status    = type,
                                                 !.closeInfo = type,
                                                 !.draft     = NoDraft]
           from == IF row.status = Pending /\ row.public
                   THEN Targets(r, new) ELSE NoTargets
           loaded == Load(totalIncoming, {new.submitter}, rr, starred)
<1>1. new \in Row
  <2>1. ClosingRow(row, type) \in Row
    BY LiveRow, ClosingRowType DEF Close
  <2>2. type \in Statuses /\ type \in CloseInfos
    BY DEF Statuses, CloseInfos
  <2>3. QED
    BY <2>1, <2>2 DEF Row
<1>2. /\ Store(r, new)
      /\ MoveIncoming(from, NoTargets)
      /\ totalIncoming' = Add(loaded, from.all, -1)
      /\ MoveOutgoing(row.status, new.submitter, new)
      /\ UNCHANGED people
  BY DEF Close
<1>3. totalIncoming' \in [Users -> Int \cup {Null}]
  <2>1. loaded \in [Users -> Int \cup {Null}]
    BY LoadIntOrNull DEF TypeOK
  <2> HIDE DEF loaded, from
  <2>2. QED
    BY <1>2, <2>1, AddIntOrNull
<1>4. drift' \subseteq Causes
  BY CauseType DEF TypeOK, Close, Causes
<1>5. rr' \in [Requests -> Row \cup {NoRow}]
  BY <1>1, <1>2, StoreType
<1>6. /\ groupIncoming' \in [Groups -> Int]
      /\ directIncoming' \in [Users -> Int]
      /\ starredPublic' \in [Users -> Int]
  BY <1>2, MoveIncomingType
<1>7. /\ pendingOutgoing' \in [Users -> Int]
      /\ totalOutgoing' \in [Users -> Int]
  BY <1>2, MoveOutgoingType
<1>8. QED
  BY <1>2, <1>3, <1>4, <1>5, <1>6, <1>7 DEF TypeOK, people

(* What only rewrites a row: discarding a draft, closing again, failing to *)
(* close.                                                                  *)
LEMMA RewriteType ==
  ASSUME TypeOK, NEW r \in Requests,
         DiscardDraft(r) \/ CloseFails(r) \/ CloseAgain(r)
  PROVE  TypeOK'
<1>1. Live(r)
  BY DEF DiscardDraft, CloseFails, CloseAgain
<1>2. rr[r] \in Row
  BY <1>1, LiveRow
<1>3. /\ [rr[r] EXCEPT !.draft = NoDraft] \in Row
      /\ [rr[r] EXCEPT !.closeInfo = Submitted] \in Row
  BY <1>2 DEF Row, CloseInfos
<1>4. rr' \in [Requests -> Row \cup {NoRow}]
  BY <1>3, StoreType DEF DiscardDraft, CloseFails, CloseAgain
<1>5. drift' \subseteq Causes
  BY DEF TypeOK, DiscardDraft, CloseFails, CloseAgain, Causes
<1>6. QED
  BY <1>4, <1>5
     DEF TypeOK, DiscardDraft, CloseFails, CloseAgain, people, incoming, outgoing

(* Reopening.                                                              *)
LEMMA ReopenType ==
  ASSUME TypeOK, NEW r \in Requests, Reopen(r)
  PROVE  TypeOK'
<1> DEFINE row   == rr[r]
           draft == IF row.draft = NoDraft
                    THEN NewDraft(row, "reopened")
                    ELSE [row.draft EXCEPT !.changedesc = "reopened"]
           new   == IF row.status = Discarded
                    THEN [row EXCEPT !.status = Pending, !.public = FALSE,
                                     !.draft = draft]
                    ELSE [row EXCEPT !.status = Pending, !.closeInfo = "none"]
           to    == IF new.public THEN Targets(r, new) ELSE NoTargets
           loaded == Load(totalIncoming, {row.submitter}, rr, starred)
<1>1. new \in Row
  <2>1. row \in Row
    BY LiveRow DEF Reopen
  <2>2. "reopened" \in ChangeDescs
    BY DEF ChangeDescs
  <2>3. draft \in Draft
    <3>1. CASE row.draft = NoDraft
      BY <2>1, <2>2, <3>1, NewDraftType
    <3>2. CASE row.draft # NoDraft
      BY <2>1, <2>2, <3>2 DEF Row, Draft
    <3>3. QED
      BY <3>1, <3>2
  <2> HIDE DEF draft
  <2>4. QED
    BY <2>1, <2>3 DEF Row, Statuses, CloseInfos
<1>2. /\ Store(r, new)
      /\ MoveIncoming(NoTargets, to)
      /\ totalIncoming' = Add(loaded, to.all, 1)
      /\ MoveOutgoing(row.status, row.submitter, new)
      /\ UNCHANGED people
  BY DEF Reopen
<1>3. totalIncoming' \in [Users -> Int \cup {Null}]
  <2>1. loaded \in [Users -> Int \cup {Null}]
    BY LoadIntOrNull DEF TypeOK
  <2> HIDE DEF loaded, to
  <2>2. QED
    BY <1>2, <2>1, AddIntOrNull
<1>4. drift' \subseteq Causes
  BY CauseType DEF TypeOK, Reopen, Causes
<1>5. rr' \in [Requests -> Row \cup {NoRow}]
  BY <1>1, <1>2, StoreType
<1>6. /\ groupIncoming' \in [Groups -> Int]
      /\ directIncoming' \in [Users -> Int]
      /\ starredPublic' \in [Users -> Int]
  BY <1>2, MoveIncomingType
<1>7. /\ pendingOutgoing' \in [Users -> Int]
      /\ totalOutgoing' \in [Users -> Int]
  BY <1>2, MoveOutgoingType
<1>8. QED
  BY <1>2, <1>3, <1>4, <1>5, <1>6, <1>7 DEF TypeOK, people

(* Deleting.                                                               *)
LEMMA DeleteType ==
  ASSUME TypeOK, NEW r \in Requests, Delete(r)
  PROVE  TypeOK'
<1> DEFINE row  == rr[r]
           from == IF row.status = Pending /\ row.public
                   THEN Targets(r, row) ELSE NoTargets
           loaded == Load(totalIncoming, {row.submitter}, rr, starred)
<1>1. /\ MoveIncoming(from, NoTargets)
      /\ totalIncoming' = Add(loaded, from.all, -1)
  BY DEF Delete
<1>2. totalIncoming' \in [Users -> Int \cup {Null}]
  <2>1. loaded \in [Users -> Int \cup {Null}]
    BY LoadIntOrNull DEF TypeOK
  <2> HIDE DEF loaded, from
  <2>2. QED
    BY <1>1, <2>1, AddIntOrNull
<1>3. drift' \subseteq Causes
  BY CauseType DEF TypeOK, Delete, Causes
<1>4. rr' \in [Requests -> Row \cup {NoRow}]
  BY DEF TypeOK, Delete
<1>5. /\ groupIncoming' \in [Groups -> Int]
      /\ directIncoming' \in [Users -> Int]
      /\ starredPublic' \in [Users -> Int]
  BY <1>1, MoveIncomingType
<1>6. /\ pendingOutgoing' \in [Users -> Int]
      /\ totalOutgoing' \in [Users -> Int]
  BY AddInt DEF TypeOK, Delete
<1>7. members' \in [Groups -> SUBSET Users] /\ starred' \in [Users -> SUBSET Requests]
  BY DEF TypeOK, Delete
<1>8. QED
  BY <1>2, <1>3, <1>4, <1>5, <1>6, <1>7 DEF TypeOK

(* Starring and unstarring.                                                *)
LEMMA SetStarType ==
  ASSUME TypeOK, NEW u \in Users, NEW r \in Requests, NEW stars \in SUBSET Requests,
         NEW n \in Int, NEW already, SetStar(u, r, stars, n, already)
  PROVE  TypeOK'
<1>1. starred' \in [Users -> SUBSET Requests]
  BY DEF TypeOK, SetStar
<1>2. starredPublic' \in [Users -> Int]
  BY AddInt DEF TypeOK, SetStar
<1>3. totalIncoming' \in [Users -> Int \cup {Null}]
  BY LoadIntOrNull DEF TypeOK, SetStar
<1>4. drift' \subseteq Causes
  BY CauseType DEF TypeOK, SetStar, Causes
<1>5. QED
  BY <1>1, <1>2, <1>3, <1>4 DEF TypeOK, SetStar, outgoing

(* Joining and leaving a group, and loading a profile.                     *)
LEMMA UserType ==
  ASSUME TypeOK, NEW u \in Users, UserNext(u)
  PROVE  TypeOK'
<1>1. ASSUME NEW g \in Groups, NEW users \in SUBSET Users, SetMembers(g, u, users)
      PROVE  TypeOK'
  BY <1>1 DEF TypeOK, SetMembers, outgoing
<1>2. CASE LoadProfile(u)
  <2>1. totalIncoming' \in [Users -> Int \cup {Null}]
    BY <1>2, LoadIntOrNull DEF TypeOK, LoadProfile
  <2>2. drift' \subseteq Causes
    BY <1>2, CauseType DEF TypeOK, LoadProfile, Causes
  <2>3. QED
    BY <1>2, <2>1, <2>2 DEF TypeOK, LoadProfile, people, outgoing
<1>3. ASSUME NEW g \in Groups
      PROVE  members[g] \cup {u} \in SUBSET Users /\ members[g] \ {u} \in SUBSET Users
  BY DEF TypeOK
<1>4. QED
  BY <1>1, <1>2, <1>3 DEF UserNext, Join, Leave

(* Every row, draft and counter has its type in every reachable state: in  *)
(* particular no counter but total_incoming_request_count is ever NULL.    *)
THEOREM TypeCorrect == Spec => []TypeOK
<1>1. Init => TypeOK
  BY DEF Init, TypeOK, Causes
<1>2. ASSUME TypeOK, [Next]_vars
      PROVE  TypeOK'
  <2>1. ASSUME NEW r \in Requests, RequestNext(r)
        PROVE  TypeOK'
    <3>1. ASSUME NEW u \in Users, Star(u, r) \/ Unstar(u, r)
          PROVE  TypeOK'
      <4>1. /\ starred[u] \cup {r} \in SUBSET Requests
            /\ starred[u] \ {r} \in SUBSET Requests
        BY <1>2 DEF TypeOK
      <4>2. CASE Star(u, r)
        BY <1>2, <4>1, <4>2, SetStarType DEF Star
      <4>3. CASE Unstar(u, r)
        BY <1>2, <4>1, <4>3, SetStarType DEF Unstar
      <4>4. QED
        BY <3>1, <4>2, <4>3
    <3>2. QED
      BY <1>2, <2>1, <3>1, CreateType, EditDraftType, PublishType, PublishFailsType,
         CloseType, RewriteType, ReopenType, DeleteType DEF RequestNext
  <2>2. CASE UNCHANGED vars
    BY <1>2, <2>2 DEF TypeOK, vars, people, incoming, outgoing
  <2>3. QED
    BY <1>2, <2>1, <2>2, UserType DEF Next
<1>3. QED
  BY <1>1, <1>2, PTL DEF Spec

(* No operation forgets that a counter has drifted.                        *)
LEMMA DriftGrows ==
  ASSUME [Next]_vars
  PROVE  drift \subseteq drift'
<1>1. ASSUME NEW r \in Requests, RequestNext(r)
      PROVE  drift \subseteq drift'
  <2>1. \A u \in Users : Create(r, u) => drift \subseteq drift'
    BY DEF Create
  <2>2. \A u, stars, n, already :
          SetStar(u, r, stars, n, already) => drift \subseteq drift'
    BY DEF SetStar
  <2>3. EditDraft(r) \/ DiscardDraft(r) \/ CloseFails(r) \/ CloseAgain(r)
          => drift \subseteq drift'
    BY DEF EditDraft, DiscardDraft, CloseFails, CloseAgain
  <2>4. \A validate \in BOOLEAN : Publish(r, validate) => drift \subseteq drift'
    BY DEF Publish
  <2>5. PublishFails(r) => drift \subseteq drift'
    BY DEF PublishFails
  <2>6. \A type \in {Submitted, Discarded} : Close(r, type) => drift \subseteq drift'
    BY DEF Close
  <2>7. Reopen(r) \/ Delete(r) => drift \subseteq drift'
    BY DEF Reopen, Delete
  <2>8. QED
    BY <1>1, <2>1, <2>2, <2>3, <2>4, <2>5, <2>6, <2>7 DEF RequestNext, Star, Unstar
<1>2. ASSUME NEW u \in Users, UserNext(u)
      PROVE  drift \subseteq drift'
  BY <1>2 DEF UserNext, Join, Leave, SetMembers, LoadProfile
<1>3. QED
  BY <1>1, <1>2 DEF Next, vars

(***************************************************************************)
(* The counters of ReviewRequest are the sizes of the queries they stand   *)
(* for.  Every operation changes one review request: its counters change   *)
(* by what that review request adds to, or takes from, each query.         *)
(***************************************************************************)

(* The size of a set of review requests changes with the one that moves.   *)
LEMMA CountChange ==
  ASSUME NEW A \in SUBSET Requests, NEW B \in SUBSET Requests, NEW r,
         A \ {r} = B \ {r}
  PROVE  /\ Cardinality(A) \in Int
         /\ Cardinality(B) = Cardinality(A) - (IF r \in A THEN 1 ELSE 0)
                                            + (IF r \in B THEN 1 ELSE 0)
<1>1. IsFiniteSet(A) /\ IsFiniteSet(B)
  BY ConstantsAssumption, FS_Subset
<1>2. Cardinality(A) \in Nat /\ Cardinality(B) \in Nat
  BY <1>1, FS_CardinalityType
<1>3. Cardinality(A \ {r}) = IF r \in A THEN Cardinality(A) - 1 ELSE Cardinality(A)
  BY <1>1, FS_RemoveElement
<1>4. Cardinality(B \ {r}) = IF r \in B THEN Cardinality(B) - 1 ELSE Cardinality(B)
  BY <1>1, FS_RemoveElement
<1>5. QED
  BY <1>2, <1>3, <1>4

(***************************************************************************)
(* The counters of the reviewers.                                          *)
(***************************************************************************)
GroupCounts  == \A g \in Groups : groupIncoming[g] = Cardinality(ToGroup(g))
DirectCounts == \A u \in Users : directIncoming[u] = Cardinality(ToUserDirectly(u))
StarCounts   == \A u \in Users : starredPublic[u] = Cardinality(StarredBy(u))

(* Nothing but r changes.                                                  *)
OnlyRow(r) ==
  \A q \in Requests \ {r} :
    /\ rr'[q] = rr[q]
    /\ \A u \in Users : q \in starred'[u] <=> q \in starred[u]

(* The counters move from where r was listed to where it is now.           *)
IncomingMoved(r) ==
  \E from, to :
    /\ MoveIncoming(from, to)
    /\ \A g \in Groups : /\ g \in from.groups <=> r \in ToGroup(g)
                         /\ g \in to.groups <=> r \in ToGroup(g)'
    /\ \A u \in Users : /\ u \in from.direct <=> r \in ToUserDirectly(u)
                        /\ u \in to.direct <=> r \in ToUserDirectly(u)'
    /\ \A u \in Users : /\ u \in from.stars <=> r \in StarredBy(u)
                        /\ u \in to.stars <=> r \in StarredBy(u)'

(* Moved counters are still the sizes of the queries.                      *)
LEMMA IncomingMovedCounts ==
  ASSUME TypeOK, NEW r \in Requests, OnlyRow(r), IncomingMoved(r)
  PROVE  /\ GroupCounts => GroupCounts'
         /\ DirectCounts => DirectCounts'
         /\ StarCounts => StarCounts'
<1>1. PICK from, to :
        /\ MoveIncoming(from, to)
        /\ \A g \in Groups : /\ g \in from.groups <=> r \in ToGroup(g)
                             /\ g \in to.groups <=> r \in ToGroup(g)'
        /\ \A u \in Users : /\ u \in from.direct <=> r \in ToUserDirectly(u)
                            /\ u \in to.direct <=> r \in ToUserDirectly(u)'
        /\ \A u \in Users : /\ u \in from.stars <=> r \in StarredBy(u)
                            /\ u \in to.stars <=> r \in StarredBy(u)'
  BY DEF IncomingMoved
<1>2. ASSUME GroupCounts, NEW g \in Groups
      PROVE  groupIncoming'[g] = Cardinality(ToGroup(g)')
  <2>1. ToGroup(g) \in SUBSET Requests /\ ToGroup(g)' \in SUBSET Requests
    BY DEF ToGroup
  <2>2. ToGroup(g) \ {r} = ToGroup(g)' \ {r}
    BY DEF OnlyRow, ToGroup, Listed
  <2>3. groupIncoming'[g] = groupIncoming[g] - (IF g \in from.groups THEN 1 ELSE 0)
                                             + (IF g \in to.groups THEN 1 ELSE 0)
    BY <1>1, MoveInt DEF MoveIncoming, TypeOK
  <2>4. groupIncoming[g] = Cardinality(ToGroup(g))
    BY <1>2 DEF GroupCounts
  <2>5. Cardinality(ToGroup(g)') = Cardinality(ToGroup(g))
          - (IF r \in ToGroup(g) THEN 1 ELSE 0) + (IF r \in ToGroup(g)' THEN 1 ELSE 0)
    BY <2>1, <2>2, CountChange
  <2>6. QED
    BY <1>1, <2>3, <2>4, <2>5
<1>3. ASSUME DirectCounts, NEW u \in Users
      PROVE  directIncoming'[u] = Cardinality(ToUserDirectly(u)')
  <2>1. /\ ToUserDirectly(u) \in SUBSET Requests
        /\ ToUserDirectly(u)' \in SUBSET Requests
    BY DEF ToUserDirectly
  <2>2. ToUserDirectly(u) \ {r} = ToUserDirectly(u)' \ {r}
    BY DEF OnlyRow, ToUserDirectly, Listed
  <2>3. directIncoming'[u] = directIncoming[u] - (IF u \in from.direct THEN 1 ELSE 0)
                                               + (IF u \in to.direct THEN 1 ELSE 0)
    BY <1>1, MoveInt DEF MoveIncoming, TypeOK
  <2>4. directIncoming[u] = Cardinality(ToUserDirectly(u))
    BY <1>3 DEF DirectCounts
  <2>5. Cardinality(ToUserDirectly(u)') = Cardinality(ToUserDirectly(u))
          - (IF r \in ToUserDirectly(u) THEN 1 ELSE 0)
          + (IF r \in ToUserDirectly(u)' THEN 1 ELSE 0)
    BY <2>1, <2>2, CountChange
  <2>6. QED
    BY <1>1, <2>3, <2>4, <2>5
<1>4. ASSUME StarCounts, NEW u \in Users
      PROVE  starredPublic'[u] = Cardinality(StarredBy(u)')
  <2>1. StarredBy(u) \in SUBSET Requests /\ StarredBy(u)' \in SUBSET Requests
    BY DEF StarredBy
  <2>2. StarredBy(u) \ {r} = StarredBy(u)' \ {r}
    BY DEF OnlyRow, StarredBy, Listed
  <2>3. starredPublic'[u] = starredPublic[u] - (IF u \in from.stars THEN 1 ELSE 0)
                                             + (IF u \in to.stars THEN 1 ELSE 0)
    BY <1>1, MoveInt DEF MoveIncoming, TypeOK
  <2>4. starredPublic[u] = Cardinality(StarredBy(u))
    BY <1>4 DEF StarCounts
  <2>5. Cardinality(StarredBy(u)') = Cardinality(StarredBy(u))
          - (IF r \in StarredBy(u) THEN 1 ELSE 0) + (IF r \in StarredBy(u)' THEN 1 ELSE 0)
    BY <2>1, <2>2, CountChange
  <2>6. QED
    BY <1>1, <2>3, <2>4, <2>5
<1>5. QED
  BY <1>2, <1>3, <1>4 DEF GroupCounts, DirectCounts, StarCounts

(* What the reviewers cannot see of r leaves the counters alone.           *)
SameListing(r) ==
  /\ Listed(r, rr') <=> Listed(r, rr)
  /\ Listed(r, rr) => /\ rr'[r].groups = rr[r].groups
                      /\ rr'[r].people = rr[r].people

(* So the queries are as they were.                                        *)
LEMMA SameListingCounts ==
  ASSUME NEW r \in Requests, \A q \in Requests \ {r} : rr'[q] = rr[q],
         SameListing(r), UNCHANGED <<groupIncoming, directIncoming>>
  PROVE  /\ GroupCounts => GroupCounts'
         /\ DirectCounts => DirectCounts'
         /\ UNCHANGED <<starredPublic, starred>> => (StarCounts => StarCounts')
<1>1. ASSUME NEW q \in Requests
      PROVE  /\ Listed(q, rr') <=> Listed(q, rr)
             /\ Listed(q, rr) => /\ rr'[q].groups = rr[q].groups
                                 /\ rr'[q].people = rr[q].people
  <2>1. CASE q = r
    BY <2>1 DEF SameListing
  <2>2. CASE q # r
    BY <2>2 DEF Listed
  <2>3. QED
    BY <2>1, <2>2
<1>2. \A g \in Groups : ToGroup(g)' = ToGroup(g)
  BY <1>1 DEF ToGroup
<1>3. \A u \in Users : ToUserDirectly(u)' = ToUserDirectly(u)
  BY <1>1 DEF ToUserDirectly
<1>4. UNCHANGED starred => \A u \in Users : StarredBy(u)' = StarredBy(u)
  BY <1>1 DEF StarredBy
<1>5. QED
  BY <1>2, <1>3, <1>4 DEF GroupCounts, DirectCounts, StarCounts

(* The targets of a decrement are where r was listed.                      *)
LEMMA FromTargets ==
  ASSUME NEW r \in Requests, NEW row, NEW listed \in BOOLEAN,
         listed <=> Listed(r, rr),
         listed => row.groups = rr[r].groups /\ row.people = rr[r].people
  PROVE  LET from == IF listed THEN Targets(r, row) ELSE NoTargets
         IN  /\ \A g \in Groups : g \in from.groups <=> r \in ToGroup(g)
             /\ \A u \in Users : u \in from.direct <=> r \in ToUserDirectly(u)
             /\ \A u \in Users : u \in from.stars <=> r \in StarredBy(u)
  BY DEF Targets, NoTargets, ToGroup, ToUserDirectly, StarredBy

(* The targets of an increment are where r is listed now.                  *)
LEMMA ToTargets ==
  ASSUME NEW r \in Requests, NEW row, NEW listed \in BOOLEAN,
         listed <=> Listed(r, rr'),
         listed => row.groups = rr'[r].groups /\ row.people = rr'[r].people,
         listed => UNCHANGED starred
  PROVE  LET to == IF listed THEN Targets(r, row) ELSE NoTargets
         IN  /\ \A g \in Groups : g \in to.groups <=> r \in ToGroup(g)'
             /\ \A u \in Users : u \in to.direct <=> r \in ToUserDirectly(u)'
             /\ \A u \in Users : u \in to.stars <=> r \in StarredBy(u)'
  BY DEF Targets, NoTargets, ToGroup, ToUserDirectly, StarredBy, Listed

(* Together, a step that stores a row moves the counters as it should.     *)
LEMMA TargetsMove ==
  ASSUME NEW r \in Requests, NEW row, NEW new,
         NEW was \in BOOLEAN, NEW is \in BOOLEAN,
         was <=> Listed(r, rr), is <=> Listed(r, rr'),
         was => row.groups = rr[r].groups /\ row.people = rr[r].people,
         is => new.groups = rr'[r].groups /\ new.people = rr'[r].people,
         is => UNCHANGED starred,
         MoveIncoming(IF was THEN Targets(r, row) ELSE NoTargets,
                      IF is THEN Targets(r, new) ELSE NoTargets)
  PROVE  IncomingMoved(r)
<1> DEFINE from == IF was THEN Targets(r, row) ELSE NoTargets
           to   == IF is THEN Targets(r, new) ELSE NoTargets
<1>1. /\ \A g \in Groups : g \in from.groups <=> r \in ToGroup(g)
      /\ \A u \in Users : u \in from.direct <=> r \in ToUserDirectly(u)
      /\ \A u \in Users : u \in from.stars <=> r \in StarredBy(u)
  BY FromTargets
<1>2. /\ \A g \in Groups : g \in to.groups <=> r \in ToGroup(g)'
      /\ \A u \in Users : u \in to.direct <=> r \in ToUserDirectly(u)'
      /\ \A u \in Users : u \in to.stars <=> r \in StarredBy(u)'
  BY ToTargets
<1>3. MoveIncoming(from, to)
  OBVIOUS
<1> HIDE DEF from, to
<1>4. QED
  BY <1>1, <1>2, <1>3 DEF IncomingMoved

(* Publishing lists the new reviewers in place of the old ones.            *)
LEMMA PublishMoves ==
  ASSUME TypeOK, NEW r \in Requests, NEW validate, Publish(r, validate),
         "closed publish" \notin drift'
  PROVE  IncomingMoved(r)
<1> DEFINE row == rr[r]
           new == Published(row)
           was == row.public
           is  == row.status = Pending
<1>1. row \in Row /\ row # NoRow
  BY LiveRow DEF Publish, Live
<1>2. new \in Row /\ new.status = row.status /\ new.public /\ new # NoRow
  BY <1>1, PublishedType, ConstantsAssumption
<1>3. rr'[r] = new
  BY <1>2, StoreType DEF Publish
<1>4. was => row.status = Pending
  BY DEF Publish, Cause
<1>5. was \in BOOLEAN /\ (was <=> Listed(r, rr))
  BY <1>1, <1>4 DEF Listed, Row
<1>6. is \in BOOLEAN /\ (is <=> Listed(r, rr'))
  BY <1>1, <1>2, <1>3 DEF Listed
<1>7. MoveIncoming(IF was THEN Targets(r, row) ELSE NoTargets,
                   IF is THEN Targets(r, new) ELSE NoTargets)
  BY DEF Publish
<1>8. UNCHANGED starred
  BY DEF Publish, people
<1> HIDE DEF was, is, new
<1>9. QED
  BY <1>3, <1>5, <1>6, <1>7, <1>8, TargetsMove

(* A publication that fails lists the reviewers it has already written.    *)
LEMMA PublishFailsMoves ==
  ASSUME TypeOK, NEW r \in Requests, PublishFails(r),
         "closed publish" \notin drift'
  PROVE  IncomingMoved(r)
<1> DEFINE row == rr[r]
           new == [row EXCEPT !.people = row.draft.people,
                              !.groups = row.draft.groups]
           was == row.public
<1>1. row \in Row /\ row # NoRow
  BY LiveRow DEF PublishFails, Live
<1>2. /\ new \in Row /\ new # NoRow
      /\ new.status = row.status /\ new.public = row.public
  BY <1>1, LiveRow, ConstantsAssumption DEF PublishFails, Row, Draft
<1>3. rr'[r] = new
  BY <1>2, StoreType DEF PublishFails
<1>4. was => row.status = Pending
  BY DEF PublishFails, Cause
<1>5. was \in BOOLEAN /\ (was <=> Listed(r, rr))
  BY <1>1, <1>4 DEF Listed, Row
<1>6. was <=> Listed(r, rr')
  BY <1>2, <1>3, <1>4 DEF Listed
<1>7. MoveIncoming(IF was THEN Targets(r, row) ELSE NoTargets,
                   IF was THEN Targets(r, new) ELSE NoTargets)
  BY DEF PublishFails
<1>8. UNCHANGED starred
  BY DEF PublishFails, people
<1> HIDE DEF was, new
<1>9. QED
  BY <1>3, <1>5, <1>6, <1>7, <1>8, TargetsMove

(* Closing takes a listed review request off the lists.                    *)
LEMMA CloseMoves ==
  ASSUME TypeOK, NEW r \in Requests, NEW type \in {Submitted, Discarded},
         Close(r, type)
  PROVE  IncomingMoved(r)
<1> DEFINE row == rr[r]
           new == [ClosingRow(row, type) EXCEPT !.status    = type,
                                                !.closeInfo = type,
                                                !.draft     = NoDraft]
           was == row.status = Pending /\ row.public
<1>1. row \in Row /\ row # NoRow
  BY LiveRow DEF Close, Live
<1>2. /\ ClosingRow(row, type) \in Row
      /\ row.public => ClosingRow(row, type) = row
  BY <1>1, ClosingRowType
<1>3. /\ new.status = type /\ new \in Row
      /\ row.public => new.groups = row.groups /\ new.people = row.people
  BY <1>1, <1>2 DEF Row, Statuses, CloseInfos
<1>4. rr'[r] = new
  BY <1>3, StoreType DEF Close
<1>5. was \in BOOLEAN /\ (was <=> Listed(r, rr))
  BY <1>1 DEF Listed, Row
<1>6. ~Listed(r, rr')
  BY <1>3, <1>4 DEF Listed, Pending, Submitted, Discarded
<1>7. MoveIncoming(IF was THEN Targets(r, new) ELSE NoTargets,
                   IF FALSE THEN Targets(r, new) ELSE NoTargets)
  BY DEF Close
<1>8. was => new.groups = row.groups /\ new.people = row.people
  BY <1>3
<1> HIDE DEF was, new
<1>9. QED
  BY <1>5, <1>6, <1>7, <1>8, TargetsMove

(* Reopening lists again what was submitted.                               *)
LEMMA ReopenMoves ==
  ASSUME TypeOK, TypeOK', NEW r \in Requests, Reopen(r)
  PROVE  IncomingMoved(r)
<1> DEFINE row   == rr[r]
           draft == IF row.draft = NoDraft
                    THEN NewDraft(row, "reopened")
                    ELSE [row.draft EXCEPT !.changedesc = "reopened"]
           new   == IF row.status = Discarded
                    THEN [row EXCEPT !.status = Pending, !.public = FALSE,
                                     !.draft = draft]
                    ELSE [row EXCEPT !.status = Pending, !.closeInfo = "none"]
           is    == new.public
<1>1. row \in Row /\ row.status # Pending
  BY LiveRow DEF Reopen
<1>2. rr'[r] = new
  BY DEF Reopen, Store, TypeOK
<1>3. new.status = Pending /\ new.public \in BOOLEAN
  BY <1>1 DEF Row
<1> HIDE DEF new
<1>4. new # NoRow
  <2>1. [row EXCEPT !.status = Pending, !.closeInfo = "none"] \in Row
    BY <1>1 DEF Row, Statuses, CloseInfos
  <2>2. draft \in Draft
    BY <1>1, NewDraftType DEF Row, Draft, ChangeDescs
  <2> HIDE DEF draft
  <2>3. [row EXCEPT !.status = Pending, !.public = FALSE, !.draft = draft] \in Row
    BY <1>1, <2>2 DEF Row, Statuses
  <2>4. QED
    BY <2>1, <2>3, ConstantsAssumption DEF new
<1>5. is \in BOOLEAN /\ (is <=> Listed(r, rr'))
  BY <1>2, <1>3, <1>4 DEF Listed
<1>6. ~Listed(r, rr)
  BY <1>1 DEF Listed
<1>7. MoveIncoming(IF FALSE THEN Targets(r, row) ELSE NoTargets,
                   IF is THEN Targets(r, new) ELSE NoTargets)
  BY DEF Reopen, new
<1>8. UNCHANGED starred
  BY DEF Reopen, people
<1> HIDE DEF is
<1>9. QED
  BY <1>2, <1>5, <1>6, <1>7, <1>8, TargetsMove

(* Deleting takes it off the lists, and off the stars.                     *)
LEMMA DeleteMoves ==
  ASSUME TypeOK, NEW r \in Requests, Delete(r)
  PROVE  IncomingMoved(r)
<1> DEFINE row == rr[r]
           was == row.status = Pending /\ row.public
<1>1. row \in Row /\ row # NoRow
  BY LiveRow DEF Delete, Live
<1>2. rr'[r] = NoRow
  BY DEF Delete, TypeOK
<1>3. was \in BOOLEAN /\ (was <=> Listed(r, rr)) /\ ~Listed(r, rr')
  BY <1>1, <1>2 DEF Listed, Row
<1>4. MoveIncoming(IF was THEN Targets(r, row) ELSE NoTargets,
                   IF FALSE THEN Targets(r, row) ELSE NoTargets)
  BY DEF Delete
<1> HIDE DEF was
<1>5. QED
  BY <1>3, <1>4, TargetsMove

(* The operations that move no reviewer's counter, whatever they write.    *)
Unlisted(r) ==
  \/ \E u \in Users : Create(r, u)
  \/ EditDraft(r)
  \/ DiscardDraft(r)
  \/ CloseFails(r)
  \/ CloseAgain(r)

(* They change nothing of r that a query looks at.                         *)
LEMMA UnlistedSame ==
  ASSUME TypeOK, NEW r \in Requests, Unlisted(r)
  PROVE  /\ SameListing(r)
         /\ \A q \in Requests \ {r} : rr'[q] = rr[q]
         /\ UNCHANGED <<groupIncoming, directIncoming, starredPublic, starred>>
<1>1. CASE \E u \in Users : Create(r, u)
  <2>1. PICK u \in Users : Create(r, u)
    BY <1>1
  <2>2. ~Listed(r, rr) /\ ~Listed(r, rr')
    BY <2>1 DEF Create, Store, Listed, Live, TypeOK
  <2>3. QED
    BY <2>1, <2>2 DEF Create, Store, SameListing, TypeOK, people
<1>2. ASSUME Live(r), NEW new, Store(r, new), new # NoRow,
             new.status = rr[r].status, new.public = rr[r].public,
             new.people = rr[r].people, new.groups = rr[r].groups
      PROVE  SameListing(r) /\ \A q \in Requests \ {r} : rr'[q] = rr[q]
  BY <1>2 DEF Store, SameListing, Listed, Live, TypeOK
<1>3. ASSUME Live(r), NEW d, NEW c
      PROVE  /\ Store(r, [rr[r] EXCEPT !.draft = d]) /\ d \in Draft \cup {NoDraft} =>
                  SameListing(r) /\ \A q \in Requests \ {r} : rr'[q] = rr[q]
             /\ Store(r, [rr[r] EXCEPT !.closeInfo = Submitted]) =>
                  SameListing(r) /\ \A q \in Requests \ {r} : rr'[q] = rr[q]
  <2>1. rr[r] \in Row
    BY <1>3, LiveRow
  <2>2. d \in Draft \cup {NoDraft} => [rr[r] EXCEPT !.draft = d] \in Row
    BY <2>1 DEF Row
  <2>3. [rr[r] EXCEPT !.closeInfo = Submitted] \in Row
    BY <2>1 DEF Row, CloseInfos
  <2>4. /\ [rr[r] EXCEPT !.draft = d].status = rr[r].status
        /\ [rr[r] EXCEPT !.draft = d].public = rr[r].public
        /\ [rr[r] EXCEPT !.draft = d].people = rr[r].people
        /\ [rr[r] EXCEPT !.draft = d].groups = rr[r].groups
        /\ [rr[r] EXCEPT !.closeInfo = Submitted].status = rr[r].status
        /\ [rr[r] EXCEPT !.closeInfo = Submitted].public = rr[r].public
        /\ [rr[r] EXCEPT !.closeInfo = Submitted].people = rr[r].people
        /\ [rr[r] EXCEPT !.closeInfo = Submitted].groups = rr[r].groups
    BY <2>1 DEF Row
  <2>5. QED
    BY <1>2, <1>3, <2>2, <2>3, <2>4, ConstantsAssumption
<1>4. CASE EditDraft(r)
  <2> DEFINE row   == rr[r]
             draft == IF row.draft = NoDraft
                      THEN NewDraft(row, IF row.public THEN "empty" ELSE "none")
                      ELSE row.draft
  <2>1. Live(r) /\ row \in Row
    BY <1>4, LiveRow DEF EditDraft
  <2>2. draft \in Draft
    BY <2>1, NewDraftType DEF Row, ChangeDescs
  <2>3. PICK d \in Edits(draft) : Store(r, [row EXCEPT !.draft = d])
    BY <1>4 DEF EditDraft
  <2>4. d \in Draft
    BY <2>2, <2>3, EditsType
  <2>5. QED
    BY <1>3, <1>4, <2>1, <2>3, <2>4 DEF EditDraft, incoming, people
<1>5. CASE DiscardDraft(r) \/ CloseAgain(r)
  BY <1>3, <1>5 DEF DiscardDraft, CloseAgain, incoming, people
<1>6. CASE CloseFails(r)
  BY <1>3, <1>6 DEF CloseFails, incoming, people
<1>7. QED
  BY <1>1, <1>4, <1>5, <1>6 DEF Unlisted

(* The operations that move them change one review request.                *)
LEMMA MovesOnlyRow ==
  ASSUME TypeOK, NEW r \in Requests,
         \/ \E validate \in BOOLEAN : Publish(r, validate)
         \/ PublishFails(r)
         \/ \E type \in {Submitted, Discarded} : Close(r, type)
         \/ Reopen(r)
         \/ Delete(r)
  PROVE  OnlyRow(r)
<1>1. \/ rr' = [rr EXCEPT ![r] = NoRow] /\ starred' = [u \in Users |-> starred[u] \ {r}]
      \/ (\E row : Store(r, row)) /\ UNCHANGED starred
  BY DEF Publish, PublishFails, Close, Reopen, Delete, people
<1>2. QED
  BY <1>1 DEF OnlyRow, Store, TypeOK

(* Starring and unstarring move the counter of one user by one, unless     *)
(* that changes nothing or the review request is closed.                   *)
LEMMA SetStarCounts ==
  ASSUME TypeOK, NEW u \in Users, NEW r \in Requests, Star(u, r) \/ Unstar(u, r),
         "star" \notin drift', StarCounts
  PROVE  StarCounts'
<1>1. /\ UNCHANGED rr
      /\ \A q \in Requests : q # r => (q \in starred'[u] <=> q \in starred[u])
      /\ \A v \in Users \ {u} : starred'[v] = starred[v]
  <2>1. PICK stars \in {starred[u] \cup {r}, starred[u] \ {r}} :
          rr' = rr /\ starred' = [starred EXCEPT ![u] = stars]
    <3>1. CASE Star(u, r)
      BY <3>1 DEF Star, SetStar
    <3>2. CASE Unstar(u, r)
      BY <3>2 DEF Unstar, SetStar
    <3>3. QED
      BY <3>1, <3>2
  <2>2. \A q : q # r => (q \in stars <=> q \in starred[u])
    OBVIOUS
  <2>3. QED
    BY <2>1, <2>2 DEF TypeOK
<1>2. \A v \in Users \ {u} : StarredBy(v)' = StarredBy(v)
  BY <1>1 DEF StarredBy
<1>3. StarredBy(u) \in SUBSET Requests /\ StarredBy(u)' \in SUBSET Requests
  BY DEF StarredBy
<1>4. StarredBy(u) \ {r} = StarredBy(u)' \ {r}
  BY <1>1 DEF StarredBy
<1>5. /\ Cardinality(StarredBy(u)) \in Int
      /\ Cardinality(StarredBy(u)') = Cardinality(StarredBy(u))
           - (IF r \in StarredBy(u) THEN 1 ELSE 0) + (IF r \in StarredBy(u)' THEN 1 ELSE 0)
  BY <1>3, <1>4, CountChange
<1>6. rr[r] # NoRow
  BY DEF Star, Unstar, SetStar, Live
<1>7. CASE Starrable(rr[r])
  <2>1. rr[r].status = Pending /\ rr[r].public
    BY <1>7 DEF Star, Unstar, SetStar, Cause, Starrable
  <2>2. CASE Star(u, r)
    <3>1. r \notin starred[u] /\ r \in starred'[u]
      BY <1>7, <2>2 DEF Star, SetStar, Cause, TypeOK
    <3>2. r \notin StarredBy(u) /\ r \in StarredBy(u)'
      BY <1>1, <1>6, <2>1, <3>1 DEF StarredBy, Listed
    <3>3. \A v \in Users : starredPublic'[v] = IF v \in {u} THEN starredPublic[v] + 1
                                                           ELSE starredPublic[v]
      BY <1>7, <2>2, AddInt DEF Star, SetStar, TypeOK
    <3>4. QED
      BY <1>2, <1>5, <3>2, <3>3 DEF StarCounts
  <2>3. CASE Unstar(u, r)
    <3>1. r \in starred[u] /\ r \notin starred'[u]
      BY <1>7, <2>3 DEF Unstar, SetStar, Cause, TypeOK
    <3>2. r \in StarredBy(u) /\ r \notin StarredBy(u)'
      BY <1>1, <1>6, <2>1, <3>1 DEF StarredBy, Listed
    <3>3. \A v \in Users : starredPublic'[v] = IF v \in {u} THEN starredPublic[v] + (-1)
                                                           ELSE starredPublic[v]
      BY <1>7, <2>3, AddInt DEF Unstar, SetStar, TypeOK
    <3>4. QED
      BY <1>2, <1>5, <3>2, <3>3 DEF StarCounts
  <2>4. QED
    BY <2>2, <2>3
<1>8. CASE ~Starrable(rr[r])
  <2>1. r \notin StarredBy(u) /\ r \notin StarredBy(u)'
    BY <1>1, <1>8 DEF StarredBy, Listed, Starrable
  <2>2. UNCHANGED starredPublic
    BY <1>8 DEF Star, Unstar, SetStar
  <2>3. QED
    BY <1>2, <1>5, <2>1, <2>2 DEF StarCounts
<1>9. QED
  BY <1>7, <1>8

(* One step keeps every reviewer's counter exact, as long as no draft of a *)
(* closed review request is published and no star is set twice.            *)
LEMMA IncomingStep ==
  ASSUME TypeOK, TypeOK', [Next]_vars, "closed publish" \notin drift'
  PROVE  /\ GroupCounts => GroupCounts'
         /\ DirectCounts => DirectCounts'
         /\ "star" \notin drift' => (StarCounts => StarCounts')
<1>1. ASSUME NEW r \in Requests, RequestNext(r)
      PROVE  /\ GroupCounts => GroupCounts'
             /\ DirectCounts => DirectCounts'
             /\ "star" \notin drift' => (StarCounts => StarCounts')
  <2>1. CASE \E u \in Users : Star(u, r) \/ Unstar(u, r)
    <3>1. UNCHANGED <<rr, groupIncoming, directIncoming>>
      BY <2>1 DEF Star, Unstar, SetStar
    <3>2. /\ \A q \in Requests \ {r} : rr'[q] = rr[q]
          /\ SameListing(r)
      BY <3>1 DEF SameListing
    <3>3. QED
      BY <2>1, <3>1, <3>2, SameListingCounts, SetStarCounts
  <2>2. CASE Unlisted(r)
    BY <2>2, UnlistedSame, SameListingCounts
  <2>3. CASE \/ \E validate \in BOOLEAN : Publish(r, validate)
             \/ PublishFails(r)
             \/ \E type \in {Submitted, Discarded} : Close(r, type)
             \/ Reopen(r)
             \/ Delete(r)
    <3>1. OnlyRow(r)
      BY <2>3, MovesOnlyRow
    <3>2. IncomingMoved(r)
      BY <2>3, PublishMoves, PublishFailsMoves, CloseMoves, ReopenMoves, DeleteMoves
    <3>3. QED
      BY <3>1, <3>2, IncomingMovedCounts
  <2>4. QED
    BY <1>1, <2>1, <2>2, <2>3 DEF RequestNext, Unlisted
<1>2. ASSUME UNCHANGED <<rr, groupIncoming, directIncoming, starredPublic, starred>>
      PROVE  /\ GroupCounts => GroupCounts'
             /\ DirectCounts => DirectCounts'
             /\ StarCounts => StarCounts'
  BY <1>2 DEF GroupCounts, DirectCounts, StarCounts, ToGroup, ToUserDirectly,
              StarredBy, Listed
<1>3. ASSUME NEW u \in Users, UserNext(u)
      PROVE  UNCHANGED <<rr, groupIncoming, directIncoming, starredPublic, starred>>
  BY <1>3 DEF UserNext, Join, Leave, SetMembers, LoadProfile, people
<1>4. CASE UNCHANGED vars
  BY <1>2, <1>4 DEF vars, people, incoming
<1>5. QED
  BY <1>1, <1>2, <1>3, <1>4 DEF Next

(* In the initial state there is nothing to count.                         *)
LEMMA IncomingInit ==
  ASSUME Init
  PROVE  GroupCounts /\ DirectCounts /\ StarCounts
<1>1. \A r \in Requests : ~Listed(r, rr)
  BY DEF Init, Listed
<1>2. /\ \A g \in Groups : ToGroup(g) = {}
      /\ \A u \in Users : ToUserDirectly(u) = {} /\ StarredBy(u) = {}
  BY <1>1 DEF ToGroup, ToUserDirectly, StarredBy
<1>3. QED
  BY <1>2, FS_EmptySet DEF Init, GroupCounts, DirectCounts, StarCounts

(* Inductive, given the types: drift only grows, so a counter that is      *)
(* promised to be exact after a step was so before it.                     *)
IncomingInv == GroupIncomingExact /\ DirectIncomingExact /\ StarredExact

(* The three counters that a review request moves with, together.          *)
LEMMA IncomingCorrect ==
  Spec => [](GroupIncomingExact /\ DirectIncomingExact /\ StarredExact)
<1>1. Init => IncomingInv
  BY IncomingInit DEF IncomingInv, GroupIncomingExact, DirectIncomingExact,
     StarredExact, GroupCounts, DirectCounts, StarCounts
<1>2. ASSUME TypeOK, TypeOK', IncomingInv, [Next]_vars
      PROVE  IncomingInv'
  <2>1. drift \subseteq drift'
    BY <1>2, DriftGrows
  <2>2. CASE "closed publish" \in drift'
    BY <2>2 DEF IncomingInv, GroupIncomingExact, DirectIncomingExact,
                StarredExact, Without
  <2>3. CASE "closed publish" \notin drift'
    <3>1. GroupCounts /\ DirectCounts
      BY <1>2, <2>1, <2>3 DEF IncomingInv, GroupIncomingExact, DirectIncomingExact,
                             GroupCounts, DirectCounts, Without
    <3>2. "star" \notin drift' => StarCounts
      BY <1>2, <2>1, <2>3 DEF IncomingInv, StarredExact, StarCounts, Without
    <3>3. /\ GroupCounts' /\ DirectCounts'
          /\ "star" \notin drift' => StarCounts'
      BY <1>2, <2>3, <3>1, <3>2, IncomingStep
    <3>4. QED
      BY <3>3 DEF IncomingInv, GroupIncomingExact, DirectIncomingExact, StarredExact,
                  GroupCounts, DirectCounts, StarCounts, Without
  <2>4. QED
    BY <2>2, <2>3
<1>3. IncomingInv => GroupIncomingExact /\ DirectIncomingExact /\ StarredExact
  BY DEF IncomingInv
<1>4. QED
  BY <1>1, <1>2, <1>3, TypeCorrect, PTL DEF Spec

(* Publications that fail half-way, discards, reopenings, deletions and    *)
(* changes of owner keep the counters of the groups exact, for any number  *)
(* of review requests, users and groups.                                   *)
THEOREM GroupIncomingCorrect == Spec => []GroupIncomingExact
BY IncomingCorrect, PTL

(* The same of the reviewers that are named directly.                      *)
THEOREM DirectIncomingCorrect == Spec => []DirectIncomingExact
BY IncomingCorrect, PTL

(* The same of those who starred a review request.                         *)
THEOREM StarredCorrect == Spec => []StarredExact
BY IncomingCorrect, PTL

(***************************************************************************)
(* The counters of the owners.                                             *)
(***************************************************************************)
OwnerCounts ==
  \A u \in Users : /\ pendingOutgoing[u] = Cardinality(PendingFrom(u))
                   /\ totalOutgoing[u] = Cardinality(FromUser(u))

(* The owners' queries change with the review request that does.           *)
LEMMA OwnerQueries ==
  ASSUME NEW r \in Requests, \A q \in Requests \ {r} : rr'[q] = rr[q], NEW u \in Users
  PROVE  /\ Cardinality(FromUser(u)) \in Int
         /\ Cardinality(FromUser(u)') = Cardinality(FromUser(u))
              - (IF r \in FromUser(u) THEN 1 ELSE 0)
              + (IF r \in FromUser(u)' THEN 1 ELSE 0)
         /\ Cardinality(PendingFrom(u)) \in Int
         /\ Cardinality(PendingFrom(u)') = Cardinality(PendingFrom(u))
              - (IF r \in PendingFrom(u) THEN 1 ELSE 0)
              + (IF r \in PendingFrom(u)' THEN 1 ELSE 0)
<1>1. /\ FromUser(u) \in SUBSET Requests /\ FromUser(u)' \in SUBSET Requests
      /\ PendingFrom(u) \in SUBSET Requests /\ PendingFrom(u)' \in SUBSET Requests
  BY DEF FromUser, PendingFrom
<1>2. FromUser(u) \ {r} = FromUser(u)' \ {r}
  BY DEF FromUser
<1>3. PendingFrom(u) \ {r} = PendingFrom(u)' \ {r}
  BY DEF FromUser, PendingFrom
<1>4. QED
  BY <1>1, <1>2, <1>3, CountChange

(* Changing the owner or the status of a review request moves it between   *)
(* the owners' counters.                                                   *)
LEMMA MoveOutgoingCounts ==
  ASSUME TypeOK, NEW r \in Requests, Live(r), NEW new \in Row, Store(r, new),
         MoveOutgoing(rr[r].status, rr[r].submitter, new), OwnerCounts
  PROVE  OwnerCounts'
<1> DEFINE status == rr[r].status
           old    == rr[r].submitter
           moved  == old # new.submitter
           opens  == new.status = Pending /\ (moved \/ status # Pending)
           closes == status = Pending /\ (moved \/ new.status # Pending)
<1>1. /\ rr'[r] = new /\ new # NoRow
      /\ \A q \in Requests \ {r} : rr'[q] = rr[q]
  BY StoreType, ConstantsAssumption
<1>2. SUFFICES ASSUME NEW u \in Users
               PROVE  /\ pendingOutgoing'[u] = Cardinality(PendingFrom(u)')
                      /\ totalOutgoing'[u] = Cardinality(FromUser(u)')
  BY DEF OwnerCounts
<1>3. /\ r \in FromUser(u) <=> u = old
      /\ r \in FromUser(u)' <=> u = new.submitter
      /\ r \in PendingFrom(u) <=> u = old /\ status = Pending
      /\ r \in PendingFrom(u)' <=> u = new.submitter /\ new.status = Pending
  BY <1>1 DEF FromUser, PendingFrom, Live
<1>4. totalOutgoing'[u] =
        totalOutgoing[u] - (IF moved /\ u = old THEN 1 ELSE 0)
                         + (IF moved /\ u = new.submitter THEN 1 ELSE 0)
  <2>1. CASE moved
    <3>1. totalOutgoing' = Move(totalOutgoing, {old}, {new.submitter})
      BY <2>1 DEF MoveOutgoing
    <3>2. QED
      BY <2>1, <3>1, MoveInt DEF TypeOK
  <2>2. CASE ~moved
    BY <2>2 DEF MoveOutgoing, TypeOK
  <2>3. QED
    BY <2>1, <2>2
<1>5. pendingOutgoing'[u] =
        pendingOutgoing[u] - (IF closes /\ u = old THEN 1 ELSE 0)
                           + (IF opens /\ u = new.submitter THEN 1 ELSE 0)
  <2> DEFINE from == IF closes THEN {old} ELSE {}
             to   == IF opens THEN {new.submitter} ELSE {}
  <2>1. pendingOutgoing' = Move(pendingOutgoing, from, to)
    BY DEF MoveOutgoing
  <2>2. (u \in from <=> closes /\ u = old) /\ (u \in to <=> opens /\ u = new.submitter)
    OBVIOUS
  <2> HIDE DEF from, to
  <2>3. QED
    BY <2>1, <2>2, MoveInt DEF TypeOK
<1>6. /\ pendingOutgoing[u] = Cardinality(PendingFrom(u))
      /\ totalOutgoing[u] = Cardinality(FromUser(u))
  BY DEF OwnerCounts
<1>7. QED
  BY <1>1, <1>3, <1>4, <1>5, <1>6, OwnerQueries

(* An operation that changes neither leaves them alone.                    *)
LEMMA SameOwnerCounts ==
  ASSUME TypeOK, NEW r \in Requests, Live(r), NEW new \in Row, Store(r, new),
         new.submitter = rr[r].submitter, new.status = rr[r].status,
         UNCHANGED outgoing, OwnerCounts
  PROVE  OwnerCounts'
<1>1. /\ rr'[r] = new /\ new # NoRow
      /\ \A q \in Requests \ {r} : rr'[q] = rr[q]
  BY StoreType, ConstantsAssumption
<1>2. \A u \in Users : FromUser(u)' = FromUser(u)
  BY <1>1 DEF FromUser, Live
<1>3. \A u \in Users : PendingFrom(u)' = PendingFrom(u)
  BY <1>1, <1>2 DEF FromUser, PendingFrom
<1>4. QED
  BY <1>2, <1>3 DEF OwnerCounts, outgoing

(* A new review request counts for its owner, a deleted one no longer.     *)
LEMMA CreateDeleteOwner ==
  ASSUME TypeOK, NEW r \in Requests, (\E u \in Users : Create(r, u)) \/ Delete(r),
         OwnerCounts
  PROVE  OwnerCounts'
<1>1. \A q \in Requests \ {r} : rr'[q] = rr[q]
  BY DEF Create, Delete, Store, TypeOK
<1>2. ASSUME NEW u \in Users, Create(r, u), NEW v \in Users
      PROVE  /\ pendingOutgoing'[v] = Cardinality(PendingFrom(v)')
             /\ totalOutgoing'[v] = Cardinality(FromUser(v)')
  <2> DEFINE row == [status |-> Pending, public |-> FALSE, submitter |-> u,
                     people |-> {}, groups |-> {}, text |-> Blank,
                     closeInfo |-> "none", draft |-> NoDraft]
             new == [row EXCEPT !.draft = NewDraft(row, "none")]
  <2>1. row \in Row
    BY ConstantsAssumption DEF Row, Statuses, CloseInfos
  <2>2. NewDraft(row, "none") \in Draft
    BY <2>1, NewDraftType DEF ChangeDescs
  <2>3. new \in Row /\ new.submitter = u /\ new.status = Pending
    BY <2>1, <2>2 DEF Row
  <2>4. rr'[r] = new /\ new # NoRow /\ rr[r] = NoRow
    BY <1>2, <2>3, ConstantsAssumption DEF Create, Live, Store, TypeOK
  <2> HIDE DEF new
  <2>5. /\ r \notin FromUser(v) /\ r \notin PendingFrom(v)
        /\ r \in FromUser(v)' <=> v = u
        /\ r \in PendingFrom(v)' <=> v = u
    BY <2>3, <2>4 DEF FromUser, PendingFrom
  <2>6. /\ pendingOutgoing'[v] = IF v \in {u} THEN pendingOutgoing[v] + 1
                                              ELSE pendingOutgoing[v]
        /\ totalOutgoing'[v] = IF v \in {u} THEN totalOutgoing[v] + 1
                                            ELSE totalOutgoing[v]
    BY <1>2, AddInt DEF Create, TypeOK
  <2>7. QED
    BY <1>1, <2>5, <2>6, OwnerQueries DEF OwnerCounts
<1>3. ASSUME Delete(r), NEW v \in Users
      PROVE  /\ pendingOutgoing'[v] = Cardinality(PendingFrom(v)')
             /\ totalOutgoing'[v] = Cardinality(FromUser(v)')
  <2> DEFINE old == rr[r].submitter
             S   == IF rr[r].status = Pending THEN {old} ELSE {}
  <2>1. rr'[r] = NoRow /\ rr[r] # NoRow
    BY <1>3 DEF Delete, Live, TypeOK
  <2>2. /\ r \notin FromUser(v)' /\ r \notin PendingFrom(v)'
        /\ r \in FromUser(v) <=> v = old
        /\ r \in PendingFrom(v) <=> v \in S
    BY <2>1 DEF FromUser, PendingFrom
  <2>3. pendingOutgoing' = Add(pendingOutgoing, S, -1)
    BY <1>3 DEF Delete
  <2> HIDE DEF S
  <2>4. /\ pendingOutgoing'[v] = IF v \in S THEN pendingOutgoing[v] + (-1)
                                            ELSE pendingOutgoing[v]
        /\ totalOutgoing'[v] = IF v \in {old} THEN totalOutgoing[v] + (-1)
                                              ELSE totalOutgoing[v]
    BY <1>3, <2>3, AddInt DEF Delete, TypeOK
  <2>5. QED
    BY <1>1, <2>2, <2>4, OwnerQueries DEF OwnerCounts
<1>4. QED
  BY <1>2, <1>3 DEF OwnerCounts

(* One operation keeps the owners' counters exact, unless it discards what *)
(* a draft was giving away.                                                *)
LEMMA OwnerStep ==
  ASSUME TypeOK, NEW r \in Requests, RequestNext(r), "owner discarded" \notin drift',
         OwnerCounts
  PROVE  OwnerCounts'
<1>1. CASE (\E u \in Users : Create(r, u)) \/ Delete(r)
  BY <1>1, CreateDeleteOwner
<1>2. CASE \E u \in Users : Star(u, r) \/ Unstar(u, r)
  <2>1. UNCHANGED <<rr, outgoing>>
    BY <1>2 DEF Star, Unstar, SetStar
  <2>2. QED
    BY <2>1 DEF outgoing, OwnerCounts, FromUser, PendingFrom
<1>3. CASE EditDraft(r) \/ DiscardDraft(r) \/ CloseFails(r) \/ CloseAgain(r)
  <2>1. Live(r) /\ rr[r] \in Row /\ UNCHANGED outgoing
    BY <1>3, LiveRow DEF EditDraft, DiscardDraft, CloseFails, CloseAgain
  <2>2. ASSUME NEW d \in Draft \cup {NoDraft}, Store(r, [rr[r] EXCEPT !.draft = d])
        PROVE  OwnerCounts'
    <3> DEFINE new == [rr[r] EXCEPT !.draft = d]
    <3>1. /\ new \in Row /\ new.submitter = rr[r].submitter
          /\ new.status = rr[r].status
      BY <2>1 DEF Row
    <3> HIDE DEF new
    <3>2. QED
      BY <2>1, <2>2, <3>1, SameOwnerCounts DEF new
  <2>3. CASE EditDraft(r)
    <3> DEFINE row   == rr[r]
               draft == IF row.draft = NoDraft
                        THEN NewDraft(row, IF row.public THEN "empty" ELSE "none")
                        ELSE row.draft
    <3>1. draft \in Draft
      BY <2>1, NewDraftType DEF Row, ChangeDescs
    <3>2. PICK d \in Edits(draft) : Store(r, [row EXCEPT !.draft = d])
      BY <2>3 DEF EditDraft
    <3>3. d \in Draft
      BY <3>1, <3>2, EditsType
    <3>4. QED
      BY <2>2, <3>2, <3>3
  <2>4. CASE DiscardDraft(r) \/ CloseAgain(r)
    BY <2>2, <2>4 DEF DiscardDraft, CloseAgain
  <2>5. CASE CloseFails(r)
    <3> DEFINE new == [rr[r] EXCEPT !.closeInfo = Submitted]
    <3>1. /\ new \in Row /\ new.submitter = rr[r].submitter
          /\ new.status = rr[r].status
      BY <2>1 DEF Row, CloseInfos
    <3>2. Store(r, new)
      BY <2>5 DEF CloseFails
    <3> HIDE DEF new
    <3>3. QED
      BY <2>1, <3>1, <3>2, SameOwnerCounts
  <2>6. QED
    BY <1>3, <2>3, <2>4, <2>5
<1>4. CASE \E validate \in BOOLEAN : Publish(r, validate)
  <2>1. Live(r) /\ Published(rr[r]) \in Row
    BY <1>4, LiveRow, PublishedType DEF Publish
  <2>2. /\ Store(r, Published(rr[r]))
        /\ MoveOutgoing(rr[r].status, rr[r].submitter, Published(rr[r]))
    BY <1>4 DEF Publish
  <2>3. QED
    BY <2>1, <2>2, MoveOutgoingCounts
<1>5. CASE PublishFails(r)
  <2> DEFINE new == [rr[r] EXCEPT !.people = rr[r].draft.people,
                                  !.groups = rr[r].draft.groups]
  <2>1. Live(r) /\ Store(r, new) /\ UNCHANGED outgoing
    BY <1>5 DEF PublishFails
  <2>2. new \in Row /\ new.submitter = rr[r].submitter /\ new.status = rr[r].status
    BY <1>5, LiveRow DEF PublishFails, Row, Draft
  <2> HIDE DEF new
  <2>3. QED
    BY <2>1, <2>2, SameOwnerCounts
<1>6. CASE \E type \in {Submitted, Discarded} : Close(r, type)
  <2>1. PICK type \in {Submitted, Discarded} : Close(r, type)
    BY <1>6
  <2> DEFINE new == [ClosingRow(rr[r], type) EXCEPT !.status    = type,
                                                    !.closeInfo = type,
                                                    !.draft     = NoDraft]
  <2>2. /\ Live(r) /\ Store(r, new) /\ MoveOutgoing(rr[r].status, new.submitter, new)
        /\ drift' = drift \cup Cause("owner discarded", new.submitter # rr[r].submitter)
                          \cup Cause("recount",
                                     RecountDrifts(new.submitter, rr, starred))
    BY <2>1 DEF Close
  <2>3. new \in Row
    <3>1. ClosingRow(rr[r], type) \in Row
      BY <2>2, LiveRow, ClosingRowType
    <3>2. type \in Statuses /\ type \in CloseInfos
      BY DEF Statuses, CloseInfos
    <3>3. QED
      BY <3>1, <3>2 DEF Row
  <2> HIDE DEF new
  <2>4. new.submitter = rr[r].submitter
    BY <2>2 DEF Cause
  <2>5. QED
    BY <2>2, <2>3, <2>4, MoveOutgoingCounts
<1>7. CASE Reopen(r)
  <2> DEFINE row   == rr[r]
             draft == IF row.draft = NoDraft
                      THEN NewDraft(row, "reopened")
                      ELSE [row.draft EXCEPT !.changedesc = "reopened"]
             new   == IF row.status = Discarded
                      THEN [row EXCEPT !.status = Pending, !.public = FALSE,
                                       !.draft = draft]
                      ELSE [row EXCEPT !.status = Pending, !.closeInfo = "none"]
  <2>1. Live(r) /\ Store(r, new) /\ MoveOutgoing(rr[r].status, rr[r].submitter, new)
    BY <1>7 DEF Reopen
  <2>2. new \in Row
    <3>1. row \in Row
      BY <2>1, LiveRow
    <3>2. "reopened" \in ChangeDescs
      BY DEF ChangeDescs
    <3>3. draft \in Draft
      <4>1. CASE row.draft = NoDraft
        BY <3>1, <3>2, <4>1, NewDraftType
      <4>2. CASE row.draft # NoDraft
        BY <3>1, <3>2, <4>2 DEF Row, Draft
      <4>3. QED
        BY <4>1, <4>2
    <3> HIDE DEF draft
    <3>4. QED
      BY <3>1, <3>3 DEF Row, Statuses, CloseInfos
  <2> HIDE DEF new
  <2>3. QED
    BY <2>1, <2>2, MoveOutgoingCounts
<1>8. QED
  BY <1>1, <1>2, <1>3, <1>4, <1>5, <1>6, <1>7 DEF RequestNext

(* The owners' counters are exact through closing, reopening, deleting and *)
(* giving away, for any number of review requests and users.               *)
THEOREM OutgoingCorrect == Spec => []OutgoingExact
<1>1. Init => OutgoingExact
  <2> SUFFICES ASSUME Init PROVE OutgoingExact
    OBVIOUS
  <2>1. \A u \in Users : FromUser(u) = {} /\ PendingFrom(u) = {}
    BY DEF Init, FromUser, PendingFrom
  <2>2. QED
    BY <2>1, FS_EmptySet DEF Init, OutgoingExact
<1>2. ASSUME TypeOK, OutgoingExact, [Next]_vars
      PROVE  OutgoingExact'
  <2>1. drift \subseteq drift'
    BY <1>2, DriftGrows
  <2>2. CASE "owner discarded" \in drift'
    BY <2>2 DEF OutgoingExact, Without
  <2>3. CASE "owner discarded" \notin drift'
    <3>1. OwnerCounts
      BY <1>2, <2>1, <2>3 DEF OutgoingExact, OwnerCounts, Without
    <3>2. ASSUME UNCHANGED <<rr, outgoing>>
          PROVE  OwnerCounts'
      BY <3>1, <3>2 DEF OwnerCounts, outgoing, FromUser, PendingFrom
    <3>3. ASSUME NEW u \in Users, UserNext(u)
          PROVE  UNCHANGED <<rr, outgoing>>
      BY <3>3 DEF UserNext, Join, Leave, SetMembers, LoadProfile, outgoing
    <3>4. OwnerCounts'
      BY <1>2, <2>3, <3>1, <3>2, <3>3, OwnerStep DEF Next, vars
    <3>5. QED
      BY <3>4 DEF OutgoingExact, OwnerCounts
  <2>4. QED
    BY <2>2, <2>3
<1>3. QED
  BY <1>1, <1>2, TypeCorrect, PTL DEF Spec
(***************************************************************************)
(* The total of a user, which waits at Null for its profile to be loaded.  *)
(***************************************************************************)

(* A counter that does not wait is the number of review requests that      *)
(* reach the user.                                                         *)
Fits(counter) ==
  \A u \in Users : counter[u] # Null => counter[u] = Cardinality(ToUser(u))

(* What TotalIncomingExact excludes did not happen.                        *)
NoDrift ==
  {"closed publish", "recount", "old owner recount"} \cap drift = {}

(* What reaches a user changes with the one review request that moves.     *)
LEMMA TotalQuery ==
  ASSUME NEW r \in Requests, OnlyRow(r), UNCHANGED members, NEW u \in Users
  PROVE  /\ Cardinality(ToUser(u)) \in Int
         /\ Cardinality(ToUser(u)') = Cardinality(ToUser(u))
              - (IF r \in ToUser(u) THEN 1 ELSE 0)
              + (IF r \in ToUser(u)' THEN 1 ELSE 0)
<1>1. ToUser(u) \in SUBSET Requests /\ ToUser(u)' \in SUBSET Requests
  BY DEF ToUser
<1>2. ToUser(u) \ {r} = ToUser(u)' \ {r}
  BY DEF OnlyRow, ToUser, Listed, Reviewers
<1>3. QED
  BY <1>1, <1>2, CountChange

(* UPDATE leaves a counter that waits alone.                               *)
LEMMA AddNull ==
  ASSUME NEW c \in [Users -> Int \cup {Null}], NEW S, NEW n \in Int, NEW u \in Users
  PROVE  /\ c[u] = Null <=> Add(c, S, n)[u] = Null
         /\ c[u] # Null => Add(c, S, n)[u] = IF u \in S THEN c[u] + n ELSE c[u]
  BY ConstantsAssumption DEF Add

LEMMA MoveNull ==
  ASSUME NEW c \in [Users -> Int \cup {Null}], NEW from, NEW to, NEW u \in Users
  PROVE  /\ c[u] = Null <=> Move(c, from, to)[u] = Null
         /\ c[u] # Null => Move(c, from, to)[u] =
              c[u] - (IF u \in from THEN 1 ELSE 0) + (IF u \in to THEN 1 ELSE 0)
<1> DEFINE taken == Add(c, from, -1)
<1>1. taken \in [Users -> Int \cup {Null}]
  BY AddIntOrNull
<1>2. /\ c[u] = Null <=> taken[u] = Null
      /\ c[u] # Null => taken[u] = IF u \in from THEN c[u] + (-1) ELSE c[u]
  BY AddNull
<1>3. /\ taken[u] = Null <=> Add(taken, to, 1)[u] = Null
      /\ taken[u] # Null =>
           Add(taken, to, 1)[u] = IF u \in to THEN taken[u] + 1 ELSE taken[u]
  BY <1>1, AddNull
<1>4. c[u] # Null => c[u] \in Int
  OBVIOUS
<1> HIDE DEF taken
<1>5. QED
  BY <1>2, <1>3, <1>4 DEF Move, taken

(* A load that does not drift counts who reaches the user.                 *)
LEMMA LoadCounts ==
  ASSUME NEW rows, NEW stars, NEW u \in Users, totalIncoming[u] = Null,
         ~RecountDrifts(u, rows, stars), stars \in [Users -> SUBSET Requests]
  PROVE  TotalInitializer(u, rows, stars) =
           Cardinality({q \in Requests : Listed(q, rows) /\ u \in Reviewers(rows[q])})
<1>1. \A q \in stars[u] : Listed(q, rows) => u \in Reviewers(rows[q])
  BY DEF RecountDrifts
<1>2. {q \in Requests : Listed(q, rows) /\ (u \in Reviewers(rows[q]) \/ q \in stars[u])}
        = {q \in Requests : Listed(q, rows) /\ u \in Reviewers(rows[q])}
  BY <1>1
<1>3. QED
  BY <1>2, Zenon DEF TotalInitializer

(* Loading a profile between two operations keeps the counters fitting.    *)
LEMMA LoadFits ==
  ASSUME TypeOK, Fits(totalIncoming), NEW us \in SUBSET Users, NEW stars,
         stars \in [Users -> SUBSET Requests],
         \A u \in us : ~RecountDrifts(u, rr, stars)
  PROVE  /\ Load(totalIncoming, us, rr, stars) \in [Users -> Int \cup {Null}]
         /\ Fits(Load(totalIncoming, us, rr, stars))
<1>1. Load(totalIncoming, us, rr, stars) \in [Users -> Int \cup {Null}]
  BY LoadIntOrNull DEF TypeOK
<1>2. ASSUME NEW u \in Users, Load(totalIncoming, us, rr, stars)[u] # Null
      PROVE  Load(totalIncoming, us, rr, stars)[u] = Cardinality(ToUser(u))
  <2>1. CASE u \in us /\ totalIncoming[u] = Null
    <3>1. Load(totalIncoming, us, rr, stars)[u] = TotalInitializer(u, rr, stars)
      BY <2>1 DEF Load
    <3>2. TotalInitializer(u, rr, stars) =
            Cardinality({q \in Requests : Listed(q, rr) /\ u \in Reviewers(rr[q])})
      BY <2>1, LoadCounts
    <3>3. QED
      BY <3>1, <3>2 DEF ToUser
  <2>2. CASE ~(u \in us /\ totalIncoming[u] = Null)
    <3>1. Load(totalIncoming, us, rr, stars)[u] = totalIncoming[u]
      BY <2>2 DEF Load
    <3>2. QED
      BY <1>2, <3>1 DEF Fits
  <2>3. QED
    BY <2>1, <2>2
<1>3. QED
  BY <1>1, <1>2 DEF Fits

(* Where r was listed and where it is now, seen from the totals.           *)
LEMMA TotalTargets ==
  ASSUME NEW r \in Requests, NEW row, NEW new,
         NEW was \in BOOLEAN, NEW is \in BOOLEAN,
         was <=> Listed(r, rr), is <=> Listed(r, rr'),
         was => row.groups = rr[r].groups /\ row.people = rr[r].people,
         is => new.groups = rr'[r].groups /\ new.people = rr'[r].people,
         UNCHANGED members, NEW u \in Users
  PROVE  /\ u \in (IF was THEN Targets(r, row) ELSE NoTargets).all <=> r \in ToUser(u)
         /\ u \in (IF is THEN Targets(r, new) ELSE NoTargets).all <=> r \in ToUser(u)'
<1>1. u \in (IF was THEN Targets(r, row) ELSE NoTargets).all <=> r \in ToUser(u)
  BY DEF Targets, NoTargets, ToUser, Reviewers
<1>2. (r \in ToUser(u))' <=> is /\ u \in new.people \cup UNION {members[g] : g \in new.groups}
  BY DEF ToUser, Reviewers, Listed
<1>3. u \in (IF is THEN Targets(r, new) ELSE NoTargets).all <=>
        is /\ u \in new.people \cup UNION {members[g] : g \in new.groups}
  BY DEF Targets, NoTargets, Reviewers
<1>4. QED
  BY <1>1, <1>2, <1>3

(* So counters that fit and are moved with r still fit.                    *)
LEMMA TotalMoves ==
  ASSUME NEW r \in Requests, OnlyRow(r), UNCHANGED members, NEW from, NEW to,
         \A u \in Users : /\ u \in from.all <=> r \in ToUser(u)
                          /\ u \in to.all <=> r \in ToUser(u)',
         NEW loaded \in [Users -> Int \cup {Null}], Fits(loaded),
         totalIncoming' = Move(loaded, from.all, to.all)
  PROVE  Fits(totalIncoming)'
<1>1. SUFFICES ASSUME NEW u \in Users, totalIncoming'[u] # Null
               PROVE  totalIncoming'[u] = Cardinality(ToUser(u)')
  BY DEF Fits
<1>2. loaded[u] # Null
  BY <1>1, MoveNull
<1>3. totalIncoming'[u] = loaded[u] - (IF u \in from.all THEN 1 ELSE 0)
                                    + (IF u \in to.all THEN 1 ELSE 0)
  BY <1>2, MoveNull
<1>4. loaded[u] = Cardinality(ToUser(u))
  BY <1>2 DEF Fits
<1>5. QED
  BY <1>3, <1>4, TotalQuery

(* With no one to add to, or no one to take from, a move is one update.    *)
LEMMA HalfMove ==
  ASSUME NEW c \in [Users -> Int \cup {Null}], NEW S
  PROVE  /\ Move(c, S, {}) = Add(c, S, -1)
         /\ Move(c, {}, S) = Add(c, S, 1)
<1>1. \A d \in [Users -> Int \cup {Null}], n \in Int : Add(d, {}, n) = d
  BY DEF Add
<1>2. Add(c, S, -1) \in [Users -> Int \cup {Null}]
  BY AddIntOrNull
<1>3. QED
  BY <1>1, <1>2 DEF Move
(* Publishing: whoever gives the review request away and has a total that  *)
(* waits is counted from the row in the middle of the publication, where   *)
(* either r is not listed or he is not one of its new reviewers.           *)
LEMMA PublishTotals ==
  ASSUME TypeOK, NEW r \in Requests, NEW validate \in BOOLEAN,
         Publish(r, validate), Fits(totalIncoming), NoDrift'
  PROVE  Fits(totalIncoming)'
<1> DEFINE row  == rr[r]
           new  == Published(row)
           mid  == [rr EXCEPT ![r] = DraftPublished(row)]
           gone == {row.submitter} \ {new.submitter}
           next == NextOwner(row)
           was  == row.public
           is   == row.status = Pending
           from == IF was THEN Targets(r, row) ELSE NoTargets
           to   == IF is THEN Targets(r, new) ELSE NoTargets
           load == Load(totalIncoming, {next}, rr, starred)
           left == Add(load, from.all, -1)
           last == Load(left, gone, mid, starred)
<1>1. row \in Row /\ row # NoRow
  BY LiveRow DEF Publish, Live
<1>2. /\ new \in Row /\ new.status = row.status /\ new.public /\ new # NoRow
      /\ DraftPublished(row) \in Row /\ DraftPublished(row) # NoRow
      /\ DraftPublished(row).status = row.status
      /\ Reviewers(new) = Reviewers(DraftPublished(row))
  <2>1. /\ new \in Row /\ new.status = row.status /\ new.public
        /\ DraftPublished(row) \in Row /\ DraftPublished(row).status = row.status
    BY <1>1, PublishedType, DraftPublishedType
  <2>2. /\ new.people = DraftPublished(row).people
        /\ new.groups = DraftPublished(row).groups
    BY <1>1, <2>1 DEF Published, Row
  <2>3. QED
    BY <2>1, <2>2, ConstantsAssumption DEF Reviewers
<1>3. rr'[r] = new /\ \A q \in Requests \ {r} : rr'[q] = rr[q]
  BY <1>2, StoreType DEF Publish
<1>4. /\ totalIncoming' = Add(last, to.all, 1)
      /\ UNCHANGED members /\ UNCHANGED starred
  BY DEF Publish, people
<1>5. /\ was => is
      /\ ~RecountDrifts(next, rr, starred)
      /\ \A u \in gone : ~RecountDrifts(u, mid, starred)
      /\ \A u \in gone : ~(totalIncoming[u] = Null /\ Listed(r, mid)
                             /\ u \in Reviewers(new))
  BY DEF Publish, Cause, NoDrift
<1>6. /\ was \in BOOLEAN /\ (was <=> Listed(r, rr))
      /\ is \in BOOLEAN /\ (is <=> Listed(r, rr'))
  BY <1>1, <1>2, <1>3, <1>5 DEF Listed, Row
<1>7. next \in Users
  BY <1>1 DEF NextOwner, Row, Draft
<1>8. load \in [Users -> Int \cup {Null}] /\ Fits(load)
  BY <1>5, <1>7, LoadFits DEF TypeOK
<1>9. left \in [Users -> Int \cup {Null}]
  BY <1>8, AddIntOrNull
<1>10. last \in [Users -> Int \cup {Null}]
  BY <1>9, LoadIntOrNull
<1>11. OnlyRow(r)
  BY MovesOnlyRow
<1>12. /\ mid[r] = DraftPublished(row)
       /\ \A q \in Requests \ {r} : mid[q] = rr[q]
  BY DEF TypeOK
<1>13. ASSUME NEW u \in Users
       PROVE  /\ u \in from.all <=> r \in ToUser(u)
              /\ u \in to.all <=> r \in ToUser(u)'
  <2> HIDE DEF was, is, new
  <2>1. QED
    BY <1>3, <1>4, <1>6, TotalTargets
<1> HIDE DEF row, new, mid, gone, next, was, is, from, to,
             load, left, last
<1>14. SUFFICES ASSUME NEW u \in Users, totalIncoming'[u] # Null
                PROVE  totalIncoming'[u] = Cardinality(ToUser(u)')
  BY DEF Fits
<1>15. /\ last[u] # Null
       /\ totalIncoming'[u] = IF u \in to.all THEN last[u] + 1 ELSE last[u]
  BY <1>4, <1>10, <1>14, AddNull
<1>16. CASE left[u] # Null \/ u \notin gone
  <2>1. last[u] = left[u]
    BY <1>16 DEF Load, last
  <2>2. load[u] # Null /\ left[u] = IF u \in from.all THEN load[u] + (-1) ELSE load[u]
    BY <1>8, <1>15, <2>1, AddNull DEF left
  <2>3. load[u] = Cardinality(ToUser(u))
    BY <1>8, <2>2 DEF Fits
  <2>4. QED
    BY <1>4, <1>11, <1>13, <1>15, <2>1, <2>2, <2>3, TotalQuery
<1>17. CASE left[u] = Null /\ u \in gone
  <2> DEFINE M == {q \in Requests : Listed(q, mid) /\ u \in Reviewers(mid[q])}
  <2>1. load[u] = Null
    BY <1>8, <1>17, AddNull DEF left
  <2>2. totalIncoming[u] = Null
    BY <2>1 DEF Load, load
  <2>3. last[u] = TotalInitializer(u, mid, starred)
    BY <1>17 DEF Load, last
  <2>4. last[u] = Cardinality(M)
    BY <1>5, <1>17, <2>2, <2>3, LoadCounts DEF TypeOK
  <2>5. r \notin M
    BY <1>2, <1>5, <1>12, <1>17, <2>2
  <2>6. M \ {r} = ToUser(u)' \ {r}
    BY <1>3, <1>4, <1>12 DEF ToUser, Listed, Reviewers
  <2>7. M \in SUBSET Requests /\ ToUser(u)' \in SUBSET Requests
    BY DEF ToUser
  <2> HIDE DEF M
  <2>8. /\ Cardinality(M) \in Int
        /\ Cardinality(ToUser(u)') = Cardinality(M) - (IF r \in M THEN 1 ELSE 0)
                                       + (IF r \in ToUser(u)' THEN 1 ELSE 0)
    BY <2>6, <2>7, CountChange
  <2>9. QED
    BY <1>13, <1>15, <2>4, <2>5, <2>8
<1>18. QED
  BY <1>16, <1>17
(* A publication that fails takes the old reviewers' totals and gives the  *)
(* new reviewers theirs.                                                   *)
LEMMA PublishFailsTotals ==
  ASSUME TypeOK, NEW r \in Requests, PublishFails(r), Fits(totalIncoming), NoDrift'
  PROVE  Fits(totalIncoming)'
<1> DEFINE row == rr[r]
           new == [row EXCEPT !.people = row.draft.people,
                              !.groups = row.draft.groups]
           was == row.public
           from == IF was THEN Targets(r, row) ELSE NoTargets
           to   == IF was THEN Targets(r, new) ELSE NoTargets
           load == Load(totalIncoming, {NextOwner(row)}, rr, starred)
<1>1. row \in Row /\ row # NoRow
  BY LiveRow DEF PublishFails, Live
<1>2. /\ new \in Row /\ new # NoRow
      /\ new.status = row.status /\ new.public = row.public
  BY <1>1, LiveRow, ConstantsAssumption DEF PublishFails, Row, Draft
<1>3. rr'[r] = new
  BY <1>2, StoreType DEF PublishFails
<1>4. was => row.status = Pending
  BY DEF PublishFails, Cause, NoDrift
<1>5. was \in BOOLEAN /\ (was <=> Listed(r, rr)) /\ (was <=> Listed(r, rr'))
  BY <1>1, <1>2, <1>3, <1>4 DEF Listed, Row
<1>6. UNCHANGED members /\ totalIncoming' = Move(load, from.all, to.all)
  BY DEF PublishFails, people
<1>7. load \in [Users -> Int \cup {Null}] /\ Fits(load)
  <2>1. NextOwner(row) \in Users
    BY <1>1 DEF NextOwner, Row, Draft
  <2>2. ~RecountDrifts(NextOwner(row), rr, starred)
    BY DEF PublishFails, Cause, NoDrift
  <2>3. QED
    BY <2>1, <2>2, LoadFits DEF TypeOK
<1>8. OnlyRow(r)
  BY MovesOnlyRow
<1> HIDE DEF was, new, load
<1>9. \A u \in Users : /\ u \in from.all <=> r \in ToUser(u)
                       /\ u \in to.all <=> r \in ToUser(u)'
  BY <1>3, <1>5, <1>6, TotalTargets
<1> HIDE DEF from, to
<1>10. QED
  BY <1>6, <1>7, <1>8, <1>9, TotalMoves

(* Closing takes r from the totals of those it reached.                    *)
LEMMA CloseTotals ==
  ASSUME TypeOK, NEW r \in Requests, NEW type \in {Submitted, Discarded},
         Close(r, type), Fits(totalIncoming), NoDrift'
  PROVE  Fits(totalIncoming)'
<1> DEFINE row == rr[r]
           new == [ClosingRow(row, type) EXCEPT !.status    = type,
                                                !.closeInfo = type,
                                                !.draft     = NoDraft]
           was == row.status = Pending /\ row.public
           from == IF was THEN Targets(r, new) ELSE NoTargets
           load == Load(totalIncoming, {new.submitter}, rr, starred)
<1>1. row \in Row /\ row # NoRow
  BY LiveRow DEF Close, Live
<1>2. /\ ClosingRow(row, type) \in Row
      /\ row.public => ClosingRow(row, type) = row
  BY <1>1, ClosingRowType
<1>3. /\ new.status = type /\ new \in Row
      /\ row.public => new.groups = row.groups /\ new.people = row.people
  BY <1>1, <1>2 DEF Row, Statuses, CloseInfos
<1>4. rr'[r] = new
  BY <1>3, StoreType DEF Close
<1>5. was \in BOOLEAN /\ (was <=> Listed(r, rr)) /\ ~Listed(r, rr')
  BY <1>1, <1>3, <1>4 DEF Listed, Row, Pending, Submitted, Discarded
<1>6. UNCHANGED members /\ totalIncoming' = Add(load, from.all, -1)
  BY DEF Close, people
<1>7. load \in [Users -> Int \cup {Null}] /\ Fits(load)
  <2>1. ~RecountDrifts(new.submitter, rr, starred)
    BY DEF Close, Cause, NoDrift
  <2>2. new.submitter \in Users
    BY <1>3 DEF Row
  <2> HIDE DEF new
  <2>3. QED
    BY <2>1, <2>2, LoadFits DEF TypeOK
<1>8. OnlyRow(r)
  BY MovesOnlyRow
<1>9. was => new.groups = row.groups /\ new.people = row.people
  BY <1>3
<1> DEFINE to == IF FALSE THEN Targets(r, new) ELSE NoTargets
<1> HIDE DEF was, new, load
<1>10. \A u \in Users : /\ u \in from.all <=> r \in ToUser(u)
                        /\ u \in to.all <=> r \in ToUser(u)'
  BY <1>5, <1>6, <1>9, TotalTargets
<1>11. to.all = {}
  BY DEF NoTargets
<1> HIDE DEF from, to
<1>12. totalIncoming' = Move(load, from.all, to.all)
  BY <1>6, <1>7, <1>11, HalfMove
<1>13. QED
  BY <1>6, <1>7, <1>8, <1>10, <1>12, TotalMoves

(* Reopening what was submitted adds r to them again.                      *)
LEMMA ReopenTotals ==
  ASSUME TypeOK, NEW r \in Requests, Reopen(r), Fits(totalIncoming), NoDrift'
  PROVE  Fits(totalIncoming)'
<1> DEFINE row   == rr[r]
           draft == IF row.draft = NoDraft
                    THEN NewDraft(row, "reopened")
                    ELSE [row.draft EXCEPT !.changedesc = "reopened"]
           new   == IF row.status = Discarded
                    THEN [row EXCEPT !.status = Pending, !.public = FALSE,
                                     !.draft = draft]
                    ELSE [row EXCEPT !.status = Pending, !.closeInfo = "none"]
           is    == new.public
           from  == IF FALSE THEN Targets(r, row) ELSE NoTargets
           to    == IF is THEN Targets(r, new) ELSE NoTargets
           load  == Load(totalIncoming, {row.submitter}, rr, starred)
<1>1. row \in Row /\ row.status # Pending
  BY LiveRow DEF Reopen
<1>2. rr'[r] = new
  BY DEF Reopen, Store, TypeOK
<1>3. new.status = Pending /\ new.public \in BOOLEAN
  BY <1>1 DEF Row
<1>4. new # NoRow
  <2>1. [row EXCEPT !.status = Pending, !.closeInfo = "none"] \in Row
    BY <1>1 DEF Row, Statuses, CloseInfos
  <2>2. draft \in Draft
    BY <1>1, NewDraftType DEF Row, Draft, ChangeDescs
  <2> HIDE DEF draft
  <2>3. [row EXCEPT !.status = Pending, !.public = FALSE, !.draft = draft] \in Row
    BY <1>1, <2>2 DEF Row, Statuses
  <2>4. QED
    BY <2>1, <2>3, ConstantsAssumption
<1>5. is \in BOOLEAN /\ (is <=> Listed(r, rr')) /\ ~Listed(r, rr)
  BY <1>1, <1>2, <1>3, <1>4 DEF Listed
<1>6. UNCHANGED members /\ totalIncoming' = Add(load, to.all, 1)
  BY DEF Reopen, people
<1>7. load \in [Users -> Int \cup {Null}] /\ Fits(load)
  <2>1. ~RecountDrifts(row.submitter, rr, starred)
    BY DEF Reopen, Cause, NoDrift
  <2>2. row.submitter \in Users
    BY <1>1 DEF Row
  <2>3. QED
    BY <2>1, <2>2, LoadFits DEF TypeOK
<1>8. OnlyRow(r)
  BY MovesOnlyRow
<1> HIDE DEF is, new, load
<1>9. \A u \in Users : /\ u \in from.all <=> r \in ToUser(u)
                       /\ u \in to.all <=> r \in ToUser(u)'
  BY <1>2, <1>5, <1>6, TotalTargets
<1>10. from.all = {}
  BY DEF NoTargets
<1> HIDE DEF from, to
<1>11. totalIncoming' = Move(load, from.all, to.all)
  BY <1>6, <1>7, <1>10, HalfMove
<1>12. QED
  BY <1>6, <1>7, <1>8, <1>9, <1>11, TotalMoves

(* Deleting takes r from the totals of those it reached.                   *)
LEMMA DeleteTotals ==
  ASSUME TypeOK, NEW r \in Requests, Delete(r), Fits(totalIncoming), NoDrift'
  PROVE  Fits(totalIncoming)'
<1> DEFINE row == rr[r]
           was == row.status = Pending /\ row.public
           from == IF was THEN Targets(r, row) ELSE NoTargets
           to   == IF FALSE THEN Targets(r, row) ELSE NoTargets
           load == Load(totalIncoming, {row.submitter}, rr, starred)
<1>1. row \in Row /\ row # NoRow
  BY LiveRow DEF Delete, Live
<1>2. rr'[r] = NoRow
  BY DEF Delete, TypeOK
<1>3. was \in BOOLEAN /\ (was <=> Listed(r, rr)) /\ ~Listed(r, rr')
  BY <1>1, <1>2 DEF Listed, Row
<1>4. UNCHANGED members /\ totalIncoming' = Add(load, from.all, -1)
  BY DEF Delete
<1>5. load \in [Users -> Int \cup {Null}] /\ Fits(load)
  <2>1. ~RecountDrifts(row.submitter, rr, starred)
    BY DEF Delete, Cause, NoDrift
  <2>2. row.submitter \in Users
    BY <1>1 DEF Row
  <2>3. QED
    BY <2>1, <2>2, LoadFits DEF TypeOK
<1>6. OnlyRow(r)
  BY MovesOnlyRow
<1> HIDE DEF was, load
<1>7. \A u \in Users : /\ u \in from.all <=> r \in ToUser(u)
                       /\ u \in to.all <=> r \in ToUser(u)'
  BY <1>3, <1>4, TotalTargets
<1>8. to.all = {}
  BY DEF NoTargets
<1> HIDE DEF from, to
<1>9. totalIncoming' = Move(load, from.all, to.all)
  BY <1>4, <1>5, <1>8, HalfMove
<1>10. QED
  BY <1>4, <1>5, <1>6, <1>7, <1>9, TotalMoves
(* What no query looks at leaves the totals to the loads.                  *)
LEMMA SameTotals ==
  ASSUME NEW r \in Requests, \A q \in Requests \ {r} : rr'[q] = rr[q],
         SameListing(r), UNCHANGED members, NEW c, Fits(c), totalIncoming' = c
  PROVE  Fits(totalIncoming)'
<1>1. ASSUME NEW q \in Requests
      PROVE  /\ Listed(q, rr') <=> Listed(q, rr)
             /\ Listed(q, rr) => /\ rr'[q].groups = rr[q].groups
                                 /\ rr'[q].people = rr[q].people
  <2>1. CASE q = r
    BY <2>1 DEF SameListing
  <2>2. CASE q # r
    BY <2>2 DEF Listed
  <2>3. QED
    BY <2>1, <2>2
<1>2. \A u \in Users : ToUser(u)' = ToUser(u)
  BY <1>1 DEF ToUser, Reviewers
<1>3. QED
  BY <1>2 DEF Fits

(* Drafts, close descriptions and new review requests; the creation loads  *)
(* the profile of the owner.                                               *)
LEMMA UnlistedTotals ==
  ASSUME TypeOK, NEW r \in Requests, Unlisted(r), Fits(totalIncoming), NoDrift'
  PROVE  Fits(totalIncoming)'
<1>1. SameListing(r) /\ (\A q \in Requests \ {r} : rr'[q] = rr[q])
  BY UnlistedSame
<1>2. UNCHANGED members
  BY DEF Unlisted, Create, EditDraft, DiscardDraft, CloseFails, CloseAgain, people
<1>3. CASE \E u \in Users : Create(r, u)
  <2>1. PICK u \in Users : Create(r, u)
    BY <1>3
  <2>2. ~RecountDrifts(u, rr, starred)
    BY <2>1 DEF Create, Cause, NoDrift
  <2>3. Fits(Load(totalIncoming, {u}, rr, starred))
    BY <2>2, LoadFits DEF TypeOK
  <2>4. totalIncoming' = Load(totalIncoming, {u}, rr, starred)
    BY <2>1 DEF Create
  <2>5. QED
    BY <1>1, <1>2, <2>3, <2>4, SameTotals
<1>4. CASE EditDraft(r) \/ DiscardDraft(r) \/ CloseFails(r) \/ CloseAgain(r)
  <2>1. UNCHANGED totalIncoming
    BY <1>4 DEF EditDraft, DiscardDraft, CloseFails, CloseAgain, incoming
  <2>2. QED
    BY <1>1, <1>2, <2>1, SameTotals
<1>5. QED
  BY <1>3, <1>4 DEF Unlisted

(* Starring loads the profile, with the stars as they are then.            *)
LEMMA SetStarTotals ==
  ASSUME TypeOK, TypeOK', NEW u \in Users, NEW r \in Requests,
         Star(u, r) \/ Unstar(u, r), Fits(totalIncoming), NoDrift'
  PROVE  Fits(totalIncoming)'
<1>1. UNCHANGED <<rr, members>>
  BY DEF Star, Unstar, SetStar
<1>2. SameListing(r) /\ \A q \in Requests \ {r} : rr'[q] = rr[q]
  BY <1>1 DEF SameListing
<1>3. CASE Starrable(rr[r])
  <2>1. /\ totalIncoming' = Load(totalIncoming, {u}, rr, starred')
        /\ ~RecountDrifts(u, rr, starred')
    BY <1>3 DEF Star, Unstar, SetStar, Cause, NoDrift
  <2>2. starred' \in [Users -> SUBSET Requests]
    BY DEF TypeOK
  <2>3. Fits(Load(totalIncoming, {u}, rr, starred'))
    BY <2>1, <2>2, LoadFits
  <2>4. QED
    BY <1>1, <1>2, <2>1, <2>3, SameTotals
<1>4. CASE ~Starrable(rr[r])
  <2>1. UNCHANGED totalIncoming
    BY <1>4 DEF Star, Unstar, SetStar
  <2>2. QED
    BY <1>1, <1>2, <2>1, SameTotals
<1>5. QED
  BY <1>3, <1>4

(* Joining and leaving a group changes what reaches one user, whose total  *)
(* waits from then on; loading a profile ends the wait.                    *)
LEMMA UserTotals ==
  ASSUME TypeOK, NEW u \in Users, UserNext(u), Fits(totalIncoming), NoDrift'
  PROVE  Fits(totalIncoming)'
<1>1. ASSUME NEW g \in Groups, Join(g, u) \/ Leave(g, u)
      PROVE  Fits(totalIncoming)'
  <2>1. PICK users \in {members[g] \cup {u}, members[g] \ {u}} :
          /\ rr' = rr
          /\ members' = [members EXCEPT ![g] = users]
          /\ totalIncoming' = [totalIncoming EXCEPT ![u] = Null]
    <3>1. CASE Join(g, u)
      BY <3>1 DEF Join, SetMembers
    <3>2. CASE Leave(g, u)
      BY <3>2 DEF Leave, SetMembers
    <3>3. QED
      BY <1>1, <3>1, <3>2
  <2>2. SUFFICES ASSUME NEW v \in Users, totalIncoming'[v] # Null
                 PROVE  totalIncoming'[v] = Cardinality(ToUser(v)')
    BY DEF Fits
  <2>3. v # u /\ totalIncoming'[v] = totalIncoming[v]
    BY <2>1, <2>2 DEF TypeOK
  <2>4. \A h \in Groups : v \in members'[h] <=> v \in members[h]
    BY <2>1, <2>3 DEF TypeOK
  <2>5. ASSUME NEW q \in Requests, Listed(q, rr)
        PROVE  v \in Reviewers(rr[q])' <=> v \in Reviewers(rr[q])
    <3>1. rr[q].groups \in SUBSET Groups
      BY <2>5 DEF Listed, TypeOK, Row
    <3>2. QED
      BY <2>1, <2>4, <3>1 DEF Reviewers
  <2>6. ToUser(v)' = ToUser(v)
    BY <2>1, <2>5 DEF ToUser, Listed
  <2>7. QED
    BY <2>2, <2>3, <2>6 DEF Fits
<1>2. CASE LoadProfile(u)
  <2>1. /\ totalIncoming' = Load(totalIncoming, {u}, rr, starred)
        /\ ~RecountDrifts(u, rr, starred)
        /\ UNCHANGED <<rr, members>>
    BY <1>2 DEF LoadProfile, Cause, NoDrift, people
  <2>2. Fits(Load(totalIncoming, {u}, rr, starred))
    BY <2>1, LoadFits DEF TypeOK
  <2>3. \A v \in Users : ToUser(v)' = ToUser(v)
    BY <2>1 DEF ToUser, Listed, Reviewers
  <2>4. QED
    BY <2>1, <2>2, <2>3 DEF Fits
<1>3. QED
  BY <1>1, <1>2 DEF UserNext

(* The total of a user is NULL or the number of open public review         *)
(* requests that reach him, through publications that fail, changes of     *)
(* owner, discards, reopenings, and members who come and go, for any       *)
(* number of review requests, users and groups.                            *)
THEOREM TotalIncomingCorrect == Spec => []TotalIncomingExact
<1>1. Init => TotalIncomingExact
  <2> SUFFICES ASSUME Init PROVE TotalIncomingExact
    OBVIOUS
  <2>1. \A u \in Users : ToUser(u) = {}
    BY DEF Init, ToUser, Listed
  <2>2. QED
    BY <2>1, FS_EmptySet DEF Init, TotalIncomingExact
<1>2. ASSUME TypeOK, TypeOK', TotalIncomingExact, [Next]_vars
      PROVE  TotalIncomingExact'
  <2>1. drift \subseteq drift'
    BY <1>2, DriftGrows
  <2>2. SUFFICES ASSUME NoDrift' PROVE Fits(totalIncoming)'
    BY DEF TotalIncomingExact, Without, NoDrift, Fits
  <2>3. Fits(totalIncoming)
    BY <1>2, <2>1, <2>2 DEF TotalIncomingExact, Without, NoDrift, Fits
  <2>4. ASSUME NEW r \in Requests, RequestNext(r)
        PROVE  Fits(totalIncoming)'
    <3>1. CASE \E u \in Users : Star(u, r) \/ Unstar(u, r)
      BY <1>2, <2>2, <2>3, <3>1, SetStarTotals
    <3>2. CASE Unlisted(r)
      BY <1>2, <2>2, <2>3, <3>2, UnlistedTotals
    <3>3. CASE \E validate \in BOOLEAN : Publish(r, validate)
      BY <1>2, <2>2, <2>3, <3>3, PublishTotals
    <3>4. CASE PublishFails(r)
      BY <1>2, <2>2, <2>3, <3>4, PublishFailsTotals
    <3>5. CASE \E type \in {Submitted, Discarded} : Close(r, type)
      BY <1>2, <2>2, <2>3, <3>5, CloseTotals
    <3>6. CASE Reopen(r)
      BY <1>2, <2>2, <2>3, <3>6, ReopenTotals
    <3>7. CASE Delete(r)
      BY <1>2, <2>2, <2>3, <3>7, DeleteTotals
    <3>8. QED
      BY <2>4, <3>1, <3>2, <3>3, <3>4, <3>5, <3>6, <3>7 DEF RequestNext, Unlisted
  <2>5. CASE \E u \in Users : UserNext(u)
    BY <1>2, <2>2, <2>3, <2>5, UserTotals
  <2>6. CASE UNCHANGED vars
    BY <2>3, <2>6 DEF vars, incoming, people, Fits, ToUser, Listed, Reviewers
  <2>7. QED
    BY <1>2, <2>4, <2>5, <2>6 DEF Next
<1>3. QED
  BY <1>1, <1>2, TypeCorrect, PTL DEF Spec

(***************************************************************************)
(* ReviewRequest implements ReviewRequestLifecycle, and its drafts and     *)
(* close descriptions fit the place in the lifecycle where they are read.  *)
(***************************************************************************)

(* What an operation may do to the row of r.                               *)
NewRow(r, new) ==
  /\ Live(r)
  /\ new \in Row
  /\ Store(r, new)

(* Editing stores a draft with the change description that fits.           *)
LEMMA EditDraftRow ==
  ASSUME TypeOK, NEW r \in Requests, EditDraft(r)
  PROVE  \E new : /\ NewRow(r, new)
                  /\ new.status = rr[r].status
                  /\ new.public = rr[r].public
                  /\ new.closeInfo = rr[r].closeInfo
                  /\ new.draft # NoDraft
                  /\ new.draft.changedesc =
                       IF rr[r].draft # NoDraft THEN rr[r].draft.changedesc
                       ELSE IF rr[r].public THEN "empty" ELSE "none"
<1> DEFINE row   == rr[r]
           desc  == IF row.public THEN "empty" ELSE "none"
           draft == IF row.draft = NoDraft THEN NewDraft(row, desc) ELSE row.draft
<1>1. Live(r) /\ row \in Row
  BY LiveRow DEF EditDraft
<1>2. desc \in ChangeDescs
  BY DEF ChangeDescs
<1>3. PICK d \in Edits(draft) : Store(r, [row EXCEPT !.draft = d])
  BY DEF EditDraft
<1> HIDE DEF desc
<1>4. /\ draft \in Draft
      /\ draft.changedesc = IF row.draft # NoDraft THEN row.draft.changedesc ELSE desc
  <2>1. CASE row.draft = NoDraft
    BY <1>1, <1>2, <2>1, NewDraftType
  <2>2. CASE row.draft # NoDraft
    BY <1>1, <2>2 DEF Row
  <2>3. QED
    BY <2>1, <2>2
<1> HIDE DEF draft
<1>5. d \in Draft /\ d.changedesc = draft.changedesc
  BY <1>3, <1>4, EditsType
<1> DEFINE new == [row EXCEPT !.draft = d]
<1>6. /\ new \in Row /\ new.status = row.status /\ new.public = row.public
      /\ new.closeInfo = row.closeInfo /\ new.draft = d /\ d # NoDraft
  BY <1>1, <1>5, ConstantsAssumption DEF Row
<1>7. QED
  BY <1>1, <1>3, <1>4, <1>5, <1>6 DEF NewRow, desc

(* Closing leaves a public flag, the new status and no draft.              *)
LEMMA CloseRow ==
  ASSUME TypeOK, NEW r \in Requests, NEW type \in {Submitted, Discarded},
         Close(r, type)
  PROVE  \E new : /\ NewRow(r, new)
                  /\ new.status = type
                  /\ new.public = rr[r].public
                  /\ new.closeInfo = type
                  /\ new.draft = NoDraft
<1> DEFINE closing == ClosingRow(rr[r], type)
           new == [closing EXCEPT !.status    = type,
                                  !.closeInfo = type,
                                  !.draft     = NoDraft]
<1>1. Live(r) /\ Store(r, new)
  BY DEF Close
<1>2. closing \in Row /\ closing.public = rr[r].public
  BY <1>1, LiveRow, ClosingRowType
<1>3. type \in Statuses /\ type \in CloseInfos
  BY DEF Statuses, CloseInfos
<1> HIDE DEF closing
<1>4. /\ new \in Row /\ new.status = type /\ new.public = rr[r].public
      /\ new.closeInfo = type /\ new.draft = NoDraft
  BY <1>2, <1>3 DEF Row
<1>5. QED
  BY <1>1, <1>4 DEF NewRow

(* Reopening what was discarded leaves a private one whose draft says so.  *)
LEMMA ReopenRow ==
  ASSUME TypeOK, NEW r \in Requests, Reopen(r)
  PROVE  \E new : /\ NewRow(r, new)
                  /\ rr[r].status # Pending
                  /\ new.status = Pending
                  /\ IF rr[r].status = Discarded
                     THEN /\ ~new.public
                          /\ new.draft # NoDraft
                          /\ new.draft.changedesc = "reopened"
                     ELSE /\ new.public = rr[r].public
                          /\ new.draft = rr[r].draft
<1> DEFINE row   == rr[r]
           draft == IF row.draft = NoDraft
                    THEN NewDraft(row, "reopened")
                    ELSE [row.draft EXCEPT !.changedesc = "reopened"]
           new   == IF row.status = Discarded
                    THEN [row EXCEPT !.status = Pending, !.public = FALSE,
                                     !.draft = draft]
                    ELSE [row EXCEPT !.status = Pending, !.closeInfo = "none"]
<1>1. Live(r) /\ row \in Row /\ row.status # Pending
  BY LiveRow DEF Reopen
<1>2. Store(r, new)
  BY DEF Reopen
<1>3. draft \in Draft /\ draft # NoDraft /\ draft.changedesc = "reopened"
  <2>1. "reopened" \in ChangeDescs
    BY DEF ChangeDescs
  <2>2. CASE row.draft = NoDraft
    BY <1>1, <2>1, <2>2, NewDraftType, ConstantsAssumption
  <2>3. CASE row.draft # NoDraft
    BY <1>1, <2>1, <2>3, ConstantsAssumption DEF Row, Draft
  <2>4. QED
    BY <2>2, <2>3
<1> HIDE DEF draft
<1>4. CASE row.status = Discarded
  <2>1. /\ new \in Row /\ new.status = Pending /\ ~new.public
        /\ new.draft = draft
    BY <1>1, <1>3, <1>4 DEF Row, Statuses
  <2>2. QED
    BY <1>1, <1>2, <1>3, <1>4, <2>1 DEF NewRow
<1>5. CASE row.status # Discarded
  <2>1. /\ new \in Row /\ new.status = Pending /\ new.public = row.public
        /\ new.draft = row.draft
    BY <1>1, <1>5 DEF Row, Statuses, CloseInfos
  <2>2. QED
    BY <1>1, <1>2, <1>5, <2>1 DEF NewRow
<1>6. QED
  BY <1>4, <1>5

(* A publication that fails changes who reviews, and nothing else.         *)
LEMMA PublishFailsRow ==
  ASSUME TypeOK, NEW r \in Requests, PublishFails(r)
  PROVE  \E new : /\ NewRow(r, new)
                  /\ new.status = rr[r].status
                  /\ new.public = rr[r].public
                  /\ new.closeInfo = rr[r].closeInfo
                  /\ new.draft = rr[r].draft
<1> DEFINE new == [rr[r] EXCEPT !.people = rr[r].draft.people,
                                !.groups = rr[r].draft.groups]
<1>1. Live(r) /\ Store(r, new)
  BY DEF PublishFails
<1>2. /\ new \in Row /\ new.status = rr[r].status /\ new.public = rr[r].public
      /\ new.closeInfo = rr[r].closeInfo /\ new.draft = rr[r].draft
  BY <1>1, LiveRow DEF PublishFails, Row, Draft
<1>3. QED
  BY <1>1, <1>2 DEF NewRow

(* Publishing: PublishedType tells what it stores.                         *)
LEMMA PublishRow ==
  ASSUME TypeOK, NEW r \in Requests, NEW validate, Publish(r, validate)
  PROVE  NewRow(r, Published(rr[r]))
  BY LiveRow, PublishedType DEF Publish, NewRow

(* Throwing a draft away.                                                  *)
LEMMA DraftlessRow ==
  ASSUME TypeOK, NEW r \in Requests, DiscardDraft(r) \/ CloseAgain(r)
  PROVE  \E new : /\ NewRow(r, new)
                  /\ new.status = rr[r].status
                  /\ new.public = rr[r].public
                  /\ new.closeInfo = rr[r].closeInfo
                  /\ new.draft = NoDraft
<1> DEFINE new == [rr[r] EXCEPT !.draft = NoDraft]
<1>1. Live(r) /\ Store(r, new)
  BY DEF DiscardDraft, CloseAgain
<1>2. /\ new \in Row /\ new.status = rr[r].status /\ new.public = rr[r].public
      /\ new.closeInfo = rr[r].closeInfo /\ new.draft = NoDraft
  BY <1>1, LiveRow DEF Row
<1>3. QED
  BY <1>1, <1>2 DEF NewRow

(* A closing that fails has only written its description.                  *)
LEMMA CloseFailsRow ==
  ASSUME TypeOK, NEW r \in Requests, CloseFails(r)
  PROVE  \E new : /\ NewRow(r, new)
                  /\ new.status = rr[r].status
                  /\ new.public = rr[r].public
                  /\ new.draft = rr[r].draft
<1> DEFINE new == [rr[r] EXCEPT !.closeInfo = Submitted]
<1>1. Live(r) /\ Store(r, new)
  BY DEF CloseFails
<1>2. /\ new \in Row /\ new.status = rr[r].status /\ new.public = rr[r].public
      /\ new.draft = rr[r].draft
  BY <1>1, LiveRow DEF Row, CloseInfos
<1>3. QED
  BY <1>1, <1>2 DEF NewRow

(* A new review request is pending and private, and so is its draft.       *)
LEMMA CreateRow ==
  ASSUME TypeOK, NEW r \in Requests, NEW u \in Users, Create(r, u)
  PROVE  \E new \in Row : /\ rr[r] = NoRow
                          /\ Store(r, new)
                          /\ new.status = Pending
                          /\ ~new.public
                          /\ new.draft # NoDraft
                          /\ new.draft.changedesc = "none"
<1> DEFINE row == [status |-> Pending, public |-> FALSE, submitter |-> u,
                   people |-> {}, groups |-> {}, text |-> Blank,
                   closeInfo |-> "none", draft |-> NoDraft]
           new == [row EXCEPT !.draft = NewDraft(row, "none")]
<1>1. row \in Row
  BY ConstantsAssumption DEF Row, Statuses, CloseInfos
<1>2. NewDraft(row, "none") \in Draft /\ NewDraft(row, "none").changedesc = "none"
  BY <1>1, NewDraftType DEF ChangeDescs
<1>3. /\ new \in Row /\ new.status = Pending /\ ~new.public
      /\ new.draft = NewDraft(row, "none")
  BY <1>1, <1>2 DEF Row
<1>4. rr[r] = NoRow /\ Store(r, new)
  BY DEF Create, Live
<1>5. QED
  BY <1>2, <1>3, <1>4, ConstantsAssumption

(***************************************************************************)
(* Drafts and close descriptions.                                          *)
(***************************************************************************)

(* The change description of a draft fits its review request.              *)
DraftFits(row) ==
  row.draft # NoDraft =>
    CASE row.draft.changedesc = "none"     -> ~row.public
      [] row.draft.changedesc = "empty"    -> row.public
      [] row.draft.changedesc = "reopened" -> ~row.public /\ row.status = Pending

(* The close description is that of the closing.                           *)
CloseFits(row) == row.status # Pending => row.closeInfo = row.status

RowsFit ==
  \A r \in Requests :
    Live(r) => /\ DraftFits(rr[r])
               /\ Without({"closed publish", "failed close"}) => CloseFits(rr[r])

(* A row that fits, stored, leaves a table that fits.                      *)
LEMMA StoreFits ==
  ASSUME TypeOK, RowsFit, NEW r \in Requests, NEW new \in Row, Store(r, new),
         DraftFits(new),
         Without({"closed publish", "failed close"})' => CloseFits(new),
         drift \subseteq drift'
  PROVE  RowsFit'
<1>1. /\ rr'[r] = new
      /\ \A q \in Requests \ {r} : rr'[q] = rr[q]
  BY StoreType
<1>2. Without({"closed publish", "failed close"})'
        => Without({"closed publish", "failed close"})
  BY DEF Without
<1>3. ASSUME NEW q \in Requests, Live(q)'
      PROVE  /\ DraftFits(rr[q])'
             /\ Without({"closed publish", "failed close"})' => CloseFits(rr[q])'
  <2>1. CASE q = r
    BY <1>1, <2>1 DEF DraftFits, CloseFits
  <2>2. CASE q # r
    <3>1. rr'[q] = rr[q] /\ Live(q)
      BY <1>1, <1>3, <2>2 DEF Live
    <3>2. QED
      BY <1>2, <3>1 DEF RowsFit, DraftFits, CloseFits
  <2>3. QED
    BY <2>1, <2>2
<1>4. QED
  BY <1>3 DEF RowsFit

(* Every operation keeps what fits.                                        *)
LEMMA FitsStep ==
  ASSUME TypeOK, RowsFit, NEW r \in Requests, RequestNext(r), drift \subseteq drift'
  PROVE  RowsFit'
<1>1. CASE \E u \in Users : Create(r, u)
  <2>1. PICK u \in Users : Create(r, u)
    BY <1>1
  <2>2. PICK new \in Row : /\ Store(r, new)
                           /\ new.status = Pending
                           /\ ~new.public
                           /\ new.draft # NoDraft
                           /\ new.draft.changedesc = "none"
    BY <2>1, CreateRow
  <2>3. DraftFits(new) /\ CloseFits(new)
    BY <2>2 DEF DraftFits, CloseFits
  <2>4. QED
    BY <2>2, <2>3, StoreFits
<1>2. CASE \E u \in Users : Star(u, r) \/ Unstar(u, r)
  <2>1. UNCHANGED rr
    BY <1>2 DEF Star, Unstar, SetStar
  <2>2. QED
    BY <2>1 DEF RowsFit, Live, DraftFits, CloseFits, Without
<1>3. CASE EditDraft(r)
  <2>1. PICK new : /\ NewRow(r, new)
                   /\ new.status = rr[r].status
                   /\ new.public = rr[r].public
                   /\ new.closeInfo = rr[r].closeInfo
                   /\ new.draft # NoDraft
                   /\ new.draft.changedesc =
                        IF rr[r].draft # NoDraft THEN rr[r].draft.changedesc
                        ELSE IF rr[r].public THEN "empty" ELSE "none"
    BY <1>3, EditDraftRow
  <2>2. /\ DraftFits(rr[r])
        /\ Without({"closed publish", "failed close"}) => CloseFits(rr[r])
    BY <2>1 DEF NewRow, RowsFit
  <2>3. DraftFits(new)
    <3>1. CASE rr[r].draft # NoDraft
      BY <2>1, <2>2, <3>1 DEF DraftFits
    <3>2. CASE rr[r].draft = NoDraft
      BY <2>1, <3>2 DEF DraftFits
    <3>3. QED
      BY <3>1, <3>2
  <2>4. Without({"closed publish", "failed close"})' => CloseFits(new)
    BY <2>1, <2>2 DEF CloseFits, Without
  <2>5. QED
    BY <2>1, <2>3, <2>4, StoreFits DEF NewRow
<1>4. CASE DiscardDraft(r) \/ CloseAgain(r)
  <2>1. PICK new : /\ NewRow(r, new)
                   /\ new.status = rr[r].status
                   /\ new.closeInfo = rr[r].closeInfo
                   /\ new.draft = NoDraft
    BY <1>4, DraftlessRow
  <2>2. /\ DraftFits(new)
        /\ Without({"closed publish", "failed close"})' => CloseFits(new)
    BY <2>1 DEF NewRow, RowsFit, DraftFits, CloseFits, Without
  <2>3. QED
    BY <2>1, <2>2, StoreFits DEF NewRow
<1>5. CASE \E validate \in BOOLEAN : Publish(r, validate)
  <2>1. PICK validate \in BOOLEAN : Publish(r, validate)
    BY <1>5
  <2> DEFINE row == rr[r]
             new == Published(row)
  <2>2. NewRow(r, new) /\ row \in Row
    BY <2>1, PublishRow, LiveRow DEF Publish
  <2>3. /\ new.status = row.status /\ new.draft = NoDraft
        /\ new.closeInfo = IF row.draft # NoDraft /\ HasChangeDesc(row)
                           THEN "none" ELSE row.closeInfo
    BY <2>2, PublishedType
  <2> HIDE DEF new
  <2>4. DraftFits(new)
    BY <2>3 DEF DraftFits
  <2>5. ASSUME Without({"closed publish", "failed close"})'
        PROVE  CloseFits(new)
    <3>1. SUFFICES ASSUME row.status # Pending
                   PROVE  new.closeInfo = row.status
      BY <2>3 DEF CloseFits
    <3>2. ~row.public
      BY <2>1, <2>5, <3>1 DEF Publish, Cause, Without
    <3>3. row.draft # NoDraft => row.draft.changedesc = "none"
      <4>1. row.draft # NoDraft => row.draft.changedesc \in ChangeDescs
        BY <2>2 DEF Row, Draft
      <4>2. DraftFits(row)
        BY <2>2 DEF RowsFit, NewRow
      <4>3. QED
        BY <3>1, <3>2, <4>1, <4>2 DEF DraftFits, ChangeDescs
    <3>4. new.closeInfo = row.closeInfo
      BY <2>3, <3>2, <3>3 DEF HasChangeDesc
    <3>5. CloseFits(row)
      BY <2>2, <2>5 DEF RowsFit, NewRow, Without
    <3>6. QED
      BY <3>1, <3>4, <3>5 DEF CloseFits
  <2>6. QED
    BY <2>2, <2>4, <2>5, StoreFits DEF NewRow
<1>6. CASE PublishFails(r)
  <2>1. PICK new : /\ NewRow(r, new)
                   /\ new.status = rr[r].status
                   /\ new.public = rr[r].public
                   /\ new.closeInfo = rr[r].closeInfo
                   /\ new.draft = rr[r].draft
    BY <1>6, PublishFailsRow
  <2>2. /\ DraftFits(rr[r])
        /\ Without({"closed publish", "failed close"}) => CloseFits(rr[r])
    BY <2>1 DEF NewRow, RowsFit
  <2>3. /\ DraftFits(new)
        /\ Without({"closed publish", "failed close"})' => CloseFits(new)
    BY <2>1, <2>2 DEF DraftFits, CloseFits, Without
  <2>4. QED
    BY <2>1, <2>3, StoreFits DEF NewRow
<1>7. CASE \E type \in {Submitted, Discarded} : Close(r, type)
  <2>1. PICK type \in {Submitted, Discarded} : Close(r, type)
    BY <1>7
  <2>2. PICK new : /\ NewRow(r, new)
                   /\ new.status = type
                   /\ new.closeInfo = type
                   /\ new.draft = NoDraft
    BY <2>1, CloseRow
  <2>3. DraftFits(new) /\ CloseFits(new)
    BY <2>2 DEF DraftFits, CloseFits
  <2>4. QED
    BY <2>2, <2>3, StoreFits DEF NewRow
<1>8. CASE CloseFails(r)
  <2>1. PICK new : /\ NewRow(r, new)
                   /\ new.status = rr[r].status
                   /\ new.public = rr[r].public
                   /\ new.draft = rr[r].draft
    BY <1>8, CloseFailsRow
  <2>2. DraftFits(new)
    BY <2>1 DEF NewRow, RowsFit, DraftFits
  <2>3. ~Without({"closed publish", "failed close"})'
    BY <1>8 DEF CloseFails, Without
  <2>4. QED
    BY <2>1, <2>2, <2>3, StoreFits DEF NewRow
<1>9. CASE Reopen(r)
  <2>1. PICK new : /\ NewRow(r, new)
                   /\ rr[r].status # Pending
                   /\ new.status = Pending
                   /\ IF rr[r].status = Discarded
                      THEN /\ ~new.public
                           /\ new.draft # NoDraft
                           /\ new.draft.changedesc = "reopened"
                      ELSE /\ new.public = rr[r].public
                           /\ new.draft = rr[r].draft
    BY <1>9, ReopenRow
  <2>2. DraftFits(rr[r])
    BY <2>1 DEF NewRow, RowsFit
  <2>3. DraftFits(new)
    <3>1. CASE rr[r].status = Discarded
      BY <2>1, <3>1 DEF DraftFits
    <3>2. CASE rr[r].status # Discarded /\ rr[r].draft # NoDraft
      <4>1. rr[r].draft.changedesc \in ChangeDescs
        BY <2>1, <3>2, LiveRow DEF NewRow, Draft
      <4>2. QED
        BY <2>1, <2>2, <3>2, <4>1 DEF DraftFits, ChangeDescs
    <3>3. CASE rr[r].status # Discarded /\ rr[r].draft = NoDraft
      BY <2>1, <3>3 DEF DraftFits
    <3>4. QED
      BY <3>1, <3>2, <3>3
  <2>4. CloseFits(new)
    BY <2>1 DEF CloseFits
  <2>5. QED
    BY <2>1, <2>3, <2>4, StoreFits DEF NewRow
<1>10. CASE Delete(r)
  <2>1. Live(r) /\ rr' = [rr EXCEPT ![r] = NoRow]
    BY <1>10 DEF Delete
  <2>2. \A q \in Requests : Live(q)' => Live(q) /\ rr'[q] = rr[q]
    BY <2>1 DEF Live, TypeOK
  <2>3. QED
    BY <2>2 DEF RowsFit, DraftFits, CloseFits, Without
<1>11. QED
  BY <1>1, <1>2, <1>3, <1>4, <1>5, <1>6, <1>7, <1>8, <1>9, <1>10 DEF RequestNext

(* Each row fits: neither property is inductive alone, since what keeps a  *)
(* close description through a publication is that the draft of a closed,  *)
(* private review request never has a change description.                  *)
LEMMA RowsFitCorrect == Spec => []RowsFit
<1>1. Init => RowsFit
  BY DEF Init, RowsFit, Live
<1>2. ASSUME TypeOK, RowsFit, [Next]_vars
      PROVE  RowsFit'
  <2>1. ASSUME NEW r \in Requests, RequestNext(r)
        PROVE  RowsFit'
    BY <1>2, <2>1, DriftGrows, FitsStep
  <2>2. ASSUME UNCHANGED rr, drift \subseteq drift'
        PROVE  RowsFit'
    BY <1>2, <2>2 DEF RowsFit, Live, DraftFits, CloseFits, Without
  <2>3. ASSUME NEW u \in Users, UserNext(u)
        PROVE  UNCHANGED rr /\ drift \subseteq drift'
    BY <2>3 DEF UserNext, Join, Leave, SetMembers, LoadProfile
  <2>4. QED
    BY <1>2, <2>1, <2>2, <2>3 DEF Next, vars
<1>3. QED
  BY <1>1, <1>2, TypeCorrect, PTL DEF Spec

(* Whatever is edited, closed, reopened and published in between, a draft  *)
(* is published with the change description that its review request needs. *)
THEOREM DraftChangeDescCorrect == Spec => []DraftChangeDescFits
<1>1. RowsFit => DraftChangeDescFits
  BY DEF RowsFit, DraftChangeDescFits, DraftFits
<1>2. QED
  BY <1>1, RowsFitCorrect, PTL

(* get_close_info shows the closing that a closed review request has.      *)
THEOREM CloseInfoCorrect == Spec => []CloseInfoFits
<1>1. RowsFit => CloseInfoFits
  BY DEF RowsFit, CloseInfoFits, CloseFits
<1>2. QED
  BY <1>1, RowsFitCorrect, PTL

(***************************************************************************)
(* The refinement.                                                         *)
(***************************************************************************)
View(row) ==
  IF row = NoRow THEN NoRow ELSE [status |-> row.status, public |-> row.public]

Life == [r \in Requests |-> View(rr[r])]

(* Storing a row is a step of one review request's life.                   *)
LEMMA StoreLife ==
  ASSUME TypeOK, NEW r \in Requests, NEW new \in Row, Store(r, new)
  PROVE  Life' = [Life EXCEPT ![r] = [status |-> new.status, public |-> new.public]]
<1>1. /\ rr'[r] = new /\ new # NoRow
      /\ \A q \in Requests \ {r} : rr'[q] = rr[q]
  BY StoreType, ConstantsAssumption
<1>2. QED
  BY <1>1 DEF Life, View

(* Storing what the lifecycle does not see is a stutter.                   *)
LEMMA SameLife ==
  ASSUME TypeOK, NEW r \in Requests, NEW new, NewRow(r, new),
         new.status = rr[r].status, new.public = rr[r].public
  PROVE  Life' = Life
<1>1. /\ rr'[r] = new /\ new # NoRow /\ rr[r] # NoRow
      /\ \A q \in Requests \ {r} : rr'[q] = rr[q]
  BY StoreType, ConstantsAssumption DEF NewRow, Live
<1>2. QED
  BY <1>1 DEF Life, View

(* A review request that is live has a life.                               *)
LEMMA LiveLife ==
  ASSUME TypeOK, NEW r \in Requests, Live(r)
  PROVE  /\ Life[r] # NoRow
         /\ Life[r].status = rr[r].status
         /\ Life[r].public = rr[r].public
         /\ Life[r].public \in BOOLEAN
         /\ Life[r].status \in Statuses
<1>1. Life[r] = [status |-> rr[r].status, public |-> rr[r].public]
  BY DEF Life, View, Live
<1>2. QED
  BY <1>1, LiveRow, ConstantsAssumption DEF Row

(* The operations that the lifecycle does not see.                         *)
LEMMA StutterStep ==
  ASSUME TypeOK, NEW r \in Requests,
         \/ \E u \in Users : Star(u, r) \/ Unstar(u, r)
         \/ EditDraft(r)
         \/ DiscardDraft(r)
         \/ PublishFails(r)
         \/ CloseFails(r)
         \/ CloseAgain(r)
  PROVE  Life' = Life
<1>1. CASE \E u \in Users : Star(u, r) \/ Unstar(u, r)
  <2>1. UNCHANGED rr
    BY <1>1 DEF Star, Unstar, SetStar
  <2>2. QED
    BY <2>1 DEF Life
<1>2. CASE EditDraft(r)
  BY <1>2, EditDraftRow, SameLife
<1>3. CASE DiscardDraft(r) \/ CloseAgain(r)
  BY <1>3, DraftlessRow, SameLife
<1>4. CASE PublishFails(r)
  BY <1>4, PublishFailsRow, SameLife
<1>5. CASE CloseFails(r)
  BY <1>5, CloseFailsRow, SameLife
<1>6. QED
  BY <1>1, <1>2, <1>3, <1>4, <1>5

(* The others are a step of the lifecycle each.                            *)
LEMMA LifeStep ==
  ASSUME TypeOK, NEW r \in Requests, RequestNext(r)
  PROVE  Lifecycle!Next \/ Life' = Life
<1> USE DEF Lifecycle!Next, Lifecycle!Create, Lifecycle!Publish, Lifecycle!Submit,
            Lifecycle!Discard, Lifecycle!Reopen, Lifecycle!Delete, Lifecycle!Become,
            Lifecycle!Pending, Lifecycle!Submitted, Lifecycle!Discarded
<1>1. CASE \E u \in Users : Create(r, u)
  <2>1. PICK u \in Users : Create(r, u)
    BY <1>1
  <2>2. PICK new \in Row : /\ rr[r] = NoRow
                           /\ Store(r, new)
                           /\ new.status = Pending
                           /\ ~new.public
    BY <2>1, CreateRow
  <2>3. Life[r] = NoRow
    BY <2>2 DEF Life, View
  <2>4. new.public = FALSE
    BY <2>2 DEF Row
  <2>5. Life' = [Life EXCEPT ![r] = [status |-> Pending, public |-> FALSE]]
    BY <2>2, <2>4, StoreLife
  <2>6. QED
    BY <2>3, <2>5 DEF Life, View, Pending
<1>2. CASE \E validate \in BOOLEAN : Publish(r, validate)
  <2>1. PICK validate \in BOOLEAN : Publish(r, validate)
    BY <1>2
  <2>2. NewRow(r, Published(rr[r]))
    BY <2>1, PublishRow
  <2>3. /\ Published(rr[r]).status = rr[r].status
        /\ Published(rr[r]).public = TRUE
    BY <2>2, LiveRow, PublishedType DEF NewRow, Row
  <2>4. Life' = [Life EXCEPT ![r] = [status |-> rr[r].status, public |-> TRUE]]
    BY <2>2, <2>3, StoreLife DEF NewRow
  <2>5. Life[r] # NoRow /\ Life[r].status = rr[r].status
    BY <2>2, LiveLife DEF NewRow
  <2>6. QED
    BY <2>4, <2>5 DEF Life, View
<1>3. CASE \E type \in {Submitted, Discarded} : Close(r, type)
  <2>1. PICK type \in {Submitted, Discarded} : Close(r, type)
    BY <1>3
  <2>2. PICK new : NewRow(r, new) /\ new.status = type /\ new.public = rr[r].public
    BY <2>1, CloseRow
  <2>3. Life' = [Life EXCEPT ![r] = [status |-> type, public |-> rr[r].public]]
    BY <2>2, StoreLife DEF NewRow
  <2>4. Life[r] # NoRow /\ Life[r].public = rr[r].public /\ Life[r].public \in BOOLEAN
    BY <2>2, LiveLife DEF NewRow
  <2>5. CASE type = Submitted
    <3>1. rr[r].public = TRUE
      BY <2>1, <2>4, <2>5 DEF Close, MayClose
    <3>2. Life' = [Life EXCEPT ![r] = [status |-> Submitted, public |-> TRUE]]
      BY <2>3, <2>5, <3>1
    <3>3. Lifecycle!Submit(r)
      BY <2>4, <3>1, <3>2 DEF Life, View, Submitted
    <3>4. QED
      BY <3>3
  <2>6. CASE type = Discarded
    <3>1. Life' = [Life EXCEPT ![r] = [status |-> Discarded, public |-> Life[r].public]]
      BY <2>3, <2>4, <2>6
    <3>2. Lifecycle!Discard(r)
      BY <2>4, <3>1 DEF Life, View, Discarded
    <3>3. QED
      BY <3>2
  <2>7. QED
    BY <2>1, <2>5, <2>6
<1>4. CASE Reopen(r)
  <2>1. PICK new : /\ NewRow(r, new)
                   /\ rr[r].status # Pending
                   /\ new.status = Pending
                   /\ IF rr[r].status = Discarded THEN ~new.public
                                                  ELSE new.public = rr[r].public
    BY <1>4, ReopenRow
  <2>2. Life' = [Life EXCEPT ![r] = [status |-> Pending, public |-> new.public]]
    BY <2>1, StoreLife DEF NewRow
  <2>3. /\ Life[r] # NoRow /\ Life[r].status = rr[r].status
        /\ Life[r].public = rr[r].public
    BY <2>1, LiveLife DEF NewRow
  <2>4. new.public = (rr[r].public /\ rr[r].status # Discarded)
    BY <2>1, LiveRow DEF NewRow, Row
  <2> DEFINE public == Life[r].public /\ Life[r].status # Discarded
  <2>5. new.public = public
    BY <2>3, <2>4
  <2> HIDE DEF public
  <2>6. Life' = [Life EXCEPT ![r] = [status |-> Pending, public |-> public]]
    BY <2>2, <2>5
  <2>7. Lifecycle!Reopen(r)
    BY <2>1, <2>3, <2>6 DEF Life, View, Pending, Discarded, public
  <2>8. QED
    BY <2>7
<1>5. CASE Delete(r)
  <2>1. Live(r) /\ rr' = [rr EXCEPT ![r] = NoRow]
    BY <1>5 DEF Delete
  <2>2. Life' = [Life EXCEPT ![r] = NoRow]
    BY <2>1 DEF Life, View, TypeOK
  <2>3. Life[r] # NoRow
    BY <2>1, LiveLife
  <2>4. QED
    BY <2>2, <2>3 DEF Life, View
<1>6. CASE \/ \E u \in Users : Star(u, r) \/ Unstar(u, r)
           \/ EditDraft(r)
           \/ DiscardDraft(r)
           \/ PublishFails(r)
           \/ CloseFails(r)
           \/ CloseAgain(r)
  BY <1>6, StutterStep
<1>7. QED
  BY <1>1, <1>2, <1>3, <1>4, <1>5, <1>6 DEF RequestNext

(* Whatever drafts, reviewers and counters do, a review request only ever  *)
(* passes through the lifecycle: it is submitted only once it is public,   *)
(* and what was discarded comes back private.                              *)
THEOREM LifecycleImplemented == Spec => ImplementsLifecycle
<1>1. Init => Lifecycle!Init
  BY DEF Init, Lifecycle!Init
<1>2. ASSUME TypeOK, [Next]_vars
      PROVE  [Lifecycle!Next]_Life
  <2>1. ASSUME NEW r \in Requests, RequestNext(r)
        PROVE  Lifecycle!Next \/ Life' = Life
    BY <1>2, <2>1, LifeStep
  <2>2. ASSUME UNCHANGED rr
        PROVE  Life' = Life
    BY <2>2 DEF Life
  <2>3. ASSUME NEW u \in Users, UserNext(u)
        PROVE  UNCHANGED rr
    BY <2>3 DEF UserNext, Join, Leave, SetMembers, LoadProfile
  <2>4. QED
    BY <1>2, <2>1, <2>2, <2>3 DEF Next, vars
<1>3. QED
  BY <1>1, <1>2, TypeCorrect, PTL DEF Spec, ImplementsLifecycle, Lifecycle!Spec, Life, View

(* What the lifecycle promises holds of the code: whatever failed, was     *)
(* discarded or reopened before, a submitted review request is public.     *)
THEOREM SubmittedIsPublic == Spec => []Lifecycle!SubmittedWasPublic
<1>1. Lifecycle!Init => Lifecycle!SubmittedWasPublic
  BY DEF Lifecycle!Init, Lifecycle!SubmittedWasPublic
<1>2. ASSUME Lifecycle!SubmittedWasPublic, [Lifecycle!Next]_Life
      PROVE  Lifecycle!SubmittedWasPublic'
  BY <1>2 DEF Lifecycle!SubmittedWasPublic, Lifecycle!Next, Lifecycle!Become,
     Lifecycle!Create, Lifecycle!Publish, Lifecycle!Submit, Lifecycle!Discard,
     Lifecycle!Reopen, Lifecycle!Delete, Lifecycle!Pending, Lifecycle!Submitted,
     Lifecycle!Discarded, Life, View
<1>3. QED
  BY <1>1, <1>2, LifecycleImplemented, PTL
     DEF ImplementsLifecycle, Lifecycle!Spec, Life, View
===============================================================================
