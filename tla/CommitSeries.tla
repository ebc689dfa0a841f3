----------------------------- MODULE CommitSeries -----------------------------
(***************************************************************************)
(* The diffset of a review request created with history: a client posts    *)
(* the commits of a Git branch one by one and finalizes the series with    *)
(* the cumulative diff; meanwhile and afterwards the diff viewer links     *)
(* each FileDiff to the earlier ones its file comes from (its ancestors),  *)
(* keeps what it found in the database, and rebuilds from it the two sides *)
(* of a file and of a range of commits.                                    *)
(*                                                                         *)
(* The model keeps the trees the client diffed beside the FileDiffs the    *)
(* server made of the diffs, so that what the server shows is compared     *)
(* with what the commits did.  The contents of a file are its Git blob.    *)
(***************************************************************************)
EXTENDS Integers, Sequences, FiniteSets

CONSTANTS
  Paths,       \* names of files
  Blobs,       \* contents of files, and their revisions
  Absent,      \* no file; the empty contents; the revision PRE_CREATION
  MaxCommits,  \* bound on the commits of a series
  Relocations, \* which of "moved" and "copied" the client's diffs report
  Unedited,    \* whether they report a file relocated without a change
  Uncomputed,  \* the ancestors of a FileDiff were not looked for yet
  NoRevision,  \* the revision in a diff without an index line
  Failed       \* the repository or the patch fails

ASSUME SeriesAssumption ==
  /\ MaxCommits \in Nat \ {0}
  /\ {Absent, NoRevision, Failed} \cap Blobs = {}
  /\ Relocations \subseteq {"moved", "copied"}
  /\ Unedited \in BOOLEAN

VARIABLES
  trees,      \* what the client has: upstream, then the tree of each commit
  filediffs,  \* the rows of FileDiff
  cache,      \* FileDiff.extra_data['__filediff_ancestors'] of each
  finalized,  \* DiffSet.is_commit_series_finalized
  refused     \* the client was told that a file does not exist

vars == <<trees, filediffs, cache, finalized, refused>>

Cumulative == 0  \* commit_id is None

Trees == [Paths -> Blobs \cup {Absent}]
Posted == Len(trees) - 1
Tree(c) == trees[c + 1]

Init ==
  /\ trees \in {<<t>> : t \in Trees}
  /\ filediffs = {}
  /\ cache = <<>>
  /\ finalized = FALSE
  /\ refused = FALSE

-----------------------------------------------------------------------------
(* From two trees to FileDiffs *)

Row(c, source, from, dest, to, status) ==
  [commit |-> c, source |-> source, sourceRev |-> from,
   dest |-> dest, destRev |-> to, status |-> status]

IsNew(f) == f.sourceRev = Absent
Deleted(f) == f.status = "deleted"

Gone(T, U) == {p \in Paths : T[p] # Absent /\ U[p] = Absent}
Added(T, U) == {p \in Paths : T[p] = Absent /\ U[p] # Absent}

(* Where a diff may say the added files come from; itself is nowhere. *)
Origins(T, U) ==
  {o \in [Added(T, U) -> Paths] :
     \A q \in Added(T, U) :
       \/ o[q] = q
       \/ /\ T[o[q]] # Absent
          /\ T[o[q]] = U[q] => Unedited
          /\ IF U[o[q]] # Absent
             THEN "copied" \in Relocations
             ELSE /\ "moved" \in Relocations
                  /\ \A r \in Added(T, U) : o[r] = o[q] => r = q}

RelocatedRow(c, T, U, p, q) ==
  Row(c, p, IF T[p] = U[q] THEN NoRevision ELSE T[p],
      q, IF T[p] = U[q] THEN NoRevision ELSE U[q],
      IF U[p] = Absent THEN "moved" ELSE "copied")

(* create_filediffs(), for the diff between T and U *)
RowsOf(c, T, U, o) ==
  {Row(c, p, T[p], p, U[p], "modified") :
     p \in {p \in Paths : Absent \notin {T[p], U[p]} /\ T[p] # U[p]}}
  \cup {Row(c, p, T[p], p, Absent, "deleted") :
     p \in Gone(T, U) \ {o[q] : q \in Added(T, U)}}
  \cup {IF o[q] = q
        THEN Row(c, q, Absent, q, U[q], "modified")
        ELSE RelocatedRow(c, T, U, o[q], q) : q \in Added(T, U)}

-----------------------------------------------------------------------------
(* Posting the series *)

PerCommit == {f \in filediffs : f.commit # Cumulative}

InRepository(rev) == \E p \in Paths : Tree(0)[p] = rev

(* validation_info: the files that a commit added or modified *)
Listed(c) == {<<f.dest, f.destRev>> :
                f \in {g \in PerCommit : g.commit = c /\ ~Deleted(g)}}

(* A variant that looks no further than the parent commit. *)
ExistsInParent(p, rev) == <<p, rev>> \in Listed(Posted) \/ InRepository(rev)

(* get_file_exists_in_history() *)
ExistsInHistory(p, rev) ==
  \/ \E c \in 1..Posted : <<p, rev>> \in Listed(c)
  \/ InRepository(rev)

Checked(f) == f.status = "modified" /\ ~IsNew(f)

Store(rows) ==
  /\ filediffs' = filediffs \cup rows
  /\ cache' = [f \in filediffs \cup rows |->
                 IF f \in filediffs THEN cache[f] ELSE Uncomputed]

(* The next commit, validated and then uploaded to the draft. *)
PostCommit ==
  /\ ~finalized /\ ~refused
  /\ Posted < MaxCommits
  /\ \E U \in Trees : \E o \in Origins(Tree(Posted), U) :
       LET rows == RowsOf(Posted + 1, Tree(Posted), U, o) IN
       /\ rows # {}
       /\ IF \A f \in rows :
               Checked(f) => ExistsInHistory(f.source, f.sourceRev)
          THEN /\ Store(rows)
               /\ trees' = Append(trees, U)
               /\ UNCHANGED <<finalized, refused>>
          ELSE /\ refused' = TRUE
               /\ UNCHANGED <<trees, filediffs, cache, finalized>>

(* The cumulative diff; one without a file is refused. *)
Finalize ==
  /\ ~finalized
  /\ PerCommit # {}
  /\ \E o \in Origins(Tree(0), Tree(Posted)) :
       LET rows == RowsOf(Cumulative, Tree(0), Tree(Posted), o) IN
       /\ rows # {}
       /\ \A f \in rows : Checked(f) => InRepository(f.sourceRev)
       /\ Store(rows)
  /\ finalized' = TRUE
  /\ UNCHANGED <<trees, refused>>

-----------------------------------------------------------------------------
(* FileDiff.get_ancestors() *)

(* The FileDiffs that may be the one before f, of any commit. *)
Before(f, all) ==
  IF IsNew(f)
  THEN {g \in all : g.dest = f.source /\ Deleted(g)}
  ELSE {g \in all : g.dest = f.source /\ g.destRev = f.sourceRev}

Earlier(f, all) == {g \in Before(f, all) : g.commit < f.commit}

Latest(S) == CHOOSE f \in S : \A g \in S : g.commit <= f.commit

(* What is kept for f gives all of its ancestors. *)
Kept(f) == cache[f][1] \o cache[f][2]

(* A variant that continues with the minimal ancestors that were kept. *)
AncestorsOfMinimal(f, all) ==
  LET chain[g \in filediffs] ==
        IF cache[g] # Uncomputed THEN cache[g][2]
        ELSE IF Earlier(g, all) = {} THEN <<>>
        ELSE LET h == Latest(Earlier(g, all)) IN Append(chain[h], h)
  IN chain[f]

(* All the ancestors of f, the oldest first. *)
Ancestors(f, all) ==
  LET chain[g \in filediffs] ==
        IF cache[g] # Uncomputed THEN Kept(g)
        ELSE IF Earlier(g, all) = {} THEN <<>>
        ELSE LET h == Latest(Earlier(g, all)) IN Append(chain[h], h)
  IN chain[f]

(* A commit_id of None is compared with that of a commit. *)
Raises(f, all) ==
  LET raises[g \in filediffs] ==
        /\ cache[g] = Uncomputed
        /\ \/ \E h \in Before(g, all) : h.commit = Cumulative
           \/ Earlier(g, all) # {} /\ raises[Latest(Earlier(g, all))]
  IN raises[f]

(* A variant that takes the last deletion for the first minimal ancestor. *)
SplitAtDeletion(s) ==
  LET cuts == {i \in DOMAIN s : Deleted(s[i])}
      cut == IF cuts = {} THEN 0
             ELSE (CHOOSE i \in cuts : \A j \in cuts : j <= i) - 1
  IN <<SubSeq(s, 1, cut), SubSeq(s, cut + 1, Len(s))>>

(* Those up to the last deletion, and the minimal ones after it. *)
Split(s) ==
  LET cuts == {i \in DOMAIN s : Deleted(s[i])}
      cut == IF cuts = {} THEN 0
             ELSE CHOOSE i \in cuts : \A j \in cuts : j <= i
  IN <<SubSeq(s, 1, cut), SubSeq(s, cut + 1, Len(s))>>

Minimal(f) == Split(Ancestors(f, PerCommit))[2]

(* A viewer asks for the ancestors of f, among the FileDiffs it fetched. *)
GetAncestors(f, all) ==
  LET s == Ancestors(f, all) IN
  /\ cache[f] = Uncomputed
  /\ ~Raises(f, all)
  /\ cache' = [g \in filediffs |->
       IF g = f THEN Split(s)
       ELSE IF cache[g] = Uncomputed /\ \E i \in DOMAIN s : s[i] = g
       THEN Split(SubSeq(s, 1, (CHOOSE i \in DOMAIN s : s[i] = g) - 1))
       ELSE cache[g]]
  /\ UNCHANGED <<trees, filediffs, finalized, refused>>

(* Showing a range of commits fetches the FileDiffs of commits ... *)
LookInRange == \E f \in PerCommit : GetAncestors(f, PerCommit)

(* ... and showing or rebuilding one file all of the diffset. *)
LookAtFile == \E f \in PerCommit : GetAncestors(f, filediffs)

Next == PostCommit \/ Finalize \/ LookInRange \/ LookAtFile

Spec == Init /\ [][Next]_vars

-----------------------------------------------------------------------------
(* What is shown *)

Patch(f, data) == IF f.sourceRev = data THEN f.destRev ELSE Failed

FromRepository(f) ==
  IF IsNew(f) THEN Absent
  ELSE IF InRepository(f.sourceRev) THEN f.sourceRev ELSE Failed

(* get_original_file() *)
Original(f) ==
  LET s == Minimal(f)
      after[i \in 0..Len(s)] ==
        IF i = 0 THEN FromRepository(s[1]) ELSE Patch(s[i], after[i - 1])
  IN IF s = <<>> THEN FromRepository(f) ELSE after[Len(s)]

(* get_patched_file() of it *)
Patched(f) == Patch(f, Original(f))

(* A variant that leaves the tip out of the range. *)
ShownBeforeTip(b, t) ==
  LET range == {f \in PerCommit : f.commit \in b + 1..t - 1}
      older == UNION {{Ancestors(f, PerCommit)[i] :
                         i \in DOMAIN Ancestors(f, PerCommit)} : f \in range}
  IN range \ older

(* exclude_ancestor_filediffs(), in the commits after b up to t *)
Shown(b, t) ==
  LET range == {f \in PerCommit : f.commit \in b + 1..t}
      older == UNION {{Ancestors(f, PerCommit)[i] :
                         i \in DOMAIN Ancestors(f, PerCommit)} : f \in range}
  IN range \ older

(* A variant that leaves commit b itself out. *)
UpToBefore(f, b) ==
  LET s == Ancestors(f, PerCommit) IN {i \in DOMAIN s : s[i].commit < b}

(* Where the ancestors in the commits up to b are. *)
UpTo(f, b) ==
  LET s == Ancestors(f, PerCommit) IN {i \in DOMAIN s : s[i].commit <= b}

(* get_base_filediff(): the last of them *)
Base(f, b) ==
  Ancestors(f, PerCommit)[CHOOSE i \in UpTo(f, b) : \A j \in UpTo(f, b) : j <= i]

(* The old side of f in a range that follows commit b *)
OldSide(f, b) ==
  IF UpTo(f, b) # {} THEN Patched(Base(f, b))
  ELSE IF Minimal(f) # <<>> THEN Original(Minimal(f)[1])
  ELSE Original(f)

-----------------------------------------------------------------------------
(* Properties *)

(* A client that posts its commits honestly, in diffs that give every file *)
(* a revision (Unedited is FALSE), is never told that a file its diff      *)
(* starts from does not exist (get_file_exists_in_history).                *)
NeverRefused == ~refused

(* The ancestors that were kept are those that the whole series gives,     *)
(* whichever FileDiff was looked at first and whatever was posted since.   *)
FreshChain(f) ==
  LET chain[g \in PerCommit] ==
        IF Earlier(g, PerCommit) = {} THEN <<>>
        ELSE LET h == Latest(Earlier(g, PerCommit)) IN Append(chain[h], h)
  IN chain[f]

KeptAncestorsTrue ==
  \A f \in PerCommit :
    cache[f] # Uncomputed =>
      /\ Kept(f) = FreshChain(f)
      /\ \A i \in DOMAIN cache[f][2] : ~Deleted(cache[f][2][i])
      /\ cache[f][1] # <<>> => Deleted(cache[f][1][Len(cache[f][1])])

(* The original of a file, rebuilt by patching its ancestors one after     *)
(* another, is what the commit before had, and its patched file what the   *)
(* commit has.                                                             *)
Rebuilt ==
  \A f \in PerCommit :
    /\ Original(f) = IF IsNew(f) THEN Absent ELSE Tree(f.commit - 1)[f.source]
    /\ Patched(f) = IF Deleted(f) THEN Absent ELSE Tree(f.commit)[f.dest]

Ranges == {r \in (0..Posted) \X (0..Posted) : r[1] < r[2]}

(* A commit of the range copies p after its last change: that change is an *)
(* ancestor of the copy.                                                   *)
CopiedIn(p, r) ==
  \E f \in PerCommit :
    /\ f.status = "copied" /\ f.source = p /\ f.commit \in r[1] + 1..r[2]
    /\ \A c \in f.commit - 1..r[2] : Tree(c)[p] = Tree(r[2])[p]

Changed(p, r) == Tree(r[2])[p] \notin {Tree(r[1])[p], Absent}

(* A range of commits shows every file that the tip has and the base does  *)
(* not have alike, but for a file that the range copies as the tip has it; *)
(* and what it shows of a file that was not deleted is what the tip has.   *)
RangeShowsTip ==
  \A r \in Ranges :
    LET shown == {f \in Shown(r[1], r[2]) : ~Deleted(f)} IN
    /\ \A p \in Paths :
         Changed(p, r) => CopiedIn(p, r) \/ \E f \in shown : f.dest = p
    /\ \A f \in shown : Patched(f) = Tree(r[2])[f.dest]

(* The first of f and its ancestors that follows commit b. *)
FirstAfter(f, b) ==
  LET s == Append(Ancestors(f, PerCommit), f)
  IN s[CHOOSE i \in DOMAIN s : s[i].commit > b /\ \A j \in 1..i - 1 : s[j].commit <= b]

AtBase(f, b) ==
  LET g == FirstAfter(f, b) IN
  IF IsNew(g) THEN Absent ELSE Tree(b)[g.source]

(* No commit up to b has an ancestor of f, and a later one deletes it. *)
LostByDeletion(f, b) ==
  UpTo(f, b) = {} /\ Split(Ancestors(f, PerCommit))[1] # <<>>

(* The old side of each file of a range is what the base of the range had, *)
(* but for a file that the range deletes and brings back and that no       *)
(* commit touched before.                                                  *)
RangeStartsAtBase ==
  \A r \in Ranges : \A f \in Shown(r[1], r[2]) :
    ~LostByDeletion(f, r[1]) => OldSide(f, r[1]) = AtBase(f, r[1])

(* Every file of the series can be looked at without the others having     *)
(* been looked at before.                                                  *)
EveryFileOpens == \A f \in PerCommit : ~Raises(f, filediffs)
=============================================================================
