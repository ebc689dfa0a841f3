--------------------------- MODULE FileAttachments ---------------------------
(***************************************************************************)
(* The file attachments of one public review request and of its draft: the *)
(* upload of files and of new revisions, their deletion and its undoing,   *)
(* and what publishing or discarding the draft does with them.             *)
(*                                                                         *)
(* Requests are served concurrently, without a transaction.  An upload has *)
(* four steps (it loads the review request, it chooses a revision, it saves *)
(* the file, it adds the file to the draft) and a publication two; the     *)
(* other requests have one.                                                *)
(***************************************************************************)
EXTENDS Naturals, FiniteSets

CONSTANTS
  Histories,  \* primary keys of FileAttachmentHistory
  Workers,    \* processes that serve requests
  MaxFiles,   \* bound on the files ever saved
  Idle,       \* a worker without a request
  NoDraft,    \* the review request has no draft
  None        \* no file

VARIABLES
  file,       \* the table of files: their history and revision, or None
  made,       \* how many files were ever saved
  histories,  \* the histories of the review request
  active,     \* the files of the review request
  inactive,   \* the files deleted from it
  draft,      \* the files and deleted files of the draft
  request,    \* what each worker is doing
  kept,       \* history: files whose upload was answered, and not withdrawn
  published,  \* history: the files that were ever published
  dropped,    \* history: files that were discarded before
  harm        \* history: what went wrong, or met, on the way here

vars == <<file, made, histories, active, inactive, draft, request, kept,
          published, dropped, harm>>

Files == 1..MaxFiles
Row == [history : Histories, revision : 1..MaxFiles]
Lists == [active : SUBSET Files, inactive : SUBSET Files]
Counters == {"active", "inactive"}
Requests ==
  [at : {"choose"}, counted : SUBSET Counters]
    \cup [at : {"save", "add"}, counted : SUBSET Counters,
          history : Histories, revision : 1..MaxFiles + 1,
          victim : Files \cup {None}, file : Files \cup {None}]
    \cup [at : {"delete draft"}]

ASSUME FilesAssumption ==
  /\ MaxFiles \in Nat \ {0}
  /\ None \notin Files \cup Row
  /\ NoDraft \notin Lists
  /\ Idle \notin Requests

Harms ==
  {"same file", "victim", "late", "revived", "buried", "brought back", "stale"}

Init ==
  /\ file = [f \in Files |-> None]
  /\ made = 0
  /\ histories = {}
  /\ active = {} /\ inactive = {}
  /\ draft = NoDraft
  /\ request = [w \in Workers |-> Idle]
  /\ kept = {} /\ published = {} /\ dropped = {}
  /\ harm = {}

Saved == {f \in Files : file[f] # None}
Revisions(h) == {f \in Saved : file[f].history = h}

(* The relation counter of a history, and the file that it makes the       *)
(* latest one: the page shows no other revision.                           *)
LatestRevision(h) == Cardinality(Revisions(h))
Latest(files) ==
  {f \in files \cap Saved : file[f].revision = LatestRevision(file[f].history)}

(* attachment_history.file_attachments.latest() *)
Newest(h) ==
  {f \in Revisions(h) :
     \A g \in Revisions(h) : file[g].revision <= file[f].revision}

InDraft == IF draft = NoDraft THEN {} ELSE draft.active \cup draft.inactive

(* The draft, or a copy of the review request if there is none.            *)
Drafted ==
  IF draft = NoDraft THEN [active |-> active, inactive |-> inactive] ELSE draft

Uploading(h) ==
  {w \in Workers : /\ request[w] # Idle /\ request[w].at \in {"save", "add"}
                   /\ request[w].history = h}
Publishing ==
  \E w \in Workers : request[w] # Idle /\ request[w].at = "delete draft"

Late == IF Publishing THEN {"late"} ELSE {}
Disturbs(h) == IF Uploading(h) # {} THEN {"same file"} ELSE {}
-----------------------------------------------------------------------------
(* UploadFileForm.create *)

(* The review request is loaded, with the numbers of its files: of a list  *)
(* that is empty by then the upload will make no copy.                     *)
LoadReviewRequest(w) ==
  LET counted ==
        {c \in Counters : (IF c = "active" THEN active ELSE inactive) # {}} IN
  /\ request[w] = Idle /\ made < MaxFiles
  /\ request' = [request EXCEPT ![w] = [at |-> "choose", counted |-> counted]]
  /\ UNCHANGED <<file, made, histories, active, inactive, draft, kept,
                 published, dropped, harm>>

(* A mistake: the latest revision is replaced although it is published.    *)
ChooseRevisionAlways(h, latest) ==
  IF latest = None THEN [revision |-> 1, victim |-> None]
  ELSE [revision |-> file[latest].revision, victim |-> latest]

(* The next revision, or that of a file of the draft, which is replaced.   *)
ChooseRevision(h, latest) ==
  IF latest = None THEN [revision |-> 1, victim |-> None]
  ELSE IF latest \in active
    THEN [revision |-> file[latest].revision + 1, victim |-> None]
    ELSE [revision |-> file[latest].revision, victim |-> latest]

StartUpload(w, h) ==
  /\ request[w] # Idle /\ request[w].at = "choose"
  /\ \E latest \in (IF Revisions(h) = {} THEN {None} ELSE Newest(h)) :
       LET choice == ChooseRevision(h, latest) IN
       /\ request' = [request EXCEPT ![w] =
            [at |-> "save", counted |-> request[w].counted, history |-> h,
             revision |-> choice.revision, victim |-> choice.victim,
             file |-> None]]
       /\ harm' = harm \cup Disturbs(h)
            \cup IF choice.victim \in inactive THEN {"revived"} ELSE {}
  /\ histories' = histories \cup {h}
  /\ UNCHANGED <<file, made, active, inactive, draft, kept, published, dropped>>

(* A mistake: the lists still name the files that have gone. *)
WithoutNothing(lists, files) == lists

(* The row of a file goes, and with it its place in every list. *)
Without(lists, files) ==
  IF lists = NoDraft THEN NoDraft
  ELSE [active |-> lists.active \ files, inactive |-> lists.inactive \ files]

SaveFile(w) ==
  LET rq == request[w]
      f == made + 1 IN
  /\ rq # Idle /\ rq.at = "save" /\ made < MaxFiles
  /\ made' = f
  /\ file' = [g \in Files |->
       IF g = f THEN [history |-> rq.history, revision |-> rq.revision]
       ELSE IF g = rq.victim THEN None ELSE file[g]]
  /\ active' = active \ {rq.victim}
  /\ inactive' = inactive \ {rq.victim}
  /\ draft' = Without(draft, {rq.victim})
  /\ request' = [request EXCEPT ![w].at = "add", ![w].file = f]
  /\ kept' = kept \ ({rq.victim} \ published)
  /\ UNCHANGED <<histories, published, dropped, harm>>

(* The draft, or a copy of the lists that were not empty when the review   *)
(* request was loaded.                                                     *)
DraftedOf(counted) ==
  IF draft = NoDraft
    THEN [active   |-> IF "active" \in counted THEN active ELSE {},
          inactive |-> IF "inactive" \in counted THEN inactive ELSE {}]
    ELSE draft

AddToDraft(w) ==
  LET f == request[w].file
      lists == DraftedOf(request[w].counted)
  IN
  /\ request[w] # Idle /\ request[w].at = "add"
  /\ draft' = IF f \in Saved
                THEN [lists EXCEPT !.active = @ \cup {f}] ELSE lists
  /\ request' = [request EXCEPT ![w] = Idle]
  /\ kept' = kept \cup ({f} \cap Saved)
  /\ harm' = harm \cup Late \cup IF lists # Drafted THEN {"stale"} ELSE {}
  /\ UNCHANGED <<file, made, histories, active, inactive, published, dropped>>
-----------------------------------------------------------------------------
(* A file goes with all of its revisions. *)
AllRevisions(f) == Revisions(file[f].history)

(* A published file waits in the draft to be deleted. *)
ToDelete(f) ==
  [Drafted EXCEPT !.active = @ \ AllRevisions(f),
                  !.inactive = @ \cup AllRevisions(f)]

DeleteFile(f) ==
  /\ f \in Saved \cap (active \cup inactive \cup InDraft)
  /\ IF f \in active \cup inactive
       THEN /\ draft' = ToDelete(f)
            /\ UNCHANGED <<file, kept, dropped>>
       ELSE /\ file' = [file EXCEPT ![f] = None]
            /\ draft' = Without(Drafted, {f})
            /\ kept' = kept \ {f}
            /\ dropped' = dropped \cup {f}
  /\ harm' = harm \cup Late \cup Disturbs(file[f].history)
       \cup IF /\ f \in active \cup inactive
               /\ AllRevisions(f) \ (active \cup inactive) # {}
              THEN {"buried"} ELSE {}
  /\ UNCHANGED <<made, histories, active, inactive, request, published>>

PendingDeletion(f) == draft # NoDraft /\ f \in draft.inactive /\ f \in active

UndoDelete(f) ==
  /\ f \in Saved /\ PendingDeletion(f)
  /\ draft' = [draft EXCEPT !.inactive = @ \ AllRevisions(f),
                            !.active = @ \cup AllRevisions(f)]
  /\ harm' = harm \cup Late \cup Disturbs(file[f].history)
       \cup IF AllRevisions(f) \cap inactive # {} THEN {"brought back"} ELSE {}
  /\ UNCHANGED <<file, made, histories, active, inactive, request, kept,
                 published, dropped>>
-----------------------------------------------------------------------------
(* A mistake: new files stay behind when their draft goes. *)
DoomedNone == {}

(* What goes with a draft: its files that are not the review request's.    *)
Doomed == (draft.active \cap Saved) \ active

DraftDeleted ==
  /\ file' = [f \in Files |-> IF f \in Doomed THEN None ELSE file[f]]
  /\ inactive' = inactive \ Doomed
  /\ draft' = NoDraft

DiscardDraft ==
  /\ draft # NoDraft
  /\ dropped' = dropped \cup (InDraft \ (active \cup inactive))
  /\ kept' = kept \ (InDraft \ (active \cup inactive))
  /\ harm' = harm \cup Late
  /\ DraftDeleted
  /\ UNCHANGED <<made, histories, active, request, published>>

(* The lists of the draft replace those of the review request. *)
CopyFiles ==
  /\ active' = draft.active
  /\ inactive' = draft.inactive

(* Uploads that are about to delete a file which this publishes. *)
Victims == {w \in Workers : /\ request[w] # Idle /\ request[w].at = "save"
                            /\ request[w].victim \in draft.active}

Publish(w) ==
  /\ draft # NoDraft /\ request[w] = Idle
  /\ CopyFiles
  /\ request' = [request EXCEPT ![w] = [at |-> "delete draft"]]
  /\ published' = published \cup draft.active
  /\ harm' = harm \cup Late \cup IF Victims # {} THEN {"victim"} ELSE {}
  /\ UNCHANGED <<file, made, histories, draft, kept, dropped>>

(* A draft that has gone by now is not deleted again. *)
DeleteDraft(w) ==
  /\ request[w] # Idle /\ request[w].at = "delete draft"
  /\ IF draft = NoDraft THEN UNCHANGED <<file, inactive, draft>>
     ELSE DraftDeleted
  /\ request' = [request EXCEPT ![w] = Idle]
  /\ UNCHANGED <<made, histories, active, kept, published, dropped, harm>>

(* A draft that does not validate has replaced the files by then. *)
PublishFails ==
  /\ draft # NoDraft
  /\ CopyFiles
  /\ harm' = harm \cup IF Victims # {} THEN {"victim"} ELSE {}
  /\ published' = published \cup draft.active
  /\ UNCHANGED <<file, made, histories, draft, request, kept, dropped>>

Next ==
  \/ \E w \in Workers :
       \/ \E h \in Histories : StartUpload(w, h)
       \/ LoadReviewRequest(w) \/ SaveFile(w) \/ AddToDraft(w)
       \/ Publish(w) \/ DeleteDraft(w)
  \/ \E f \in Files : DeleteFile(f) \/ UndoDelete(f)
  \/ DiscardDraft \/ PublishFails

Spec == Init /\ [][Next]_vars
-----------------------------------------------------------------------------
(* Rows, lists and requests are of their types. *)
TypeOK ==
  /\ file \in [Files -> Row \cup {None}]
  /\ made \in 0..MaxFiles
  /\ histories \subseteq Histories
  /\ active \subseteq Files /\ inactive \subseteq Files
  /\ draft \in Lists \cup {NoDraft}
  /\ request \in [Workers -> Requests \cup {Idle}]
  /\ kept \cup published \cup dropped \subseteq Files
  /\ harm \subseteq Harms

Unless(causes) == causes \cap harm # {}

(* A file whose upload was answered stays until it is discarded or         *)
(* replaced in the draft; once published, it stays for good, active or not.*)
FilesKept ==
  Unless({"same file", "victim", "late", "revived", "brought back",
          "stale"}) \/
    /\ kept \subseteq Saved \cap (active \cup inactive \cup InDraft)
    /\ published \subseteq Saved \cap (active \cup inactive)

(* When nobody is changing anything, every file of the review request has  *)
(* one revision that its page shows, and it is the newest.                 *)
NewestShown ==
  Unless({"same file", "brought back", "buried"}) \/
    (draft = NoDraft /\ (\A w \in Workers : request[w] = Idle) =>
       \A h \in Histories :
         LET files == Revisions(h) \cap active IN
         files # {} => Latest(files) = files \cap Newest(h)
                       /\ Cardinality(Latest(files)) = 1)

(* A file that was discarded with its draft is never published later.      *)
DiscardedStayAway ==
  Unless({"buried"}) \/ active \cap dropped = {}

(* What reviewers see of the files changes only by a publication, be it    *)
(* one that is refused.                                                    *)
SeenOnlyIfPublished ==
  [][Latest(active)' = Latest(active)
       \/ PublishFails \/ \E w \in Workers : Publish(w)]_vars

(* A draft that is created copies all files of the review request. *)
DraftsCopyAll ==
  [][draft = NoDraft /\ draft' # NoDraft =>
       active \cup inactive \subseteq draft'.active \cup draft'.inactive]_vars

(* A file that was published can be seen for ever. *)
PublishedForGood == published \subseteq Saved
=============================================================================
