------------------------ MODULE FileAttachments_proofs ------------------------
(***************************************************************************)
(* Proofs about FileAttachments, for any histories and workers, and any    *)
(* bound on the files.                                                     *)
(***************************************************************************)
EXTENDS FileAttachments, FiniteSetTheorems, TLAPS

(***************************************************************************)
(* Rows, lists and requests.                                               *)
(***************************************************************************)
Held == active \cup inactive

Saving(w)   == request[w] # Idle /\ request[w].at = "save"
Adding(w)   == request[w] # Idle /\ request[w].at = "add"
Deleting(w) == request[w] # Idle /\ request[w].at = "delete draft"

(* A list names no file that is gone.                                      *)
ListsFit == Held \cup InDraft \subseteq Saved

RequestsFit ==
  \A w \in Workers :
    /\ Saving(w) => request[w].revision <= made + 1
    /\ Adding(w) => request[w].file \in 1..made

(* Files are numbered as they are made, and revisions at most as fast.     *)
TypeInv ==
  /\ TypeOK
  /\ \A f \in Saved : f <= made /\ file[f].revision <= made
  /\ RequestsFit
  /\ kept \cup published \cup dropped \subseteq 1..made
  /\ ListsFit

Loads == [at : {"choose"}, counted : SUBSET Counters]
Uploads ==
  [at : {"save", "add"}, counted : SUBSET Counters, history : Histories,
   revision : 1..MaxFiles + 1, victim : Files \cup {None},
   file : Files \cup {None}]

(* What a worker does is an upload, be it one that has only loaded the     *)
(* review request, or a publication.                                       *)
LEMMA RequestKinds ==
  ASSUME TypeOK, NEW w \in Workers, request[w] # Idle
  PROVE  \/ /\ Saving(w) \/ Adding(w)
            /\ ~Deleting(w)
            /\ request[w] \in Uploads
         \/ Deleting(w) /\ ~Saving(w) /\ ~Adding(w)
         \/ /\ request[w] \in Loads
            /\ ~Deleting(w) /\ ~Saving(w) /\ ~Adding(w)
<1>1. \/ request[w] \in Uploads \/ request[w] \in [at : {"delete draft"}]
      \/ request[w] \in Loads
  BY DEF TypeOK, Requests, Uploads, Loads
<1>2. CASE request[w] \in Uploads
  <2>1. request[w].at \in {"save", "add"}
    BY <1>2 DEF Uploads
  <2>2. QED
    BY <1>2, <2>1 DEF Saving, Adding, Deleting
<1>3. CASE request[w] \in [at : {"delete draft"}]
  <2>1. request[w].at = "delete draft"
    BY <1>3
  <2>2. QED
    BY <2>1 DEF Saving, Adding, Deleting
<1>4. CASE request[w] \in Loads
  <2>1. request[w].at = "choose"
    BY <1>4 DEF Loads
  <2>2. QED
    BY <1>4, <2>1 DEF Saving, Adding, Deleting
<1>5. QED
  BY <1>1, <1>2, <1>3, <1>4

(* The table of files.                                                     *)
LEMMA SavedFiles ==
  ASSUME TypeOK, NEW f \in Saved
  PROVE  /\ f \in Files /\ f \in Nat
         /\ file[f] \in Row
         /\ file[f].history \in Histories
         /\ file[f].revision \in 1..MaxFiles
         /\ f \in Revisions(file[f].history)
  BY FilesAssumption DEF TypeOK, Saved, Row, Files, Revisions

(* The lists of the draft.                                                 *)
LEMMA DraftLists ==
  ASSUME TypeOK
  PROVE  /\ Drafted \in Lists
         /\ draft # NoDraft => /\ draft \in Lists
                               /\ Drafted = draft
                               /\ InDraft = draft.active \cup draft.inactive
         /\ draft = NoDraft => Drafted = [active |-> active, inactive |-> inactive]
         /\ InDraft \subseteq Files
  BY DEF TypeOK, Drafted, InDraft, Lists

(* New lists for the draft.                                                *)
LEMMA NewLists ==
  ASSUME NEW d \in Lists, draft' = d
  PROVE  draft' # NoDraft /\ InDraft' = d.active \cup d.inactive
  BY FilesAssumption DEF InDraft

-----------------------------------------------------------------------------
(* What the requests do to the files and the lists.                        *)

LEMMA InitFacts ==
  ASSUME Init
  PROVE  TypeInv
<1>1. InDraft = {} /\ Saved = {}
  BY FilesAssumption DEF Init, InDraft, Saved
<1>2. TypeOK
  BY FilesAssumption DEF Init, TypeOK, Files
<1>3. QED
  BY <1>1, <1>2 DEF Init, TypeInv, ListsFit, RequestsFit, Held, Saving, Adding

(* The row of a file, with its places in the lists, is deleted.            *)
LEMMA WithoutFacts ==
  ASSUME TypeOK, NEW files, draft' = Without(draft, files)
  PROVE  /\ draft' \in Lists \cup {NoDraft}
         /\ draft' = NoDraft <=> draft = NoDraft
         /\ InDraft' = InDraft \ files
         /\ draft # NoDraft => /\ draft'.active = draft.active \ files
                               /\ draft'.inactive = draft.inactive \ files
<1> DEFINE d == [active |-> draft.active \ files, inactive |-> draft.inactive \ files]
<1>1. CASE draft = NoDraft
  BY <1>1 DEF Without, InDraft
<1>2. CASE draft # NoDraft
  <2>1. draft \in Lists
    BY <1>2 DEF TypeOK
  <2>2. d \in Lists /\ draft' = d
    BY <1>2, <2>1 DEF Without, Lists
  <2>3. draft' # NoDraft /\ InDraft' = d.active \cup d.inactive
    BY <2>2, NewLists
  <2>4. QED
    BY <1>2, <2>2, <2>3 DEF InDraft
<1>3. QED
  BY <1>1, <1>2

(* Choosing a revision changes no row and no list.                         *)
LEMMA StartFacts ==
  ASSUME TypeInv, NEW w \in Workers, NEW h \in Histories, StartUpload(w, h)
  PROVE  \E latest \in Revisions(h) \cup {None} :
           LET choice == ChooseRevision(h, latest)
               new    == [at |-> "save", counted |-> request[w].counted, history |-> h,
                          revision |-> choice.revision, victim |-> choice.victim,
                          file |-> None]
           IN  /\ latest = None <=> Revisions(h) = {}
               /\ latest # None => latest \in Newest(h)
               /\ new \in Uploads
               /\ new.revision <= made + 1
               /\ request' = [request EXCEPT ![w] = new]
               /\ harm' = harm \cup Disturbs(h)
                    \cup IF new.victim \in inactive THEN {"revived"} ELSE {}
<1>1. PICK latest \in (IF Revisions(h) = {} THEN {None} ELSE Newest(h)) :
        LET choice == ChooseRevision(h, latest) IN
        /\ request' = [request EXCEPT ![w] =
             [at |-> "save", counted |-> request[w].counted, history |-> h,
              revision |-> choice.revision, victim |-> choice.victim,
              file |-> None]]
        /\ harm' = harm \cup Disturbs(h)
             \cup IF choice.victim \in inactive THEN {"revived"} ELSE {}
  BY DEF StartUpload
<1>2. Newest(h) \subseteq Revisions(h) /\ Revisions(h) \subseteq Saved
  BY DEF Newest, Revisions
<1>3. None \notin Saved
  BY FilesAssumption DEF Saved
<1>4. made \in 0..MaxFiles /\ MaxFiles \in Nat
  BY FilesAssumption DEF TypeInv, TypeOK
<1> DEFINE choice == ChooseRevision(h, latest)
<1>5. /\ choice.revision \in 1..MaxFiles + 1
      /\ choice.revision <= made + 1
      /\ choice.victim \in Files \cup {None}
  <2>1. CASE latest = None
    BY <1>4, <2>1 DEF ChooseRevision
  <2>2. CASE latest # None
    <3>1. latest \in Saved
      BY <1>1, <1>2, <2>2
    <3>2. latest \in Files /\ file[latest].revision \in 1..MaxFiles
      BY <3>1, SavedFiles DEF TypeInv
    <3>3. file[latest].revision <= made
      BY <3>1 DEF TypeInv
    <3>4. QED
      BY <1>4, <2>2, <3>2, <3>3 DEF ChooseRevision
  <2>3. QED
    BY <2>1, <2>2
<1> HIDE DEF choice
<1>6. [at |-> "save", counted |-> request[w].counted, history |-> h,
       revision |-> choice.revision, victim |-> choice.victim,
       file |-> None] \in Uploads
  <2>1. request[w] # Idle /\ request[w].at = "choose"
    BY DEF StartUpload
  <2>2. request[w] \in Loads
    BY <2>1, RequestKinds DEF Uploads, Deleting, TypeInv
  <2>3. request[w].counted \in SUBSET Counters
    BY <2>2 DEF Loads
  <2>4. QED
    BY <1>5, <2>3 DEF Uploads
<1>7. /\ latest \in Revisions(h) \cup {None}
      /\ latest = None <=> Revisions(h) = {}
      /\ latest # None => latest \in Newest(h)
  BY <1>1, <1>2, <1>3
<1>8. QED
  BY <1>1, <1>5, <1>6, <1>7 DEF choice

(* A new file takes the place of the one that it replaces.                 *)
LEMMA SaveFacts ==
  ASSUME TypeInv, NEW w \in Workers, SaveFile(w)
  PROVE  LET rq == request[w]
             f  == made + 1
         IN  /\ Saving(w) /\ rq \in Uploads
             /\ f \in Files /\ f \in Nat /\ f \notin Saved
             /\ made \in Nat /\ made' = f
             /\ Saved' = (Saved \ {rq.victim}) \cup {f}
             /\ file'[f] = [history |-> rq.history, revision |-> rq.revision]
             /\ file'[f] \in Row
             /\ \A g \in Saved' : g # f => file'[g] = file[g]
             /\ Held' = Held \ {rq.victim}
             /\ InDraft' = InDraft \ {rq.victim}
             /\ draft' \in Lists \cup {NoDraft}
             /\ draft' = NoDraft <=> draft = NoDraft
             /\ request' = [request EXCEPT ![w] = [rq EXCEPT !.at = "add", !.file = f]]
             /\ request'[w] \in Uploads /\ Adding(w)'
             /\ request'[w].file = f /\ request'[w].history = rq.history
<1> DEFINE rq == request[w]
           f  == made + 1
<1>1. /\ request[w] # Idle /\ request[w].at = "save" /\ made < MaxFiles
      /\ made' = f
      /\ file' = [g \in Files |->
           IF g = f THEN [history |-> rq.history, revision |-> rq.revision]
           ELSE IF g = rq.victim THEN None ELSE file[g]]
      /\ active' = active \ {rq.victim} /\ inactive' = inactive \ {rq.victim}
      /\ draft' = Without(draft, {rq.victim})
      /\ request' = [request EXCEPT ![w].at = "add", ![w].file = f]
  BY DEF SaveFile
<1>2. Saving(w) /\ rq \in Uploads
  BY <1>1, RequestKinds DEF Saving, Deleting, TypeInv
<1>3. made \in Nat /\ MaxFiles \in Nat /\ f \in Files /\ f \in Nat
  BY <1>1, FilesAssumption DEF TypeInv, TypeOK, Files
<1>4. f \notin Saved
  BY <1>3 DEF TypeInv
<1>5. rq.history \in Histories /\ rq.revision \in 1..MaxFiles
  BY <1>1, <1>2, <1>3 DEF TypeInv, RequestsFit, Uploads
<1>6. file'[f] = [history |-> rq.history, revision |-> rq.revision] /\ file'[f] \in Row
  BY <1>1, <1>3, <1>5 DEF Row
<1>7. \A g \in Files : file'[g] = None <=> g # f /\ (g = rq.victim \/ file[g] = None)
  BY <1>1, <1>6, FilesAssumption
<1>8. Saved' = (Saved \ {rq.victim}) \cup {f}
  BY <1>3, <1>4, <1>7 DEF Saved
<1>9. \A g \in Saved' : g # f => file'[g] = file[g]
  BY <1>1, <1>8 DEF Saved
<1>10. Held' = Held \ {rq.victim}
  BY <1>1 DEF Held
<1>11. /\ InDraft' = InDraft \ {rq.victim}
       /\ draft' \in Lists \cup {NoDraft}
       /\ draft' = NoDraft <=> draft = NoDraft
  BY <1>1, WithoutFacts DEF TypeInv
<1>12. request' = [request EXCEPT ![w] = [rq EXCEPT !.at = "add", !.file = f]]
  BY <1>1 DEF TypeInv, TypeOK
<1>13. /\ request'[w] = [rq EXCEPT !.at = "add", !.file = f]
       /\ request'[w] \in Uploads
       /\ request'[w].at = "add" /\ request'[w].file = f
       /\ request'[w].history = rq.history
  BY <1>2, <1>3, <1>12 DEF TypeInv, TypeOK, Uploads
<1>14. Adding(w)'
  BY <1>13, FilesAssumption DEF Adding, Requests, Uploads
<1>15. QED
  BY <1>1, <1>2, <1>3, <1>4, <1>6, <1>8, <1>9, <1>10, <1>11, <1>12, <1>13, <1>14

(* The new files of a draft go with it.                                    *)
LEMMA DraftDeletedFacts ==
  ASSUME TypeInv, draft # NoDraft, DraftDeleted
  PROVE  /\ Doomed = draft.active \ active
         /\ Saved' = Saved \ Doomed
         /\ \A g \in Saved' : file'[g] = file[g]
         /\ file' \in [Files -> Row \cup {None}]
         /\ inactive' = inactive \ Doomed
         /\ draft' = NoDraft /\ InDraft' = {}
<1>1. InDraft = draft.active \cup draft.inactive
  BY DEF InDraft
<1>2. Doomed = draft.active \ active
  BY <1>1 DEF Doomed, TypeInv, ListsFit
<1>3. /\ file' = [f \in Files |-> IF f \in Doomed THEN None ELSE file[f]]
      /\ inactive' = inactive \ Doomed
      /\ draft' = NoDraft
  BY DEF DraftDeleted
<1>4. file' \in [Files -> Row \cup {None}]
  BY <1>3 DEF TypeInv, TypeOK
<1>5. Saved' = Saved \ Doomed
  BY <1>3 DEF Saved
<1>6. QED
  BY <1>2, <1>3, <1>4, <1>5 DEF Saved, InDraft

(* The other workers go on with what they do.                              *)
LEMMA OtherRequests ==
  ASSUME TypeOK, NEW w \in Workers, NEW new, request' = [request EXCEPT ![w] = new]
  PROVE  /\ request'[w] = new
         /\ \A x \in Workers \ {w} : /\ request'[x] = request[x]
                                     /\ Saving(x)' <=> Saving(x)
                                     /\ Adding(x)' <=> Adding(x)
                                     /\ Deleting(x)' <=> Deleting(x)
         /\ new \in Uploads \cup Loads \cup {Idle} \cup [at : {"delete draft"}] =>
              request' \in [Workers -> Requests \cup {Idle}]
<1>1. request \in [Workers -> Requests \cup {Idle}]
  BY DEF TypeOK
<1>2. \A x \in Workers \ {w} : request'[x] = request[x]
  BY <1>1
<1>3. Uploads \cup Loads \cup [at : {"delete draft"}] = Requests
  BY DEF Uploads, Loads, Requests
<1>4. QED
  BY <1>1, <1>2, <1>3 DEF Saving, Adding, Deleting

(* Loading the review request makes no difference to the uploads.          *)
LEMMA LoadFacts ==
  ASSUME TypeOK, NEW w \in Workers, LoadReviewRequest(w)
  PROVE  /\ request' \in [Workers -> Requests \cup {Idle}]
         /\ \A x \in Workers :
              /\ Saving(x)' <=> Saving(x)
              /\ Adding(x)' <=> Adding(x)
              /\ Deleting(x)' <=> Deleting(x)
              /\ Saving(x) \/ Adding(x) => request'[x] = request[x]
         /\ UNCHANGED <<file, made, histories, active, inactive, draft, kept,
                        published, dropped, harm>>
<1>1. PICK new \in Loads : request' = [request EXCEPT ![w] = new]
  <2>1. PICK counted \in SUBSET Counters :
          request' = [request EXCEPT ![w] = [at |-> "choose", counted |-> counted]]
    BY DEF LoadReviewRequest
  <2>2. [at |-> "choose", counted |-> counted] \in Loads
    BY DEF Loads
  <2>3. QED
    BY <2>1, <2>2
<1>2. request[w] = Idle
  BY DEF LoadReviewRequest
<1>3. ~Saving(w) /\ ~Adding(w) /\ ~Deleting(w)
  BY <1>2 DEF Saving, Adding, Deleting
<1>4. request'[w] = new
  BY <1>1, OtherRequests
<1>5. ~Saving(w)' /\ ~Adding(w)' /\ ~Deleting(w)'
  BY <1>4 DEF Loads, Saving, Adding, Deleting
<1>6. QED
  BY <1>1, <1>3, <1>5, OtherRequests DEF LoadReviewRequest

(* Harms are only added.                                                   *)
LEMMA HarmTypes ==
  ASSUME NEW h
  PROVE  Late \subseteq Harms /\ Disturbs(h) \subseteq Harms
  BY DEF Late, Disturbs, Harms

-----------------------------------------------------------------------------
(***************************************************************************)
(* Types are kept.                                                         *)
(***************************************************************************)

(* Lists are replaced by others of saved files.                            *)
LEMMA ListsKeepType ==
  ASSUME TypeInv, NEW d \in Lists, draft' = d,
         d.active \cup d.inactive \subseteq Saved,
         UNCHANGED <<file, made, histories, active, inactive, published>>,
         harm' \subseteq Harms,
         RequestsFit', request' \in [Workers -> Requests \cup {Idle}],
         kept' \cup dropped' \subseteq 1..made
  PROVE  TypeInv'
<1>1. draft' # NoDraft /\ InDraft' = d.active \cup d.inactive
  BY NewLists
<1>2. kept' \cup dropped' \subseteq Files
  BY FilesAssumption DEF TypeInv, TypeOK, Files
<1>3. TypeOK'
  BY <1>2 DEF TypeInv, TypeOK
<1>4. ListsFit'
  BY <1>1 DEF TypeInv, ListsFit, Held, Saved
<1>5. (kept \cup published \cup dropped \subseteq 1..made)'
  BY DEF TypeInv
<1>6. (\A f \in Saved : f <= made /\ file[f].revision <= made)'
  BY DEF TypeInv, Saved
<1>7. QED
  BY <1>3, <1>4, <1>5, <1>6 DEF TypeInv

LEMMA LoadType ==
  ASSUME TypeInv, NEW w \in Workers, LoadReviewRequest(w)
  PROVE  TypeInv'
<1>1. TypeOK'
  BY LoadFacts DEF TypeInv, TypeOK
<1>2. RequestsFit'
  BY LoadFacts DEF TypeInv, RequestsFit
<1>3. QED
  BY <1>1, <1>2, LoadFacts DEF TypeInv, ListsFit, Held, InDraft, Saved

LEMMA StartType ==
  ASSUME TypeInv, NEW w \in Workers, NEW h \in Histories, StartUpload(w, h)
  PROVE  TypeInv'
<1>1. PICK new \in Uploads :
        /\ new.revision <= made + 1 /\ new.at = "save"
        /\ request' = [request EXCEPT ![w] = new]
        /\ \/ harm' = harm \cup Disturbs(h) \cup {"revived"}
           \/ harm' = harm \cup Disturbs(h) \cup {}
  BY StartFacts
<1>2. /\ histories' = histories \cup {h}
      /\ UNCHANGED <<file, made, active, inactive, draft, kept, published, dropped>>
  BY DEF StartUpload
<1>3. harm' \subseteq Harms
  BY <1>1, HarmTypes DEF TypeInv, TypeOK, Harms
<1>4. request' \in [Workers -> Requests \cup {Idle}]
  BY <1>1, OtherRequests DEF TypeInv
<1>5. TypeOK'
  BY <1>2, <1>3, <1>4 DEF TypeInv, TypeOK
<1>6. RequestsFit'
  BY <1>1, <1>2, OtherRequests DEF TypeInv, RequestsFit, Saving, Adding
<1>7. QED
  BY <1>2, <1>5, <1>6 DEF TypeInv, ListsFit, Held, InDraft, Saved

LEMMA SaveType ==
  ASSUME TypeInv, NEW w \in Workers, SaveFile(w)
  PROVE  TypeInv'
<1> DEFINE rq  == request[w]
           f   == made + 1
           new == [rq EXCEPT !.at = "add", !.file = f]
<1>1. /\ Saving(w) /\ rq \in Uploads
      /\ f \in Files /\ f \in Nat /\ f \notin Saved
      /\ made \in Nat /\ made' = f
      /\ Saved' = (Saved \ {rq.victim}) \cup {f}
      /\ file'[f] = [history |-> rq.history, revision |-> rq.revision]
      /\ \A g \in Saved' : g # f => file'[g] = file[g]
      /\ Held' = Held \ {rq.victim}
      /\ InDraft' = InDraft \ {rq.victim}
      /\ draft' \in Lists \cup {NoDraft}
      /\ draft' = NoDraft <=> draft = NoDraft
      /\ request' = [request EXCEPT ![w] = new]
      /\ request'[w] \in Uploads /\ Adding(w)'
      /\ request'[w].file = f
  BY SaveFacts
<1>2. /\ active' = active \ {rq.victim} /\ inactive' = inactive \ {rq.victim}
      /\ kept' \subseteq kept
      /\ UNCHANGED <<histories, published, dropped, harm>>
  BY DEF SaveFile
<1>3. file' \in [Files -> Row \cup {None}]
  <2>1. file'[f] \in Row
    BY SaveFacts
  <2>2. file' = [g \in Files |->
           IF g = f THEN [history |-> rq.history, revision |-> rq.revision]
           ELSE IF g = rq.victim THEN None ELSE file[g]]
    BY DEF SaveFile
  <2>3. \A g \in Files : file'[g] \in Row \cup {None}
    BY <2>1, <2>2 DEF TypeInv, TypeOK
  <2>4. QED
    BY <2>2, <2>3
<1>4. request' \in [Workers -> Requests \cup {Idle}]
  <2>1. new \in Uploads
    BY <1>1, OtherRequests DEF TypeInv
  <2>2. QED
    BY <1>1, <2>1, OtherRequests DEF TypeInv
<1>5. made' \in 0..MaxFiles
  BY <1>1 DEF Files
<1>6. TypeOK'
  BY <1>1, <1>2, <1>3, <1>4, <1>5 DEF TypeInv, TypeOK
<1>7. (\A g \in Saved : g <= made /\ file[g].revision <= made)'
  <2> SUFFICES ASSUME NEW g \in Saved'
               PROVE  g <= made' /\ file'[g].revision <= made'
    OBVIOUS
  <2>1. CASE g = f
    <3>1. rq.revision <= made + 1
      BY <1>1 DEF TypeInv, RequestsFit
    <3>2. QED
      BY <1>1, <2>1, <3>1
  <2>2. CASE g # f
    <3>1. g \in Saved /\ file'[g] = file[g]
      BY <1>1, <2>2
    <3>2. g \in Nat /\ file[g].revision \in 1..MaxFiles
      BY <3>1, SavedFiles DEF TypeInv
    <3>3. g <= made /\ file[g].revision <= made
      BY <3>1 DEF TypeInv
    <3>4. QED
      BY <1>1, <3>1, <3>2, <3>3
  <2>3. QED
    BY <2>1, <2>2
<1>8. RequestsFit'
  <2> SUFFICES ASSUME NEW x \in Workers
               PROVE  /\ Saving(x)' => request'[x].revision <= made' + 1
                      /\ Adding(x)' => request'[x].file \in 1..made'
    BY DEF RequestsFit
  <2>1. CASE x = w
    BY <1>1, <2>1 DEF Saving, Adding
  <2>2. CASE x # w
    <3> HIDE DEF new
    <3>1. request'[x] = request[x] /\ (Saving(x)' <=> Saving(x)) /\ (Adding(x)' <=> Adding(x))
      BY <1>1, <2>2, OtherRequests DEF TypeInv
    <3>2. request[x] # Idle => request[x] \in Uploads \/ ~(Saving(x) \/ Adding(x))
      BY RequestKinds DEF TypeInv
    <3>3. request[x] \in Uploads => request[x].revision \in Nat
      BY FilesAssumption DEF Uploads
    <3>4. QED
      BY <1>1, <3>1, <3>2, <3>3 DEF TypeInv, RequestsFit, Saving, Adding
  <2>3. QED
    BY <2>1, <2>2
<1>9. ListsFit'
  BY <1>1 DEF TypeInv, ListsFit
<1>10. (kept \cup published \cup dropped \subseteq 1..made)'
  BY <1>1, <1>2 DEF TypeInv
<1>11. QED
  BY <1>6, <1>7, <1>8, <1>9, <1>10 DEF TypeInv

(* The lists of the draft that a request makes or changes.                 *)
LEMMA DraftedFit ==
  ASSUME TypeInv
  PROVE  /\ Drafted \in Lists
         /\ InDraft \subseteq Drafted.active \cup Drafted.inactive
         /\ Drafted.active \cup Drafted.inactive \subseteq Saved
         /\ Drafted.active \cup Drafted.inactive \subseteq Held \cup InDraft
         /\ draft = NoDraft => Held = Drafted.active \cup Drafted.inactive
BY DraftLists DEF TypeInv, TypeOK, ListsFit, Held, Drafted, InDraft, Lists

(* What an upload makes a draft of: each list, or nothing in its place.    *)
LEMMA CountedLists ==
  ASSUME TypeInv, NEW counted
  PROVE  LET lists == DraftedOf(counted) IN
         /\ lists \in Lists
         /\ lists.active \in {{}, Drafted.active}
         /\ lists.inactive \in {{}, Drafted.inactive}
         /\ draft # NoDraft => lists = draft /\ lists = Drafted
<1>1. CASE draft = NoDraft
  <2>1. Drafted.active = active /\ Drafted.inactive = inactive
    BY <1>1, DraftLists DEF TypeInv
  <2>2. QED
    BY <1>1, <2>1 DEF DraftedOf, Lists, TypeInv, TypeOK
<1>2. CASE draft # NoDraft
  BY <1>2, DraftLists DEF DraftedOf, TypeInv
<1>3. QED
  BY <1>1, <1>2

(* An upload ends: its file is added to the draft.                         *)
LEMMA AddFacts ==
  ASSUME TypeInv, NEW w \in Workers, AddToDraft(w)
  PROVE  LET f == request[w].file IN
         /\ Adding(w) /\ f \in 1..made
         /\ request' = [request EXCEPT ![w] = Idle]
         /\ UNCHANGED <<file, made, histories, active, inactive, published, dropped,
                        Saved, Held>>
         /\ draft' \in Lists /\ draft' # NoDraft
         /\ InDraft' = draft'.active \cup draft'.inactive
         /\ \E lists \in Lists :
              /\ lists.active \in {{}, Drafted.active}
              /\ lists.inactive \in {{}, Drafted.inactive}
              /\ draft # NoDraft => lists = draft /\ lists = Drafted
              /\ lists = Drafted \/ "stale" \in harm'
              /\ draft'.active = lists.active \cup ({f} \cap Saved)
              /\ draft'.inactive = lists.inactive
<1> DEFINE f == request[w].file
<1> PICK lists : lists = DraftedOf(request[w].counted)
  OBVIOUS
<1>1. /\ Adding(w)
      /\ draft' = IF f \in Saved
                    THEN [lists EXCEPT !.active = @ \cup {f}] ELSE lists
      /\ request' = [request EXCEPT ![w] = Idle]
      /\ lists = Drafted \/ "stale" \in harm'
      /\ UNCHANGED <<file, made, histories, active, inactive, published, dropped>>
  BY DEF AddToDraft, Adding
<1>2. /\ lists \in Lists
      /\ lists.active \in {{}, Drafted.active}
      /\ lists.inactive \in {{}, Drafted.inactive}
      /\ draft # NoDraft => lists = draft /\ lists = Drafted
  BY CountedLists
<1>3. /\ draft' \in Lists
      /\ draft'.active = lists.active \cup ({f} \cap Saved)
      /\ draft'.inactive = lists.inactive
  BY <1>1, <1>2 DEF Saved, Lists
<1>4. draft' # NoDraft
  BY <1>3, FilesAssumption
<1>5. InDraft' = draft'.active \cup draft'.inactive
  BY <1>4 DEF InDraft
<1>6. f \in 1..made
  BY <1>1 DEF TypeInv, RequestsFit
<1>7. QED
  BY <1>1, <1>2, <1>3, <1>4, <1>5, <1>6 DEF Saved, Held

LEMMA AddType ==
  ASSUME TypeInv, NEW w \in Workers, AddToDraft(w)
  PROVE  TypeInv'
<1> PICK d, f : d = draft' /\ f = request[w].file
  OBVIOUS
<1>1. /\ f \in 1..made
      /\ request' = [request EXCEPT ![w] = Idle]
      /\ UNCHANGED <<file, made, histories, active, inactive, published, dropped>>
  BY AddFacts
<1>2. d \in Lists /\ d.active \cup d.inactive \subseteq Saved
  BY AddFacts, DraftedFit
<1>3. kept' = kept \cup ({f} \cap Saved)
  BY DEF AddToDraft
<1>4. harm' \subseteq Harms
  BY HarmTypes DEF AddToDraft, TypeInv, TypeOK, Harms
<1>5. request' \in [Workers -> Requests \cup {Idle}]
  BY <1>1, OtherRequests DEF TypeInv
<1>6. RequestsFit'
  BY <1>1, OtherRequests DEF TypeInv, RequestsFit, Saving, Adding
<1>7. kept' \cup dropped' \subseteq 1..made
  BY <1>1, <1>3 DEF TypeInv
<1>8. QED
  BY <1>1, <1>2, <1>4, <1>5, <1>6, <1>7, ListsKeepType

(* Nobody's request changes.                                               *)
LEMMA SameRequests ==
  ASSUME TypeInv, UNCHANGED <<request, made>>
  PROVE  RequestsFit' /\ request' \in [Workers -> Requests \cup {Idle}]
BY DEF TypeInv, TypeOK, RequestsFit, Saving, Adding

LEMMA DeleteType ==
  ASSUME TypeInv, NEW f \in Files, DeleteFile(f)
  PROVE  TypeInv'
<1>1. /\ f \in Saved \cap (active \cup inactive \cup InDraft)
      /\ harm' = harm \cup Late \cup Disturbs(file[f].history)
           \cup IF /\ f \in active \cup inactive
                   /\ AllRevisions(f) \ (active \cup inactive) # {}
                  THEN {"buried"} ELSE {}
      /\ UNCHANGED <<made, histories, active, inactive, request, published>>
  BY DEF DeleteFile
<1>2. harm' \subseteq Harms
  BY <1>1, HarmTypes DEF TypeInv, TypeOK, Harms
<1>3. RequestsFit' /\ request' \in [Workers -> Requests \cup {Idle}]
  BY <1>1, SameRequests
<1>4. CASE f \in active \cup inactive
  <2> DEFINE d == ToDelete(f)
  <2>1. draft' = d /\ UNCHANGED <<file, kept, dropped>>
    BY <1>4 DEF DeleteFile
  <2>2. AllRevisions(f) \subseteq Saved
    BY DEF AllRevisions, Revisions
  <2>3. d \in Lists /\ d.active \cup d.inactive \subseteq Saved
    BY <2>2, DraftedFit DEF ToDelete, Lists, Saved
  <2>4. kept' \cup dropped' \subseteq 1..made
    BY <2>1 DEF TypeInv
  <2> HIDE DEF d
  <2>5. QED
    BY <1>1, <1>2, <1>3, <2>1, <2>3, <2>4, ListsKeepType
<1>5. CASE f \notin active \cup inactive
  <2> DEFINE d == [active |-> Drafted.active \ {f}, inactive |-> Drafted.inactive \ {f}]
  <2>1. /\ file' = [file EXCEPT ![f] = None]
        /\ draft' = Without(Drafted, {f})
        /\ kept' = kept \ {f} /\ dropped' = dropped \cup {f}
    BY <1>5 DEF DeleteFile
  <2>2. draft' = d /\ d \in Lists
    BY <2>1, DraftedFit, FilesAssumption DEF Without, Lists
  <2>3. draft' # NoDraft /\ InDraft' = d.active \cup d.inactive
    BY <2>2, NewLists
  <2>4. Saved' = Saved \ {f} /\ \A g \in Saved' : file'[g] = file[g]
    BY <2>1 DEF Saved, TypeInv, TypeOK
  <2>5. f \in 1..made
    BY <1>1, FilesAssumption DEF TypeInv, TypeOK, Saved, Files
  <2>6. ListsFit'
    BY <1>1, <1>5, <2>3, <2>4, DraftedFit DEF ListsFit, Held, TypeInv
  <2>7. (kept \cup published \cup dropped \subseteq 1..made)'
    BY <1>1, <2>1, <2>5 DEF TypeInv
  <2>8. file' \in [Files -> Row \cup {None}]
    BY <2>1 DEF TypeInv, TypeOK
  <2>9. TypeOK'
    BY <1>1, <1>2, <1>3, <2>1, <2>2, <2>8 DEF TypeInv, TypeOK
  <2>10. QED
    BY <1>1, <1>3, <2>4, <2>6, <2>7, <2>9 DEF TypeInv
<1>6. QED
  BY <1>4, <1>5

LEMMA UndoType ==
  ASSUME TypeInv, NEW f \in Files, UndoDelete(f)
  PROVE  TypeInv'
<1> DEFINE d == [draft EXCEPT !.inactive = @ \ AllRevisions(f),
                              !.active = @ \cup AllRevisions(f)]
<1>1. /\ draft # NoDraft
      /\ draft' = d
      /\ harm' = harm \cup Late \cup Disturbs(file[f].history)
           \cup IF AllRevisions(f) \cap inactive # {} THEN {"brought back"} ELSE {}
      /\ UNCHANGED <<file, made, histories, active, inactive, request, kept,
                     published, dropped>>
  BY DEF UndoDelete, PendingDeletion
<1>2. harm' \subseteq Harms
  BY <1>1, HarmTypes DEF TypeInv, TypeOK, Harms
<1>3. AllRevisions(f) \subseteq Saved
  BY DEF AllRevisions, Revisions
<1>4. draft \in Lists /\ Drafted = draft
  BY <1>1, DraftLists DEF TypeInv
<1>5. d \in Lists /\ d.active \cup d.inactive \subseteq Saved
  BY <1>3, <1>4, DraftedFit DEF Lists, Saved
<1>6. kept' \cup dropped' \subseteq 1..made
  BY <1>1 DEF TypeInv
<1> HIDE DEF d
<1>7. QED
  BY <1>1, <1>2, <1>5, <1>6, SameRequests, ListsKeepType

(* The draft goes.                                                         *)
LEMMA GoneType ==
  ASSUME TypeInv, draft # NoDraft, DraftDeleted,
         UNCHANGED <<made, histories, active, published>>,
         harm' \subseteq Harms,
         RequestsFit', request' \in [Workers -> Requests \cup {Idle}],
         kept' \cup dropped' \subseteq 1..made
  PROVE  TypeInv'
<1>1. /\ Doomed = draft.active \ active
      /\ Saved' = Saved \ Doomed
      /\ \A g \in Saved' : file'[g] = file[g]
      /\ file' \in [Files -> Row \cup {None}]
      /\ inactive' = inactive \ Doomed
      /\ draft' = NoDraft /\ InDraft' = {}
  BY DraftDeletedFacts
<1>2. kept' \cup dropped' \subseteq Files
  BY FilesAssumption DEF TypeInv, TypeOK, Files
<1>3. TypeOK'
  BY <1>1, <1>2 DEF TypeInv, TypeOK
<1>4. ListsFit'
  BY <1>1 DEF TypeInv, ListsFit, Held
<1>5. (kept \cup published \cup dropped \subseteq 1..made)'
  BY DEF TypeInv
<1>6. (\A f \in Saved : f <= made /\ file[f].revision <= made)'
  BY <1>1 DEF TypeInv
<1>7. QED
  BY <1>3, <1>4, <1>5, <1>6 DEF TypeInv

LEMMA DiscardType ==
  ASSUME TypeInv, DiscardDraft
  PROVE  TypeInv'
<1>1. /\ draft # NoDraft /\ DraftDeleted
      /\ dropped' = dropped \cup (InDraft \ (active \cup inactive))
      /\ kept' = kept \ (InDraft \ (active \cup inactive))
      /\ harm' = harm \cup Late
      /\ UNCHANGED <<made, histories, active, request, published>>
  BY DEF DiscardDraft
<1>2. InDraft \subseteq 1..made
  BY FilesAssumption DEF TypeInv, TypeOK, ListsFit, Saved, Files
<1>3. kept' \cup dropped' \subseteq 1..made
  BY <1>1, <1>2 DEF TypeInv
<1>4. harm' \subseteq Harms
  BY <1>1, HarmTypes DEF TypeInv, TypeOK
<1>5. QED
  BY <1>1, <1>3, <1>4, SameRequests, GoneType

(* The lists of the draft are those of the review request then.            *)
LEMMA CopyFacts ==
  ASSUME TypeInv, draft # NoDraft, CopyFiles, UNCHANGED <<file, draft>>
  PROVE  /\ active' = draft.active /\ inactive' = draft.inactive
         /\ Held' = InDraft /\ InDraft' = InDraft
         /\ Saved' = Saved /\ Held' \subseteq Saved
         /\ draft \in Lists
BY DEF CopyFiles, Held, InDraft, TypeInv, TypeOK, ListsFit, Saved

LEMMA CopyType ==
  ASSUME TypeInv, draft # NoDraft, CopyFiles,
         UNCHANGED <<file, made, histories, draft, kept, dropped>>,
         published' = published \cup draft.active,
         harm' \subseteq Harms,
         RequestsFit', request' \in [Workers -> Requests \cup {Idle}]
  PROVE  TypeInv'
<1>1. /\ active' = draft.active /\ inactive' = draft.inactive
      /\ Held' = InDraft /\ InDraft' = InDraft
      /\ Saved' = Saved /\ Held' \subseteq Saved
      /\ draft \in Lists
  BY CopyFacts
<1>2. draft.active \subseteq 1..made
  BY <1>1, FilesAssumption DEF InDraft, TypeInv, TypeOK, Files, Saved
<1>3. TypeOK'
  BY <1>1 DEF TypeInv, TypeOK, Lists
<1>4. ListsFit'
  BY <1>1 DEF TypeInv, ListsFit
<1>5. (kept \cup published \cup dropped \subseteq 1..made)'
  BY <1>2 DEF TypeInv
<1>6. QED
  BY <1>1, <1>3, <1>4, <1>5 DEF TypeInv

LEMMA PublishType ==
  ASSUME TypeInv, NEW w \in Workers, Publish(w)
  PROVE  TypeInv'
<1>1. /\ draft # NoDraft /\ CopyFiles
      /\ request' = [request EXCEPT ![w] = [at |-> "delete draft"]]
      /\ published' = published \cup draft.active
      /\ harm' = harm \cup Late \cup IF Victims # {} THEN {"victim"} ELSE {}
      /\ UNCHANGED <<file, made, histories, draft, kept, dropped>>
  BY DEF Publish
<1>2. harm' \subseteq Harms
  BY <1>1, HarmTypes DEF TypeInv, TypeOK, Harms
<1>3. request' \in [Workers -> Requests \cup {Idle}]
  BY <1>1, OtherRequests DEF TypeInv
<1>4. RequestsFit'
  <2>1. request'[w].at = "delete draft"
    BY <1>1, OtherRequests DEF TypeInv
  <2>2. ~Saving(w)' /\ ~Adding(w)'
    BY <2>1 DEF Saving, Adding
  <2>3. QED
    BY <1>1, <2>2, OtherRequests DEF TypeInv, RequestsFit
<1>5. QED
  BY <1>1, <1>2, <1>3, <1>4, CopyType

LEMMA PublishFailsType ==
  ASSUME TypeInv, PublishFails
  PROVE  TypeInv'
<1>1. /\ draft # NoDraft /\ CopyFiles
      /\ published' = published \cup draft.active
      /\ harm' = harm \cup IF Victims # {} THEN {"victim"} ELSE {}
      /\ UNCHANGED <<file, made, histories, draft, request, kept, dropped>>
  BY DEF PublishFails
<1>2. harm' \subseteq Harms
  BY <1>1 DEF TypeInv, TypeOK, Harms
<1>3. QED
  BY <1>1, <1>2, SameRequests, CopyType

LEMMA DeleteDraftType ==
  ASSUME TypeInv, NEW w \in Workers, DeleteDraft(w)
  PROVE  TypeInv'
<1>1. /\ request' = [request EXCEPT ![w] = Idle]
      /\ UNCHANGED <<made, histories, active, kept, published, dropped, harm>>
  BY DEF DeleteDraft
<1>2. request' \in [Workers -> Requests \cup {Idle}]
  BY <1>1, OtherRequests DEF TypeInv
<1>3. RequestsFit'
  BY <1>1, OtherRequests DEF TypeInv, RequestsFit, Saving, Adding
<1>4. CASE draft = NoDraft
  <2>1. UNCHANGED <<file, inactive, draft>>
    BY <1>4 DEF DeleteDraft
  <2>2. TypeOK'
    BY <1>1, <1>2, <2>1 DEF TypeInv, TypeOK
  <2>3. QED
    BY <1>1, <1>3, <2>1, <2>2 DEF TypeInv, ListsFit, Held, InDraft, Saved
<1>5. CASE draft # NoDraft
  <2>1. DraftDeleted
    BY <1>5 DEF DeleteDraft
  <2>2. kept' \cup dropped' \subseteq 1..made /\ harm' \subseteq Harms
    BY <1>1 DEF TypeInv, TypeOK
  <2>3. QED
    BY <1>1, <1>2, <1>3, <1>5, <2>1, <2>2, GoneType
<1>6. QED
  BY <1>4, <1>5

LEMMA NextType ==
  ASSUME TypeInv, [Next]_vars
  PROVE  TypeInv'
<1>1. CASE Next
  BY <1>1, LoadType, StartType, SaveType, AddType, PublishType, DeleteDraftType, DeleteType,
     UndoType, DiscardType, PublishFailsType DEF Next
<1>2. CASE UNCHANGED vars
  <2>1. TypeOK'
    BY <1>2 DEF vars, TypeInv, TypeOK
  <2>2. QED
    BY <1>2, <2>1, SameRequests DEF vars, TypeInv, ListsFit, Held, InDraft, Saved
<1>3. QED
  BY <1>1, <1>2

(* Rows, lists and requests are of their types: no revision is numbered    *)
(* higher than there are files.                                            *)
THEOREM TypeCorrect == Spec => []TypeOK
<1>1. Init => TypeInv
  BY InitFacts
<1>2. TypeInv /\ [Next]_vars => TypeInv'
  BY NextType
<1>3. TypeInv => TypeOK
  BY DEF TypeInv
<1>4. QED
  BY <1>1, <1>2, <1>3, PTL DEF Spec

-----------------------------------------------------------------------------
(***************************************************************************)
(* What was discarded stays away.                                          *)
(***************************************************************************)

(* A file that was discarded has no row, and the draft deletes only what   *)
(* the review request has.                                                 *)
DiscardInv ==
  Unless({"buried"}) \/
    /\ dropped \cap Saved = {}
    /\ draft # NoDraft => draft.inactive \subseteq Held

(* What has gone wrong stays recorded.                                     *)
LEMMA HarmStays ==
  ASSUME [Next]_vars
  PROVE  harm \subseteq harm'
BY DEF Next, vars, LoadReviewRequest, StartUpload, SaveFile, AddToDraft, DeleteFile, UndoDelete,
       DiscardDraft, Publish, DeleteDraft, PublishFails

(* In the rest of this part the step does not record the cause.            *)
LEMMA DiscardStep ==
  ASSUME TypeInv, TypeInv', Next, "buried" \notin harm',
         dropped \cap Saved = {},
         draft # NoDraft => draft.inactive \subseteq Held
  PROVE  /\ dropped' \cap Saved' = {}
         /\ draft' # NoDraft => draft'.inactive \subseteq Held'
<1> DEFINE Goal == /\ dropped' \cap Saved' = {}
                   /\ draft' # NoDraft => draft'.inactive \subseteq Held'
<1>1. /\ Drafted \in Lists
      /\ draft # NoDraft => Drafted = draft /\ draft \in Lists
      /\ Drafted.inactive \subseteq Held
  BY DraftLists DEF TypeInv, Held, Drafted, Lists
<1>2. dropped \subseteq 1..made /\ Held \subseteq Saved
  BY DEF TypeInv, ListsFit
<1>3. ASSUME NEW w \in Workers, NEW h \in Histories, StartUpload(w, h)
      PROVE  Goal
  BY <1>3 DEF StartUpload, Saved, Held
<1>4. ASSUME NEW w \in Workers, SaveFile(w)
      PROVE  Goal
  <2> DEFINE v == request[w].victim
  <2>1. /\ Saved' = (Saved \ {v}) \cup {made + 1}
        /\ made \in Nat /\ Held' = Held \ {v}
    BY <1>4, SaveFacts
  <2>2. /\ draft' = NoDraft <=> draft = NoDraft
        /\ draft # NoDraft => draft'.inactive = draft.inactive \ {v}
    BY <1>4, WithoutFacts DEF SaveFile, TypeInv
  <2>3. dropped' = dropped
    BY <1>4 DEF SaveFile
  <2>4. made + 1 \notin dropped
    BY <1>2, <2>1
  <2>5. QED
    BY <2>1, <2>2, <2>3, <2>4
<1>5. ASSUME NEW w \in Workers, AddToDraft(w)
      PROVE  Goal
  <2>1. draft'.inactive \subseteq Drafted.inactive
    BY <1>5, AddFacts
  <2>2. UNCHANGED <<dropped, Saved, Held>>
    BY <1>5, AddFacts
  <2>3. QED
    BY <1>1, <2>1, <2>2
<1>6. ASSUME NEW f \in Files, DeleteFile(f)
      PROVE  Goal
  <2>1. UNCHANGED <<active, inactive>>
    BY <1>6 DEF DeleteFile
  <2>2. CASE f \in active \cup inactive
    <3>1. /\ draft' = ToDelete(f) /\ UNCHANGED <<file, dropped>>
          /\ AllRevisions(f) \subseteq Held
      BY <1>6, <2>2 DEF DeleteFile, Held
    <3>2. draft'.inactive = Drafted.inactive \cup AllRevisions(f)
      BY <1>1, <3>1 DEF ToDelete, Lists
    <3>3. QED
      BY <1>1, <2>1, <3>1, <3>2 DEF Held, Saved
  <2>3. CASE f \notin active \cup inactive
    <3>1. /\ file' = [file EXCEPT ![f] = None]
          /\ draft' = Without(Drafted, {f})
          /\ dropped' = dropped \cup {f}
      BY <1>6, <2>3 DEF DeleteFile
    <3>2. draft'.inactive = Drafted.inactive \ {f}
      BY <1>1, <3>1, FilesAssumption DEF Without
    <3>3. Saved' = Saved \ {f}
      BY <3>1 DEF Saved, TypeInv, TypeOK
    <3>4. QED
      BY <1>1, <2>1, <2>3, <3>1, <3>2, <3>3 DEF Held
  <2>4. QED
    BY <2>2, <2>3
<1>7. ASSUME NEW f \in Files, UndoDelete(f)
      PROVE  Goal
  <2>1. draft # NoDraft /\ UNCHANGED <<file, active, inactive, dropped>>
    BY <1>7 DEF UndoDelete, PendingDeletion
  <2>2. draft'.inactive = draft.inactive \ AllRevisions(f)
    BY <1>1, <1>7, <2>1 DEF UndoDelete, Lists
  <2>3. QED
    BY <1>1, <2>1, <2>2 DEF Held, Saved
<1>8. CASE DiscardDraft
  <2>1. /\ draft # NoDraft /\ DraftDeleted
        /\ dropped' = dropped \cup (InDraft \ (active \cup inactive))
    BY <1>8 DEF DiscardDraft
  <2>2. /\ Doomed = draft.active \ active
        /\ Saved' = Saved \ Doomed /\ draft' = NoDraft
    BY <2>1, DraftDeletedFacts
  <2>3. InDraft \ (active \cup inactive) \subseteq Doomed
    BY <1>1, <2>1, <2>2 DEF InDraft, Held
  <2>4. QED
    BY <2>1, <2>2, <2>3
<1>9. ASSUME draft # NoDraft, CopyFiles, UNCHANGED <<file, draft, dropped>>
      PROVE  Goal
  BY <1>9, CopyFacts DEF InDraft
<1>10. ASSUME NEW w \in Workers, DeleteDraft(w)
       PROVE  Goal
  <2>1. CASE draft = NoDraft
    BY <1>10, <2>1 DEF DeleteDraft, Saved
  <2>2. CASE draft # NoDraft
    BY <1>10, <2>2, DraftDeletedFacts DEF DeleteDraft
  <2>3. QED
    BY <2>1, <2>2
<1>11. ASSUME NEW w \in Workers, LoadReviewRequest(w)
       PROVE  Goal
  BY <1>11 DEF LoadReviewRequest, Saved, Held
<1>12. QED
  BY <1>3, <1>4, <1>5, <1>6, <1>7, <1>8, <1>9, <1>10, <1>11
     DEF Next, Publish, PublishFails

LEMMA DiscardInvStep ==
  ASSUME TypeInv, DiscardInv, [Next]_vars
  PROVE  DiscardInv'
<1>1. TypeInv'
  BY NextType
<1>2. CASE "buried" \in harm'
  BY <1>2 DEF DiscardInv, Unless
<1>3. CASE "buried" \notin harm'
  <2>1. /\ dropped \cap Saved = {}
        /\ draft # NoDraft => draft.inactive \subseteq Held
    BY <1>3, HarmStays DEF DiscardInv, Unless
  <2>2. CASE Next
    BY <1>1, <1>3, <2>1, <2>2, DiscardStep DEF DiscardInv
  <2>3. CASE UNCHANGED vars
    BY <2>1, <2>3 DEF vars, DiscardInv, Saved, Held
  <2>4. QED
    BY <2>2, <2>3
<1>4. QED
  BY <1>2, <1>3

(* A file that was discarded with its draft is never published later,      *)
(* unless a deletion took unpublished revisions along.                     *)
THEOREM DiscardedFilesStayAway == Spec => []DiscardedStayAway
<1> DEFINE IInv == TypeInv /\ DiscardInv
<1>1. Init => IInv
  BY InitFacts DEF Init, DiscardInv
<1>2. IInv /\ [Next]_vars => IInv'
  BY NextType, DiscardInvStep
<1>3. IInv => DiscardedStayAway
  BY DEF TypeInv, ListsFit, Held, DiscardInv, DiscardedStayAway
<1>4. QED
  BY <1>1, <1>2, <1>3, PTL DEF Spec

-----------------------------------------------------------------------------
(***************************************************************************)
(* Uploads, and the lists that they are added to.                          *)
(***************************************************************************)

(* As long as nothing disturbs an upload, it is the only one to its        *)
(* history, and no list names its file before it is added.                 *)
OneUpload ==
  \A w, x \in Workers :
    w # x /\ (Saving(w) \/ Adding(w)) /\ (Saving(x) \/ Adding(x)) =>
      request[w].history # request[x].history

AddingFits ==
  \A w \in Workers : Adding(w) =>
    /\ request[w].file \in Saved =>
         file[request[w].file].history = request[w].history
    /\ request[w].file \notin Held \cup InDraft

UploadInv == Unless({"same file"}) \/ (OneUpload /\ AddingFits)

(* No file is at the same time active and inactive, whether its place is   *)
(* looked up in the draft or in the review request.                        *)
Disjoint ==
  /\ active \cap inactive = {}
  /\ draft # NoDraft => draft.active \cap (inactive \cup draft.inactive) = {}

ListsInv == Unless({"same file", "brought back"}) \/ Disjoint

LEMMA UploadingWorkers ==
  ASSUME TypeOK, NEW w \in Workers, NEW h
  PROVE  w \in Uploading(h) <=> (Saving(w) \/ Adding(w)) /\ request[w].history = h
  BY DEF Uploading, Saving, Adding

(* Where nothing but the lists changes, it is enough to look at them.      *)
LEMMA UploadsKept ==
  ASSUME TypeInv, OneUpload, AddingFits,
         Saved' \subseteq Saved, \A g \in Saved' : file'[g] = file[g],
         \A w \in Workers : Saving(w)' \/ Adding(w)' =>
           /\ request'[w] = request[w]
           /\ Saving(w)' <=> Saving(w)
           /\ Adding(w)' <=> Adding(w)
           /\ Adding(w) => request[w].file \notin Held' \cup InDraft'
  PROVE  OneUpload' /\ AddingFits'
<1>1. OneUpload'
  BY DEF OneUpload
<1>2. AddingFits'
  BY DEF AddingFits
<1>3. QED
  BY <1>1, <1>2

LEMMA StartUploads ==
  ASSUME TypeInv, OneUpload, AddingFits, "same file" \notin harm',
         NEW w \in Workers, NEW h \in Histories, StartUpload(w, h)
  PROVE  OneUpload' /\ AddingFits'
<1>1. PICK new \in Uploads :
        /\ new.at = "save" /\ new.history = h
        /\ request' = [request EXCEPT ![w] = new]
        /\ \/ harm' = harm \cup Disturbs(h) \cup {"revived"}
           \/ harm' = harm \cup Disturbs(h) \cup {}
  BY StartFacts
<1>2. Uploading(h) = {}
  BY <1>1 DEF Disturbs
<1>3. /\ request'[w] = new
      /\ \A x \in Workers \ {w} : /\ request'[x] = request[x]
                                  /\ Saving(x)' <=> Saving(x)
                                  /\ Adding(x)' <=> Adding(x)
  BY <1>1, OtherRequests DEF TypeInv
<1>4. ~Adding(w)' /\ request'[w].history = h
  BY <1>1, <1>3 DEF Adding
<1>5. \A x \in Workers \ {w} : Saving(x) \/ Adding(x) => request[x].history # h
  BY <1>2, UploadingWorkers DEF TypeInv
<1>6. OneUpload'
  BY <1>3, <1>4, <1>5 DEF OneUpload
<1>7. UNCHANGED <<Saved, Held, InDraft, file>>
  BY DEF StartUpload, Saved, Held, InDraft
<1>8. AddingFits'
  BY <1>3, <1>4, <1>7 DEF AddingFits
<1>9. QED
  BY <1>6, <1>8

LEMMA SaveUploads ==
  ASSUME TypeInv, OneUpload, AddingFits, NEW w \in Workers, SaveFile(w)
  PROVE  OneUpload' /\ AddingFits'
<1> DEFINE rq  == request[w]
           f   == made + 1
           new == [rq EXCEPT !.at = "add", !.file = f]
<1>1. /\ Saving(w)
      /\ f \notin Saved /\ made \in Nat
      /\ Saved' = (Saved \ {rq.victim}) \cup {f}
      /\ file'[f] = [history |-> rq.history, revision |-> rq.revision]
      /\ \A g \in Saved' : g # f => file'[g] = file[g]
      /\ Held' = Held \ {rq.victim}
      /\ InDraft' = InDraft \ {rq.victim}
      /\ request' = [request EXCEPT ![w] = new]
      /\ request'[w].file = f /\ request'[w].history = rq.history
  BY SaveFacts
<1> HIDE DEF new
<1>2. \A x \in Workers \ {w} : /\ request'[x] = request[x]
                               /\ Saving(x)' <=> Saving(x)
                               /\ Adding(x)' <=> Adding(x)
  BY <1>1, OtherRequests DEF TypeInv
<1>3. OneUpload'
  BY <1>1, <1>2 DEF OneUpload
<1>4. file'[f].history = rq.history
  BY <1>1
<1>5. f \notin Held' \cup InDraft'
  BY <1>1 DEF TypeInv, ListsFit
<1>6. \A x \in Workers : Adding(x) => request[x].file # f
  BY <1>1 DEF TypeInv, RequestsFit
<1>7. AddingFits'
  <2> SUFFICES ASSUME NEW x \in Workers, Adding(x)'
               PROVE  /\ request'[x].file \in Saved' =>
                           file'[request'[x].file].history = request'[x].history
                      /\ request'[x].file \notin Held' \cup InDraft'
    BY DEF AddingFits
  <2>1. CASE x = w
    BY <1>1, <1>4, <1>5, <2>1
  <2>2. CASE x # w
    <3>1. request'[x] = request[x] /\ Adding(x) /\ request[x].file # f
      BY <1>2, <1>6, <2>2
    <3>2. QED
      BY <1>1, <3>1 DEF AddingFits
  <2>3. QED
    BY <2>1, <2>2
<1>8. QED
  BY <1>3, <1>7

LEMMA AddUploads ==
  ASSUME TypeInv, OneUpload, AddingFits, NEW w \in Workers, AddToDraft(w)
  PROVE  OneUpload' /\ AddingFits'
<1> DEFINE f == request[w].file
<1>1. /\ Adding(w)
      /\ request' = [request EXCEPT ![w] = Idle]
      /\ UNCHANGED <<file, active, inactive>>
  BY AddFacts
<1>2. InDraft' \subseteq Drafted.active \cup Drafted.inactive \cup ({f} \cap Saved)
  BY AddFacts
<1>3. /\ Held' = Held /\ Saved' = Saved
      /\ InDraft' \subseteq Held \cup InDraft \cup ({f} \cap Saved)
  BY <1>2, AddFacts, DraftedFit
<1>4. /\ request'[w] = Idle
      /\ \A x \in Workers \ {w} : /\ request'[x] = request[x]
                                  /\ Saving(x)' <=> Saving(x)
                                  /\ Adding(x)' <=> Adding(x)
  BY <1>1, OtherRequests DEF TypeInv
<1>5. \A x \in Workers \ {w} : Adding(x) =>
        request[x].file \notin Held' \cup InDraft'
  <2> SUFFICES ASSUME NEW x \in Workers \ {w}, Adding(x), f \in Saved
               PROVE  request[x].file # f
    BY <1>3 DEF AddingFits
  <2>1. file[f].history = request[w].history
    BY <1>1 DEF AddingFits
  <2>2. request[x].file = f => file[f].history = request[x].history
    BY DEF AddingFits
  <2>3. QED
    BY <1>1, <2>1, <2>2 DEF OneUpload
<1>6. ~Saving(w)' /\ ~Adding(w)'
  BY <1>4 DEF Saving, Adding
<1>7. QED
  BY <1>1, <1>3, <1>4, <1>5, <1>6, UploadsKept

(* A deletion or its undoing takes the revisions of a file along.          *)
LEMMA ListUploads ==
  ASSUME TypeInv, OneUpload, AddingFits, NEW f \in Saved,
         Uploading(file[f].history) = {},
         UNCHANGED <<active, inactive, request>>,
         Saved' \subseteq Saved, \A g \in Saved' : file'[g] = file[g],
         InDraft' \subseteq Held \cup InDraft \cup AllRevisions(f)
  PROVE  OneUpload' /\ AddingFits'
<1>1. ASSUME NEW x \in Workers, Adding(x)
      PROVE  request[x].file \notin AllRevisions(f)
  <2> SUFFICES ASSUME request[x].file \in AllRevisions(f)
               PROVE  FALSE
    OBVIOUS
  <2>1. file[request[x].file].history = file[f].history
    BY DEF AllRevisions, Revisions
  <2>2. request[x].history = file[f].history
    BY <1>1, <2>1 DEF AddingFits, AllRevisions, Revisions
  <2>3. QED
    BY <1>1, <2>2, UploadingWorkers DEF TypeInv
<1>2. Held' = Held
  BY DEF Held
<1>3. \A x \in Workers : /\ request'[x] = request[x]
                         /\ Saving(x)' <=> Saving(x)
                         /\ Adding(x)' <=> Adding(x)
  BY DEF Saving, Adding
<1>4. \A x \in Workers : Adding(x) => request[x].file \notin Held' \cup InDraft'
  BY <1>1, <1>2 DEF AddingFits
<1>5. QED
  BY <1>3, <1>4, UploadsKept

LEMMA DeletedLists ==
  ASSUME TypeInv, NEW f \in Files, DeleteFile(f)
  PROVE  /\ f \in Saved
         /\ Saved' \subseteq Saved /\ \A g \in Saved' : file'[g] = file[g]
         /\ UNCHANGED <<active, inactive, request>>
         /\ draft' \in Lists
         /\ draft' # NoDraft /\ InDraft' = draft'.active \cup draft'.inactive
         /\ draft'.active \subseteq Drafted.active
         /\ \/ /\ f \in Held
               /\ draft'.active = Drafted.active \ AllRevisions(f)
               /\ draft'.inactive = Drafted.inactive \cup AllRevisions(f)
               /\ UNCHANGED <<file, kept>>
            \/ /\ f \notin Held
               /\ draft'.active = Drafted.active \ {f}
               /\ draft'.inactive = Drafted.inactive \ {f}
               /\ file' = [file EXCEPT ![f] = None]
               /\ Saved' = Saved \ {f}
               /\ kept' = kept \ {f}
<1>1. f \in Saved /\ UNCHANGED <<active, inactive, request>>
  BY DEF DeleteFile
<1>2. Drafted \in Lists /\ Drafted # NoDraft
  BY DraftedFit, FilesAssumption
<1>3. CASE f \in Held
  <2>1. draft' = ToDelete(f) /\ UNCHANGED <<file, kept>>
    BY <1>3 DEF DeleteFile, Held
  <2>2. AllRevisions(f) \subseteq Files
    BY DEF AllRevisions, Revisions, Saved
  <2>3. /\ draft' \in Lists
        /\ draft'.active = Drafted.active \ AllRevisions(f)
        /\ draft'.inactive = Drafted.inactive \cup AllRevisions(f)
    BY <1>2, <2>1, <2>2 DEF ToDelete, Lists
  <2>4. draft' # NoDraft
    BY <2>3, FilesAssumption
  <2>5. InDraft' = draft'.active \cup draft'.inactive
    BY <2>4 DEF InDraft
  <2>6. QED
    BY <1>1, <1>3, <2>1, <2>3, <2>4, <2>5 DEF Saved
<1>4. CASE f \notin Held
  <2>1. /\ draft' = Without(Drafted, {f}) /\ file' = [file EXCEPT ![f] = None]
        /\ kept' = kept \ {f}
    BY <1>4 DEF DeleteFile, Held
  <2>2. /\ draft' \in Lists
        /\ draft'.active = Drafted.active \ {f}
        /\ draft'.inactive = Drafted.inactive \ {f}
    BY <1>2, <2>1 DEF Without, Lists
  <2>3. draft' # NoDraft
    BY <2>2, FilesAssumption
  <2>4. InDraft' = draft'.active \cup draft'.inactive
    BY <2>3 DEF InDraft
  <2>5. Saved' = Saved \ {f} /\ \A g \in Saved' : file'[g] = file[g]
    BY <2>1 DEF Saved, TypeInv, TypeOK
  <2>6. QED
    BY <1>1, <1>4, <2>1, <2>2, <2>3, <2>4, <2>5
<1>5. QED
  BY <1>3, <1>4

LEMMA UndoneLists ==
  ASSUME TypeInv, NEW f \in Files, UndoDelete(f)
  PROVE  /\ f \in Saved
         /\ UNCHANGED <<file, active, inactive, request, kept, Saved>>
         /\ draft # NoDraft
         /\ draft' \in Lists
         /\ draft' # NoDraft /\ InDraft' = draft'.active \cup draft'.inactive
         /\ draft'.active = draft.active \cup AllRevisions(f)
         /\ draft'.inactive = draft.inactive \ AllRevisions(f)
<1>1. /\ f \in Saved /\ draft # NoDraft
      /\ UNCHANGED <<file, active, inactive, request, kept>>
      /\ draft' = [draft EXCEPT !.inactive = @ \ AllRevisions(f),
                                !.active = @ \cup AllRevisions(f)]
  BY DEF UndoDelete, PendingDeletion
<1>2. draft \in Lists
  BY <1>1 DEF TypeInv, TypeOK
<1>3. AllRevisions(f) \subseteq Files
  BY DEF AllRevisions, Revisions, Saved
<1>4. /\ draft' \in Lists
      /\ draft'.active = draft.active \cup AllRevisions(f)
      /\ draft'.inactive = draft.inactive \ AllRevisions(f)
  BY <1>1, <1>2, <1>3 DEF Lists
<1>5. draft' # NoDraft
  BY <1>4, FilesAssumption
<1>6. InDraft' = draft'.active \cup draft'.inactive
  BY <1>5 DEF InDraft
<1>7. QED
  BY <1>1, <1>4, <1>5, <1>6 DEF Saved

(* A draft goes: what is held and what is being added stays apart.         *)
LEMMA GoneUploads ==
  ASSUME TypeInv, OneUpload, AddingFits, draft # NoDraft, DraftDeleted,
         UNCHANGED active,
         \A w \in Workers : request'[w] = request[w] \/ request'[w] = Idle
  PROVE  OneUpload' /\ AddingFits'
<1>1. /\ Saved' \subseteq Saved /\ \A g \in Saved' : file'[g] = file[g]
      /\ Held' \cup InDraft' \subseteq Held
  BY DraftDeletedFacts DEF Held
<1>2. \A w \in Workers : Saving(w)' \/ Adding(w)' =>
        /\ request'[w] = request[w]
        /\ Saving(w)' <=> Saving(w)
        /\ Adding(w)' <=> Adding(w)
  BY DEF Saving, Adding
<1>3. QED
  BY <1>1, <1>2, UploadsKept DEF AddingFits

LEMMA CopyUploads ==
  ASSUME TypeInv, OneUpload, AddingFits, draft # NoDraft, CopyFiles,
         UNCHANGED <<file, draft>>,
         \A w \in Workers : Saving(w)' \/ Adding(w)' => request'[w] = request[w]
  PROVE  OneUpload' /\ AddingFits'
<1>1. Saved' = Saved /\ Held' \cup InDraft' = InDraft
  BY CopyFacts
<1>2. \A w \in Workers : Saving(w)' \/ Adding(w)' =>
        /\ request'[w] = request[w]
        /\ Saving(w)' <=> Saving(w)
        /\ Adding(w)' <=> Adding(w)
  BY DEF Saving, Adding
<1>3. QED
  BY <1>1, <1>2, UploadsKept DEF AddingFits

LEMMA UploadStep ==
  ASSUME TypeInv, OneUpload, AddingFits, [Next]_vars, "same file" \notin harm'
  PROVE  OneUpload' /\ AddingFits'
<1>1. ASSUME NEW f \in Files, DeleteFile(f)
      PROVE  OneUpload' /\ AddingFits'
  <2>1. Uploading(file[f].history) = {}
    BY <1>1 DEF DeleteFile, Disturbs
  <2>2. /\ f \in Saved /\ UNCHANGED <<active, inactive, request>>
        /\ Saved' \subseteq Saved /\ \A g \in Saved' : file'[g] = file[g]
        /\ InDraft' = draft'.active \cup draft'.inactive
        /\ draft'.active \subseteq Drafted.active
        /\ draft'.inactive \subseteq Drafted.inactive \cup AllRevisions(f)
    BY <1>1, DeletedLists
  <2>3. Drafted.active \cup Drafted.inactive \subseteq Held \cup InDraft
    BY DraftLists DEF Held, Drafted, TypeInv
  <2>4. QED
    BY <2>1, <2>2, <2>3, ListUploads
<1>2. ASSUME NEW f \in Files, UndoDelete(f)
      PROVE  OneUpload' /\ AddingFits'
  <2>1. Uploading(file[f].history) = {}
    BY <1>2 DEF UndoDelete, Disturbs
  <2>2. /\ f \in Saved /\ UNCHANGED <<file, active, inactive, request, Saved>>
        /\ InDraft' \subseteq InDraft \cup AllRevisions(f)
    BY <1>2, UndoneLists DEF InDraft
  <2>3. QED
    BY <2>1, <2>2, ListUploads
<1>3. CASE DiscardDraft
  BY <1>3, GoneUploads DEF DiscardDraft
<1>4. ASSUME NEW w \in Workers, Publish(w)
      PROVE  OneUpload' /\ AddingFits'
  <2>1. /\ draft # NoDraft /\ CopyFiles /\ UNCHANGED <<file, draft>>
        /\ request' = [request EXCEPT ![w] = [at |-> "delete draft"]]
    BY <1>4 DEF Publish
  <2>2. \A x \in Workers : request'[x] = request[x] \/ request'[x].at = "delete draft"
    BY <2>1, OtherRequests DEF TypeInv
  <2>3. QED
    BY <2>1, <2>2, CopyUploads DEF Saving, Adding
<1>5. CASE PublishFails
  BY <1>5, CopyUploads DEF PublishFails
<1>6. ASSUME NEW w \in Workers, DeleteDraft(w)
      PROVE  OneUpload' /\ AddingFits'
  <2>1. request' = [request EXCEPT ![w] = Idle] /\ UNCHANGED active
    BY <1>6 DEF DeleteDraft
  <2>2. \A x \in Workers : request'[x] = request[x] \/ request'[x] = Idle
    BY <2>1, OtherRequests DEF TypeInv
  <2>3. CASE draft = NoDraft
    <3>1. UNCHANGED <<Saved, file, Held, InDraft>>
      BY <1>6, <2>1, <2>3 DEF DeleteDraft, Saved, Held, InDraft
    <3>2. QED
      BY <2>2, <3>1, UploadsKept DEF Saving, Adding, AddingFits
  <2>4. CASE draft # NoDraft
    BY <1>6, <2>1, <2>2, <2>4, GoneUploads DEF DeleteDraft
  <2>5. QED
    BY <2>3, <2>4
<1>7. CASE UNCHANGED vars
  BY <1>7 DEF vars, OneUpload, AddingFits, Saving, Adding, Saved, Held, InDraft
<1>8. ASSUME NEW w \in Workers, LoadReviewRequest(w)
      PROVE  OneUpload' /\ AddingFits'
  <2>1. UNCHANGED <<Saved, file, Held, InDraft>>
    BY <1>8, LoadFacts DEF TypeInv, Saved, Held, InDraft
  <2>2. \A x \in Workers : Saving(x)' \/ Adding(x)' =>
          /\ request'[x] = request[x]
          /\ Saving(x)' <=> Saving(x)
          /\ Adding(x)' <=> Adding(x)
    BY <1>8, LoadFacts DEF TypeInv
  <2>3. QED
    BY <2>1, <2>2, UploadsKept DEF AddingFits
<1>9. QED
  BY <1>1, <1>2, <1>3, <1>4, <1>5, <1>6, <1>7, <1>8, StartUploads, SaveUploads, AddUploads
     DEF Next

LEMMA DisjointStep ==
  ASSUME TypeInv, AddingFits, Disjoint, [Next]_vars, "brought back" \notin harm'
  PROVE  Disjoint'
<1>1. /\ Drafted \in Lists
      /\ Drafted.active \cap (inactive \cup Drafted.inactive) = {}
      /\ draft # NoDraft => Drafted = draft
  <2>1. CASE draft = NoDraft
    <3>1. Drafted = [active |-> active, inactive |-> inactive] /\ Drafted \in Lists
      BY <2>1, DraftLists DEF TypeInv
    <3>2. Drafted.active = active /\ Drafted.inactive = inactive
      BY <3>1
    <3>3. QED
      BY <2>1, <3>1, <3>2 DEF Disjoint
  <2>2. CASE draft # NoDraft
    BY <2>2, DraftLists DEF TypeInv, Disjoint
  <2>3. QED
    BY <2>1, <2>2
<1>2. ASSUME NEW w \in Workers, SaveFile(w)
      PROVE  Disjoint'
  <2>1. /\ draft' = NoDraft <=> draft = NoDraft
        /\ draft # NoDraft => /\ draft'.active \subseteq draft.active
                              /\ draft'.inactive \subseteq draft.inactive
        /\ active' \subseteq active /\ inactive' \subseteq inactive
    BY <1>2, WithoutFacts DEF SaveFile, TypeInv
  <2>2. QED
    BY <2>1 DEF Disjoint
<1>3. ASSUME NEW w \in Workers, AddToDraft(w)
      PROVE  Disjoint'
  <2> DEFINE f == request[w].file
  <2>1. UNCHANGED <<active, inactive>> /\ Adding(w)
    BY <1>3, AddFacts
  <2>2. /\ draft'.active \subseteq Drafted.active \cup {f}
        /\ draft'.inactive \subseteq Drafted.inactive
    BY <1>3, AddFacts
  <2>3. f \notin inactive \cup Drafted.inactive
    BY <2>1 DEF AddingFits, Held, Drafted, InDraft
  <2>4. QED
    BY <1>1, <2>1, <2>2, <2>3 DEF Disjoint
<1>4. ASSUME NEW f \in Files, DeleteFile(f)
      PROVE  Disjoint'
  BY <1>1, <1>4, DeletedLists DEF Disjoint
<1>5. ASSUME NEW f \in Files, UndoDelete(f)
      PROVE  Disjoint'
  <2>1. AllRevisions(f) \cap inactive = {}
    BY <1>5 DEF UndoDelete
  <2>2. QED
    BY <1>1, <1>5, <2>1, UndoneLists DEF Disjoint
<1>6. ASSUME draft # NoDraft, DraftDeleted, UNCHANGED active
      PROVE  Disjoint'
  BY <1>6, DraftDeletedFacts DEF Disjoint
<1>7. ASSUME draft # NoDraft, CopyFiles, UNCHANGED <<file, draft>>
      PROVE  Disjoint'
  BY <1>7, CopyFacts DEF Disjoint
<1>8. ASSUME UNCHANGED <<active, inactive, draft>>
      PROVE  Disjoint'
  BY <1>8 DEF Disjoint
<1>9. QED
  BY <1>2, <1>3, <1>4, <1>5, <1>6, <1>7, <1>8
     DEF Next, vars, LoadReviewRequest, StartUpload, DiscardDraft, Publish,
         PublishFails, DeleteDraft

-----------------------------------------------------------------------------
(***************************************************************************)
(* Files are kept.                                                         *)
(***************************************************************************)

(* Files that were answered or published are named by the lists, those of  *)
(* the review request by the draft too; a publication has left the draft   *)
(* as it published it; and no upload is about to delete a published file.  *)
FilesFit ==
  /\ kept \subseteq Held \cup InDraft
  /\ published \subseteq Held
  /\ draft # NoDraft => Held \subseteq InDraft
  /\ Publishing => draft = NoDraft \/ (draft.active = active /\ draft.inactive = inactive)
  /\ \A w \in Workers : Saving(w) => request[w].victim \notin published

Losses == {"same file", "victim", "late", "revived", "brought back", "stale"}

KeptInv == Unless(Losses) \/ FilesFit

LEMMA PublishingWorkers ==
  Publishing <=> \E w \in Workers : Deleting(w)
BY DEF Publishing, Deleting

LEMMA LoadKept ==
  ASSUME TypeInv, FilesFit, NEW w \in Workers, LoadReviewRequest(w)
  PROVE  FilesFit'
<1>1. UNCHANGED <<Held, InDraft, active, inactive, draft, kept, published>>
  BY LoadFacts DEF TypeInv, Held, InDraft
<1>2. Publishing' => Publishing
  BY LoadFacts, PublishingWorkers DEF TypeInv, Publishing, Deleting
<1>3. \A x \in Workers : Saving(x)' => request'[x].victim \notin published
  BY LoadFacts DEF TypeInv, FilesFit
<1>4. QED
  BY <1>1, <1>2, <1>3 DEF FilesFit

LEMMA StartKept ==
  ASSUME TypeInv, FilesFit, Losses \cap harm' = {},
         NEW w \in Workers, NEW h \in Histories, StartUpload(w, h)
  PROVE  FilesFit'
<1>1. PICK latest \in Revisions(h) \cup {None}, new \in Uploads :
        /\ new.at = "save"
        /\ new.victim = ChooseRevision(h, latest).victim
        /\ request' = [request EXCEPT ![w] = new]
        /\ harm' = harm \cup Disturbs(h)
             \cup IF new.victim \in inactive THEN {"revived"} ELSE {}
  BY StartFacts
<1>2. new.victim \notin inactive
  BY <1>1 DEF Losses
<1>3. new.victim \notin active
  <2>1. None \notin active
    BY FilesAssumption DEF TypeInv, TypeOK
  <2>2. QED
    BY <1>1, <2>1 DEF ChooseRevision
<1>4. UNCHANGED <<active, inactive, draft, kept, published>>
  BY DEF StartUpload
<1>5. /\ request'[w] = new
      /\ \A x \in Workers \ {w} : /\ request'[x] = request[x]
                                  /\ Saving(x)' <=> Saving(x)
                                  /\ Deleting(x)' <=> Deleting(x)
  BY <1>1, OtherRequests DEF TypeInv
<1>6. \A x \in Workers : Saving(x)' => request'[x].victim \notin published
  BY <1>2, <1>3, <1>5 DEF FilesFit, Held
<1>7. Publishing' => Publishing
  <2>1. ~Deleting(w)'
    BY <1>1, <1>5 DEF Deleting
  <2>2. QED
    BY <1>5, <2>1, PublishingWorkers DEF Publishing, Deleting
<1>8. QED
  BY <1>4, <1>6, <1>7 DEF FilesFit, Held, InDraft

LEMMA SaveKept ==
  ASSUME TypeInv, FilesFit, NEW w \in Workers, SaveFile(w)
  PROVE  FilesFit'
<1> DEFINE v == request[w].victim
           new == [request[w] EXCEPT !.at = "add", !.file = made + 1]
<1>1. /\ Saving(w)
      /\ Held' = Held \ {v} /\ InDraft' = InDraft \ {v}
      /\ request' = [request EXCEPT ![w] = new] /\ Adding(w)'
  BY SaveFacts
<1>2. v \notin published
  BY <1>1 DEF FilesFit
<1>3. /\ kept' = kept \ {v} /\ published' = published
      /\ active' = active \ {v} /\ inactive' = inactive \ {v}
  BY <1>2 DEF SaveFile
<1>4. /\ draft' = NoDraft <=> draft = NoDraft
      /\ draft # NoDraft => /\ draft'.active = draft.active \ {v}
                            /\ draft'.inactive = draft.inactive \ {v}
  BY WithoutFacts DEF SaveFile, TypeInv
<1>5. \A x \in Workers \ {w} : /\ request'[x] = request[x]
                               /\ Saving(x)' <=> Saving(x)
                               /\ Deleting(x)' <=> Deleting(x)
  <2> HIDE DEF new
  <2>1. QED
    BY <1>1, OtherRequests DEF TypeInv
<1>6. ~Saving(w)' /\ ~Deleting(w)'
  BY <1>1 DEF Saving, Adding, Deleting
<1>7. Publishing' => Publishing
  BY <1>5, <1>6, PublishingWorkers DEF Publishing, Deleting
<1>8. \A x \in Workers : Saving(x)' => request'[x].victim \notin published'
  BY <1>3, <1>5, <1>6 DEF FilesFit
<1>9. QED
  BY <1>1, <1>2, <1>3, <1>4, <1>7, <1>8 DEF FilesFit

(* A publication makes no difference to what the draft names; another      *)
(* change of the draft, while one is under way, is late.                   *)
LEMMA CopyKept ==
  ASSUME TypeInv, FilesFit, draft # NoDraft, CopyFiles, UNCHANGED <<file, draft, kept>>,
         published' = published \cup draft.active, Victims = {},
         \A w \in Workers : Saving(w)' => Saving(w) /\ request'[w] = request[w]
  PROVE  FilesFit'
<1>1. /\ active' = draft.active /\ inactive' = draft.inactive
      /\ Held' = InDraft /\ InDraft' = InDraft /\ Held \subseteq Held'
  BY CopyFacts DEF FilesFit
<1>2. draft.active \subseteq InDraft
  BY DEF InDraft
<1>3. kept' \subseteq Held' \cup InDraft' /\ published' \subseteq Held'
  BY <1>1, <1>2 DEF FilesFit
<1>4. draft'.active = active' /\ draft'.inactive = inactive'
  BY <1>1
<1>5. \A w \in Workers : Saving(w)' => request'[w].victim \notin published'
  BY DEF FilesFit, Victims, Saving
<1>6. QED
  BY <1>1, <1>3, <1>4, <1>5 DEF FilesFit

LEMMA AddKept ==
  ASSUME TypeInv, FilesFit, "late" \notin harm', "stale" \notin harm',
         NEW w \in Workers, AddToDraft(w)
  PROVE  FilesFit'
<1> DEFINE f == request[w].file
<1>1. /\ request' = [request EXCEPT ![w] = Idle]
      /\ kept' = kept \cup ({f} \cap Saved)
      /\ ~Publishing
      /\ draft' # NoDraft
      /\ UNCHANGED <<active, inactive, published, Held>>
  BY AddFacts DEF AddToDraft, Late
<1>2. Held \cup InDraft \subseteq Drafted.active \cup Drafted.inactive
  BY DraftedFit DEF FilesFit
<1>3. Held \cup InDraft \cup ({f} \cap Saved) \subseteq InDraft'
  BY <1>2, AddFacts
<1>4. /\ request'[w] = Idle
      /\ \A x \in Workers \ {w} : /\ request'[x] = request[x]
                                  /\ Saving(x)' <=> Saving(x)
                                  /\ Deleting(x)' <=> Deleting(x)
  BY <1>1, OtherRequests DEF TypeInv
<1>5. ~Publishing'
  BY <1>1, <1>4 DEF Publishing, Deleting
<1>6. \A x \in Workers : Saving(x)' => request'[x].victim \notin published'
  BY <1>1, <1>4 DEF FilesFit, Saving
<1>7. QED
  BY <1>1, <1>3, <1>5, <1>6 DEF FilesFit

LEMMA ListsKept ==
  ASSUME TypeInv, FilesFit, ~Publishing, draft' # NoDraft => Held \subseteq InDraft', UNCHANGED <<active, inactive, published, request>>,
         kept' \subseteq kept, kept' \subseteq Held \cup InDraft'
  PROVE  FilesFit'
BY DEF FilesFit, Held, Publishing, Saving

LEMMA DeleteKept ==
  ASSUME TypeInv, FilesFit, "late" \notin harm', NEW f \in Files, DeleteFile(f)
  PROVE  FilesFit'
<1>1. ~Publishing /\ UNCHANGED published
  BY DEF DeleteFile, Late
<1>2. UNCHANGED <<active, inactive, request>> /\ kept' \subseteq kept
  BY DeletedLists
<1>3. kept' \subseteq Held \cup InDraft' /\ Held \subseteq InDraft'
  <2>1. Held \cup InDraft \subseteq Drafted.active \cup Drafted.inactive
    BY DraftedFit DEF FilesFit
  <2>2. QED
    BY <2>1, DeletedLists DEF FilesFit
<1>4. QED
  BY <1>1, <1>2, <1>3, ListsKept

LEMMA UndoKept ==
  ASSUME TypeInv, FilesFit, "late" \notin harm', NEW f \in Files, UndoDelete(f)
  PROVE  FilesFit'
<1>1. ~Publishing /\ UNCHANGED published
  BY DEF UndoDelete, Late
<1>2. /\ UNCHANGED <<active, inactive, request, kept>>
      /\ draft # NoDraft /\ InDraft \subseteq InDraft'
  BY UndoneLists DEF InDraft
<1>3. QED
  BY <1>1, <1>2, ListsKept DEF FilesFit

LEMMA DiscardKept ==
  ASSUME TypeInv, FilesFit, Disjoint, "late" \notin harm', DiscardDraft
  PROVE  FilesFit'
<1>1. /\ draft # NoDraft /\ DraftDeleted /\ ~Publishing
      /\ kept' = kept \ (InDraft \ (active \cup inactive))
      /\ UNCHANGED <<active, request, published>>
  BY DEF DiscardDraft, Late
<1>2. /\ Doomed = draft.active \ active
      /\ inactive' = inactive \ Doomed /\ InDraft' = {} /\ draft' = NoDraft
  BY <1>1, DraftDeletedFacts
<1>3. inactive' = inactive
  BY <1>1, <1>2 DEF Disjoint
<1>4. kept' \subseteq Held
  BY <1>1 DEF FilesFit, Held
<1>5. QED
  BY <1>1, <1>2, <1>3, <1>4 DEF FilesFit, Held, Publishing, Saving

LEMMA DeleteDraftKept ==
  ASSUME TypeInv, FilesFit, NEW w \in Workers, DeleteDraft(w)
  PROVE  FilesFit'
<1>1. /\ Publishing
      /\ request' = [request EXCEPT ![w] = Idle]
      /\ UNCHANGED <<active, kept, published>>
  BY DEF DeleteDraft, Publishing
<1>2. /\ request'[w] = Idle
      /\ \A x \in Workers \ {w} : /\ request'[x] = request[x]
                                  /\ Saving(x)' <=> Saving(x)
  BY <1>1, OtherRequests DEF TypeInv
<1>3. inactive' = inactive /\ draft' = NoDraft /\ InDraft' = {}
  <2>1. CASE draft = NoDraft
    BY <2>1 DEF DeleteDraft, InDraft
  <2>2. CASE draft # NoDraft
    <3>1. /\ Doomed = draft.active \ active
          /\ inactive' = inactive \ Doomed /\ draft' = NoDraft /\ InDraft' = {}
      BY <2>2, DraftDeletedFacts DEF DeleteDraft
    <3>2. draft.active = active
      BY <1>1, <2>2 DEF FilesFit
    <3>3. QED
      BY <3>1, <3>2
  <2>3. QED
    BY <2>1, <2>2
<1>4. InDraft \subseteq Held
  BY <1>1 DEF FilesFit, InDraft, Held
<1>5. \A x \in Workers : Saving(x)' => request'[x].victim \notin published'
  BY <1>1, <1>2 DEF FilesFit, Saving
<1>6. QED
  BY <1>1, <1>3, <1>4, <1>5 DEF FilesFit, Held

LEMMA KeptStep ==
  ASSUME TypeInv, FilesFit, Disjoint, [Next]_vars, Losses \cap harm' = {}
  PROVE  FilesFit'
<1>1. "late" \notin harm' /\ "victim" \notin harm' /\ "stale" \notin harm'
  BY DEF Losses
<1>2. ASSUME NEW w \in Workers, Publish(w)
      PROVE  FilesFit'
  <2>1. /\ draft # NoDraft /\ CopyFiles /\ UNCHANGED <<file, draft, kept>>
        /\ published' = published \cup draft.active
        /\ request' = [request EXCEPT ![w] = [at |-> "delete draft"]]
        /\ Victims = {}
    BY <1>1, <1>2 DEF Publish
  <2>2. \A x \in Workers : request'[x] = request[x] \/ request'[x].at = "delete draft"
    BY <2>1, OtherRequests DEF TypeInv
  <2>3. \A x \in Workers : Saving(x)' => Saving(x) /\ request'[x] = request[x]
    BY <2>2 DEF Saving
  <2>4. QED
    BY <2>1, <2>3, CopyKept
<1>3. CASE PublishFails
  <2>1. /\ draft # NoDraft /\ CopyFiles /\ UNCHANGED <<file, draft, kept, request>>
        /\ published' = published \cup draft.active
        /\ Victims = {}
    BY <1>1, <1>3 DEF PublishFails
  <2>2. QED
    BY <2>1, CopyKept DEF Saving
<1>4. CASE UNCHANGED vars
  BY <1>4 DEF vars, FilesFit, Held, InDraft, Publishing, Saving
<1>5. QED
  BY <1>1, <1>2, <1>3, <1>4, LoadKept, StartKept, SaveKept, AddKept, DeleteKept, UndoKept,
     DiscardKept, DeleteDraftKept DEF Next

(* What the lists name, as long as nothing disturbs it.                    *)
LEMMA UploadsAndLists ==
  ASSUME TypeInv, UploadInv, ListsInv, [Next]_vars
  PROVE  UploadInv' /\ ListsInv'
<1>1. harm \subseteq harm'
  BY HarmStays
<1>2. UploadInv'
  <2>1. CASE "same file" \in harm'
    BY <2>1 DEF UploadInv, Unless
  <2>2. CASE "same file" \notin harm'
    BY <1>1, <2>2, UploadStep DEF UploadInv, Unless
  <2>3. QED
    BY <2>1, <2>2
<1>3. ListsInv'
  <2>1. CASE {"same file", "brought back"} \cap harm' # {}
    BY <2>1 DEF ListsInv, Unless
  <2>2. CASE {"same file", "brought back"} \cap harm' = {}
    <3>1. AddingFits /\ Disjoint
      BY <1>1, <2>2 DEF UploadInv, ListsInv, Unless
    <3>2. Disjoint'
      BY <2>2, <3>1, DisjointStep
    <3>3. QED
      BY <3>2 DEF ListsInv
  <2>3. QED
    BY <2>1, <2>2
<1>4. QED
  BY <1>2, <1>3

LEMMA InitLists ==
  ASSUME Init
  PROVE  OneUpload /\ AddingFits /\ Disjoint /\ FilesFit
BY DEF Init, OneUpload, AddingFits, Disjoint, FilesFit, Saving, Adding, Publishing,
       Held, InDraft

(* A file whose upload was answered stays until it is discarded or         *)
(* replaced, and a published file for good, whatever uploads, deletions,   *)
(* publications and discards meet, unless one of the losses has occurred.  *)
THEOREM AllFilesKept == Spec => []FilesKept
<1> DEFINE IInv == TypeInv /\ UploadInv /\ ListsInv /\ KeptInv
<1>1. Init => IInv
  BY InitFacts, InitLists DEF UploadInv, ListsInv, KeptInv
<1>2. IInv /\ [Next]_vars => IInv'
  <2> SUFFICES ASSUME IInv, [Next]_vars
               PROVE  IInv'
    OBVIOUS
  <2>1. TypeInv' /\ UploadInv' /\ ListsInv'
    BY NextType, UploadsAndLists
  <2>2. KeptInv'
    <3>1. CASE Losses \cap harm' # {}
      BY <3>1 DEF KeptInv, Unless
    <3>2. CASE Losses \cap harm' = {}
      <4>1. FilesFit /\ Disjoint
        BY <3>2, HarmStays DEF KeptInv, ListsInv, Unless, Losses
      <4>2. FilesFit'
        BY <3>2, <4>1, KeptStep
      <4>3. QED
        BY <4>2 DEF KeptInv
    <3>3. QED
      BY <3>1, <3>2
  <2>3. QED
    BY <2>1, <2>2
<1>3. IInv => FilesKept
  BY DEF TypeInv, ListsFit, Held, KeptInv, FilesFit, Losses, FilesKept
<1>4. QED
  BY <1>1, <1>2, <1>3, PTL DEF Spec

-----------------------------------------------------------------------------
(***************************************************************************)
(* The newest revision is shown.                                           *)
(***************************************************************************)

(* The files S have the revisions 1, 2, ... in the table t.                *)
IsNumbering(S, t) ==
  /\ \A f, g \in S : t[f].revision = t[g].revision => f = g
  /\ \A f \in S : t[f].revision \in 1..Cardinality(S)
  /\ \A k \in 1..Cardinality(S) : \E f \in S : t[f].revision = k

LEMMA FilesFinite ==
  ASSUME NEW S \in SUBSET Files
  PROVE  IsFiniteSet(S) /\ Cardinality(S) \in Nat
<1>1. IsFiniteSet(Files)
  BY FilesAssumption, FS_Interval DEF Files
<1>2. IsFiniteSet(S)
  BY <1>1, FS_Subset
<1>3. QED
  BY <1>2, FS_CardinalityType

(* The highest revision goes.                                              *)
LEMMA RemoveHighest ==
  ASSUME NEW S \in SUBSET Files, NEW t, NEW u, IsNumbering(S, t),
         NEW f \in S, t[f].revision = Cardinality(S),
         \A g \in S \ {f} : u[g] = t[g]
  PROVE  /\ IsNumbering(S \ {f}, u)
         /\ Cardinality(S \ {f}) + 1 = Cardinality(S)
<1>1. Cardinality(S) \in Nat /\ Cardinality(S \ {f}) \in Nat
  BY FilesFinite
<1>2. Cardinality(S \ {f}) + 1 = Cardinality(S)
  BY <1>1, FilesFinite, FS_RemoveElement
<1>3. \A g \in S \ {f} : t[g].revision # Cardinality(S)
  BY DEF IsNumbering
<1>4. \A g \in S \ {f} : u[g].revision \in 1..Cardinality(S \ {f})
  BY <1>1, <1>2, <1>3 DEF IsNumbering
<1>5. ASSUME NEW k \in 1..Cardinality(S \ {f})
      PROVE  \E g \in S \ {f} : u[g].revision = k
  <2>1. k \in 1..Cardinality(S) /\ k # Cardinality(S)
    BY <1>1, <1>2
  <2>2. PICK g \in S : t[g].revision = k
    BY <2>1 DEF IsNumbering
  <2>3. QED
    BY <2>1, <2>2
<1>6. \A g, k \in S \ {f} : u[g].revision = u[k].revision => g = k
  BY DEF IsNumbering
<1>7. QED
  BY <1>2, <1>4, <1>5, <1>6 DEF IsNumbering

(* A new highest revision is added.                                        *)
LEMMA AddHighest ==
  ASSUME NEW S \in SUBSET Files, NEW t, NEW u, IsNumbering(S, t),
         NEW f \in Files, f \notin S, u[f].revision = Cardinality(S) + 1,
         \A g \in S : u[g] = t[g]
  PROVE  /\ IsNumbering(S \cup {f}, u)
         /\ Cardinality(S \cup {f}) = Cardinality(S) + 1
<1>1. Cardinality(S) \in Nat
  BY FilesFinite
<1>2. Cardinality(S \cup {f}) = Cardinality(S) + 1
  BY FilesFinite, FS_AddElement
<1>3. \A g \in S : u[g].revision \in 1..Cardinality(S)
  BY DEF IsNumbering
<1>4. \A g \in S \cup {f} : u[g].revision \in 1..Cardinality(S) + 1
  BY <1>1, <1>3
<1>5. ASSUME NEW k \in 1..Cardinality(S) + 1
      PROVE  \E g \in S \cup {f} : u[g].revision = k
  <2>1. CASE k = Cardinality(S) + 1
    BY <2>1
  <2>2. CASE k # Cardinality(S) + 1
    <3>1. k \in 1..Cardinality(S)
      BY <1>1, <2>2
    <3>2. QED
      BY <3>1 DEF IsNumbering
  <2>3. QED
    BY <2>1, <2>2
<1>6. \A g, k \in S \cup {f} : u[g].revision = u[k].revision => g = k
  <2>1. \A g \in S : u[g].revision # u[f].revision
    BY <1>1, <1>3
  <2>2. \A g, k \in S : u[g].revision = u[k].revision => g = k
    BY DEF IsNumbering
  <2>3. QED
    BY <2>1, <2>2
<1>7. QED
  BY <1>2, <1>4, <1>5, <1>6 DEF IsNumbering

Older(g, f) ==
  file[f].history = file[g].history => file[g].revision < file[f].revision

(* The files that are being added to the draft, and those that are not of  *)
(* the review request: they are the only ones whose rows may go.  A file   *)
(* that a stale copy left out, and that its publication dropped, is not    *)
(* among them.                                                             *)
Joining == {f \in Saved : \E w \in Workers : Adding(w) /\ request[w].file = f}
New == (InDraft \cup Joining) \ Held
DraftActive == IF draft = NoDraft THEN {} ELSE draft.active

(* A file that is about to be saved is the next revision, or takes the     *)
(* number of the one that it replaces, published or gone by then.          *)
SavingFits(w) ==
  LET R == Revisions(request[w].history)
      v == request[w].victim
  IN  /\ v \in {None} \cup 1..made
      /\ R \cap New \subseteq {v}
      /\ request[w].revision = Cardinality(R \ {v}) + 1
      /\ v \in Saved => v \in R /\ file[v].revision = request[w].revision

(* The revisions of a history are numbered; a new one is the highest.      *)
Numbered == \A h \in Histories : IsNumbering(Revisions(h), file)
NewestFree ==
  \A h \in Histories : \A f \in Revisions(h) \cap New :
    file[f].revision = LatestRevision(h)

(* Every revision that is not active, be it deleted or dropped, is older   *)
(* than every active one; after the publication of the draft it is so too. *)
OlderGone ==
  /\ \A f \in active, g \in Saved \ (active \cup DraftActive \cup Joining) :
       Older(g, f)
  /\ \A f \in DraftActive, g \in Saved \ (DraftActive \cup Joining) :
       Older(g, f)

(* No revision of a file that waits to be deleted was dropped.             *)
PendingWhole ==
  draft # NoDraft =>
    \A f \in draft.inactive \cap active :
      AllRevisions(f) \subseteq Held \cup InDraft \cup Joining

NumbersFit ==
  /\ Numbered
  /\ NewestFree
  /\ OlderGone
  /\ PendingWhole
  /\ \A w \in Workers : Saving(w) => SavingFits(w)

Confusions == {"same file", "brought back", "buried"}
NumberInv == Unless(Confusions) \/ NumbersFit

(* What is known of the lists besides.                                     *)
ListsApart ==
  /\ OneUpload /\ AddingFits /\ Disjoint
  /\ draft # NoDraft => draft.inactive \subseteq Held

(* The uploads are where they were.                                        *)
UploadsGoOn ==
  \A w \in Workers :
    /\ Saving(w)' <=> Saving(w)
    /\ Adding(w)' <=> Adding(w)
    /\ Saving(w) \/ Adding(w) => request'[w] = request[w]

LEMMA JoiningSame ==
  ASSUME UploadsGoOn, Saved' \subseteq Saved
  PROVE  Joining' = Joining \cap Saved'
BY DEF UploadsGoOn, Joining

LEMMA RevisionsFacts ==
  ASSUME TypeInv
  PROVE  /\ \A h : Revisions(h) \in SUBSET Files /\ Revisions(h) \subseteq Saved
         /\ \A h : \A f \in Revisions(h) : file[f].history = h
         /\ \A f \in Saved : f \in Revisions(file[f].history)
         /\ \A f \in Saved : file[f].history \in Histories
         /\ None \notin Saved
  BY SavedFiles, FilesAssumption DEF Revisions, Saved, TypeInv

(* The new files of the same history are one.                              *)
LEMMA OneFree ==
  ASSUME TypeInv, Numbered, NewestFree, NEW h \in Histories,
         NEW f \in Revisions(h) \cap New, NEW g \in Revisions(h),
         g \in New \/ file[g].revision = LatestRevision(h)
  PROVE  f = g
<1>1. file[f].revision = LatestRevision(h) /\ file[g].revision = LatestRevision(h)
  BY DEF NewestFree
<1>2. QED
  BY <1>1 DEF Numbered, IsNumbering

(* A new file is the youngest of its history.                              *)
LEMMA NewIsYounger ==
  ASSUME TypeInv, Numbered, NewestFree, NEW f \in New \cap Saved,
         NEW g \in Saved \ {f}
  PROVE  Older(g, f)
<1> SUFFICES ASSUME file[f].history = file[g].history
             PROVE  file[g].revision < file[f].revision
  BY DEF Older
<1> DEFINE h == file[f].history
           n == Cardinality(Revisions(h))
<1>1. h \in Histories /\ f \in Revisions(h) /\ g \in Revisions(h)
  BY RevisionsFacts
<1>2. file[f].revision = n
  BY <1>1 DEF NewestFree, LatestRevision
<1>3. n \in Nat
  BY RevisionsFacts, FilesFinite
<1>4. file[g].revision \in 1..n /\ file[g].revision # file[f].revision
  BY <1>1 DEF Numbered, IsNumbering
<1>5. QED
  BY <1>2, <1>3, <1>4

(* The newest revision has the number of the revisions.                    *)
LEMMA NewestIsHighest ==
  ASSUME TypeInv, Numbered, NEW h \in Histories, NEW f \in Newest(h)
  PROVE  f \in Revisions(h) /\ file[f].revision = LatestRevision(h)
<1> DEFINE n == Cardinality(Revisions(h))
<1>1. f \in Revisions(h) /\ \A g \in Revisions(h) : file[g].revision <= file[f].revision
  BY DEF Newest
<1>2. n \in Nat
  BY RevisionsFacts, FilesFinite
<1>3. file[f].revision \in 1..n
  BY <1>1 DEF Numbered, IsNumbering
<1>4. n \in 1..n
  BY <1>2, <1>3
<1>5. PICK g \in Revisions(h) : file[g].revision = n
  BY <1>4 DEF Numbered, IsNumbering
<1>6. QED
  BY <1>1, <1>2, <1>3, <1>5 DEF LatestRevision

(* Histories whose files stay have the revisions that they had.            *)
LEMMA SameFiles ==
  ASSUME UNCHANGED <<file, Saved>>
  PROVE  /\ \A h : Revisions(h)' = Revisions(h) /\ LatestRevision(h)' = LatestRevision(h)
         /\ Numbered => Numbered'
BY DEF Revisions, LatestRevision, Numbered, IsNumbering

LEMMA StartNumbers ==
  ASSUME TypeInv, NumbersFit, ListsApart,
         NEW w \in Workers, NEW h \in Histories, StartUpload(w, h)
  PROVE  NumbersFit'
<1>1. PICK latest \in Revisions(h) \cup {None}, new \in Uploads :
        /\ latest = None <=> Revisions(h) = {}
        /\ latest # None => latest \in Newest(h)
        /\ new.at = "save" /\ new.history = h
        /\ new.revision = ChooseRevision(h, latest).revision
        /\ new.victim = ChooseRevision(h, latest).victim
        /\ request' = [request EXCEPT ![w] = new]
  <2>1. PICK latest \in Revisions(h) \cup {None} :
          LET choice == ChooseRevision(h, latest)
              new    == [at |-> "save", counted |-> request[w].counted, history |-> h,
                         revision |-> choice.revision, victim |-> choice.victim,
                         file |-> None]
          IN  /\ latest = None <=> Revisions(h) = {}
              /\ latest # None => latest \in Newest(h)
              /\ new \in Uploads
              /\ request' = [request EXCEPT ![w] = new]
    BY StartFacts
  <2> DEFINE choice == ChooseRevision(h, latest)
             new    == [at |-> "save", counted |-> request[w].counted, history |-> h,
                        revision |-> choice.revision, victim |-> choice.victim,
                        file |-> None]
  <2>2. /\ new.at = "save" /\ new.history = h
        /\ new.revision = choice.revision /\ new.victim = choice.victim
    OBVIOUS
  <2> HIDE DEF choice
  <2>3. new \in Uploads /\ request' = [request EXCEPT ![w] = new]
    BY <2>1 DEF choice
  <2> HIDE DEF new
  <2>4. QED
    BY <2>1, <2>2, <2>3 DEF choice
<1>2. UNCHANGED <<file, made, active, inactive, draft>>
  BY DEF StartUpload
<1>3. UNCHANGED <<Saved, Held, InDraft>>
  BY <1>2 DEF Saved, Held, InDraft
<1>4. /\ request'[w] = new
      /\ \A x \in Workers \ {w} : /\ request'[x] = request[x]
                                  /\ Saving(x)' <=> Saving(x)
                                  /\ Adding(x)' <=> Adding(x)
  BY <1>1, OtherRequests DEF TypeInv
<1>5. ~Adding(w) /\ ~Adding(w)'
  BY <1>1, <1>4 DEF StartUpload, Adding
<1>6. Joining' = Joining /\ New' = New /\ DraftActive' = DraftActive
  BY <1>2, <1>3, <1>4, <1>5 DEF Joining, New, DraftActive
<1>7. Numbered' /\ NewestFree' /\ OlderGone' /\ PendingWhole'
  BY <1>2, <1>3, <1>6, SameFiles
     DEF NumbersFit, NewestFree, OlderGone, PendingWhole, AllRevisions, Older
<1> DEFINE R == Revisions(h)
           v == new.victim
<1>8. /\ v \in {None} \cup 1..made
      /\ R \cap New \subseteq {v}
      /\ new.revision = Cardinality(R \ {v}) + 1
      /\ v \in Saved => v \in R /\ file[v].revision = new.revision
  <2>1. R \in SUBSET Files /\ R \subseteq Saved /\ None \notin Saved
    BY RevisionsFacts
  <2>2. CASE latest = None
    <3>1. v = None /\ new.revision = 1 /\ R = {}
      BY <1>1, <2>2 DEF ChooseRevision
    <3>2. Cardinality(R \ {v}) = 0
      BY <3>1, FS_EmptySet
    <3>3. QED
      BY <2>1, <3>1, <3>2
  <2>3. CASE latest # None
    <3>1. /\ latest \in R /\ file[latest].revision = LatestRevision(h)
          /\ latest \in Saved
      BY <1>1, <2>1, <2>3, NewestIsHighest DEF NumbersFit
    <3>2. R \cap New \subseteq {latest}
      BY <3>1, OneFree DEF NumbersFit
    <3>3. CASE latest \in active
      <4>1. v = None /\ new.revision = file[latest].revision + 1
        BY <1>1, <2>3, <3>3 DEF ChooseRevision
      <4>2. R \ {v} = R
        BY <2>1, <4>1
      <4>3. new.revision = Cardinality(R \ {v}) + 1
        BY <3>1, <4>1, <4>2 DEF LatestRevision
      <4>4. QED
        BY <2>1, <3>2, <3>3, <4>1, <4>3 DEF Held, New
    <3>4. CASE latest \notin active
      <4>1. v = latest /\ new.revision = file[latest].revision
        BY <1>1, <2>3, <3>4 DEF ChooseRevision
      <4>2. Cardinality(R \ {v}) + 1 = Cardinality(R)
        BY <2>1, <3>1, <4>1, RemoveHighest DEF NumbersFit, Numbered, LatestRevision
      <4>3. v \in 1..made
        BY <3>1, <4>1, FilesAssumption DEF TypeInv, TypeOK, Saved, Files
      <4>4. QED
        BY <3>1, <3>2, <4>1, <4>2, <4>3 DEF LatestRevision
    <3>5. QED
      BY <3>3, <3>4
  <2>4. QED
    BY <2>2, <2>3
<1>9. \A k : Revisions(k)' = Revisions(k)
  BY <1>2, <1>3, SameFiles
<1>10. SavingFits(w)'
  <2>1. request'[w].history = h /\ request'[w].victim = v
    BY <1>1, <1>4
  <2>2. Revisions(request[w].history)' = R
    BY <1>9, <2>1
  <2>3. QED
    BY <1>2, <1>3, <1>4, <1>6, <1>8, <2>1, <2>2 DEF SavingFits
<1>11. \A x \in Workers \ {w} : Saving(x)' => SavingFits(x)'
  BY <1>2, <1>3, <1>4, <1>6, <1>9 DEF NumbersFit, SavingFits
<1>12. QED
  BY <1>7, <1>10, <1>11 DEF NumbersFit

LEMMA SaveNumbers ==
  ASSUME TypeInv, NumbersFit, ListsApart, NEW w \in Workers, SaveFile(w)
  PROVE  NumbersFit'
<1> PICK rq, h, v, f :
      /\ rq = request[w] /\ h = rq.history /\ v = rq.victim
      /\ f = made + 1
  OBVIOUS
<1> DEFINE R   == Revisions(h)
           new == [rq EXCEPT !.at = "add", !.file = f]
<1>1. /\ Saving(w) /\ rq \in Uploads
      /\ f \in Files /\ f \in Nat /\ f \notin Saved
      /\ made \in Nat /\ made' = f
      /\ Saved' = (Saved \ {v}) \cup {f}
      /\ file'[f] = [history |-> h, revision |-> rq.revision]
      /\ \A g \in Saved' : g # f => file'[g] = file[g]
      /\ Held' = Held \ {v}
      /\ InDraft' = InDraft \ {v}
      /\ draft' = NoDraft <=> draft = NoDraft
      /\ request' = [request EXCEPT ![w] = new]
      /\ Adding(w)' /\ request'[w].file = f
  BY SaveFacts
<1>2. \A x \in Workers \ {w} : /\ request'[x] = request[x]
                               /\ Saving(x)' <=> Saving(x)
                               /\ Adding(x)' <=> Adding(x)
  <2> HIDE DEF new
  <2>1. QED
    BY <1>1, OtherRequests DEF TypeInv
<1>3. /\ v \in {None} \cup 1..made
      /\ R \cap New \subseteq {v}
      /\ rq.revision = Cardinality(R \ {v}) + 1
      /\ v \in Saved => v \in R /\ file[v].revision = rq.revision
  BY <1>1 DEF NumbersFit, SavingFits
<1>4. file'[f].history = h /\ file'[f].revision = rq.revision /\ h \in Histories
  BY <1>1 DEF Uploads
<1>5. R \in SUBSET Files /\ R \subseteq Saved /\ f \notin R /\ f # v
  BY <1>1, <1>3, RevisionsFacts, FilesAssumption
<1>6. Revisions(h)' = (R \ {v}) \cup {f}
  BY <1>1, <1>4 DEF Revisions
<1>7. \A k \in Histories \ {h} :
        /\ Revisions(k)' = Revisions(k)
        /\ \A g \in Revisions(k) : file'[g] = file[g]
  <2> SUFFICES ASSUME NEW k \in Histories, k # h
               PROVE  /\ Revisions(k)' = Revisions(k)
                      /\ \A g \in Revisions(k) : file'[g] = file[g]
    OBVIOUS
  <2>1. v \notin Revisions(k) /\ f \notin Revisions(k)
    BY <1>1, <1>3, RevisionsFacts
  <2>2. \A g \in Revisions(k) : g \in Saved' /\ g # f
    BY <1>1, <2>1, RevisionsFacts
  <2>3. Revisions(k)' = Revisions(k)
    BY <1>1, <1>4, <2>2 DEF Revisions
  <2>4. QED
    BY <1>1, <2>2, <2>3
<1>8. IsNumbering(R \ {v}, file)
  <2>1. CASE v \in R
    <3>1. IsNumbering(R, file)
      BY <1>4 DEF NumbersFit, Numbered
    <3>2. Cardinality(R \ {v}) + 1 = Cardinality(R)
      BY <1>5, <2>1, FilesFinite, FS_RemoveElement
    <3>3. file[v].revision = Cardinality(R)
      BY <1>3, <1>5, <2>1, <3>2
    <3>4. QED
      BY <1>5, <2>1, <3>1, <3>3, RemoveHighest
  <2>2. CASE v \notin R
    <3>1. R \ {v} = R
      BY <2>2
    <3>2. IsNumbering(R, file)
      BY <1>4 DEF NumbersFit, Numbered
    <3>3. QED
      BY <3>1, <3>2
  <2>3. QED
    BY <2>1, <2>2
<1>9. /\ IsNumbering((R \ {v}) \cup {f}, file')
      /\ Cardinality((R \ {v}) \cup {f}) = Cardinality(R \ {v}) + 1
  <2>1. file'[f].revision = Cardinality(R \ {v}) + 1
    BY <1>3, <1>4
  <2>2. \A g \in R \ {v} : file'[g] = file[g]
    BY <1>1, <1>5
  <2>3. R \ {v} \in SUBSET Files /\ f \notin R \ {v}
    BY <1>5
  <2>4. PICK S, u : S = R \ {v} /\ u = file'
    OBVIOUS
  <2>5. /\ S \in SUBSET Files /\ f \in Files /\ f \notin S
        /\ IsNumbering(S, file)
        /\ u[f].revision = Cardinality(S) + 1
        /\ \A g \in S : u[g] = file[g]
    BY <1>1, <1>8, <2>1, <2>2, <2>3, <2>4
  <2>6. /\ IsNumbering(S \cup {f}, u)
        /\ Cardinality(S \cup {f}) = Cardinality(S) + 1
    BY ONLY <2>5, AddHighest
  <2>7. QED
    BY <2>4, <2>6
<1>10. Numbered'
  <2> SUFFICES ASSUME NEW k \in Histories
               PROVE  IsNumbering(Revisions(k)', file')
    BY DEF Numbered
  <2>1. CASE k = h
    BY <1>6, <1>9, <2>1
  <2>2. CASE k # h
    BY <1>7, <2>2 DEF NumbersFit, Numbered, IsNumbering
  <2>3. QED
    BY <2>1, <2>2
<1>11. /\ New' \subseteq (New \ {v}) \cup {f}
       /\ f \in Joining'
       /\ \A g \in Saved' : g \in Joining => g \in Joining'
       /\ \A g \in Saved' : g \in DraftActive => g \in DraftActive'
       /\ DraftActive' \subseteq DraftActive \ {v}
  <2>1. f \in Joining'
    BY <1>1 DEF Joining
  <2>2. \A g \in Saved' : g \in Joining => g \in Joining'
    BY <1>1, <1>2 DEF Joining, Saving, Adding
  <2>3. Joining' \subseteq (Joining \ {v}) \cup {f}
    BY <1>1, <1>2 DEF Joining
  <2>4. New' \subseteq (New \ {v}) \cup {f}
    BY <1>1, <2>3 DEF New
  <2>5. DraftActive' = DraftActive \ {v}
    BY <1>1, WithoutFacts DEF SaveFile, TypeInv, DraftActive
  <2>6. v \notin Saved'
    BY <1>1, <1>5
  <2>7. QED
    BY <2>1, <2>2, <2>4, <2>5, <2>6
<1>12. NewestFree'
  <2> SUFFICES ASSUME NEW k \in Histories, NEW g \in Revisions(k)', g \in New'
               PROVE  file'[g].revision = LatestRevision(k)'
    BY DEF NewestFree
  <2>1. CASE k = h
    <3>1. LatestRevision(k)' = Cardinality(R \ {v}) + 1
      BY <1>6, <1>9, <2>1 DEF LatestRevision
    <3>2. g = f
      BY <1>3, <1>6, <1>11, <2>1
    <3>3. QED
      BY <1>3, <1>4, <3>1, <3>2
  <2>2. CASE k # h
    <3>1. Revisions(k)' = Revisions(k) /\ g \in Revisions(k) /\ file'[g] = file[g]
      BY <1>7, <2>2
    <3>2. g # f
      BY <1>1, <3>1, RevisionsFacts
    <3>3. g \in New
      BY <1>11, <3>2
    <3>4. file[g].revision = LatestRevision(k)
      BY <3>1, <3>3 DEF NumbersFit, NewestFree
    <3>5. QED
      BY <3>1, <3>4 DEF LatestRevision
  <2>3. QED
    BY <2>1, <2>2
<1>13. OlderGone' /\ PendingWhole'
  <2>1. active' = active \ {v}
    BY DEF SaveFile
  <2>2. active \cup DraftActive \subseteq Saved
    BY DEF TypeInv, ListsFit, Held, DraftActive, InDraft
  <2>3. ASSUME NEW g \in Saved \ {v}, NEW k \in Saved \ {v}, Older(g, k)
        PROVE  Older(g, k)'
    BY <1>1, <2>3 DEF Older
  <2>4. \A k \in active', g \in Saved' \ (active' \cup DraftActive' \cup Joining') :
          Older(g, k)'
    <3> SUFFICES ASSUME NEW k \in active',
                        NEW g \in Saved' \ (active' \cup DraftActive' \cup Joining')
                 PROVE  Older(g, k)'
      OBVIOUS
    <3>1. k \in active /\ k # v /\ k \in Saved
      BY <2>1, <2>2
    <3>2. g # f /\ g # v /\ g \in Saved
      BY <1>1, <1>5, <1>11
    <3>3. g \notin active \cup DraftActive \cup Joining
      BY <1>11, <2>1, <3>2
    <3>4. Older(g, k)
      BY <3>1, <3>2, <3>3 DEF NumbersFit, OlderGone
    <3>5. QED
      BY <2>3, <3>1, <3>2, <3>4
  <2>5. \A k \in DraftActive', g \in Saved' \ (DraftActive' \cup Joining') :
          Older(g, k)'
    <3> SUFFICES ASSUME NEW k \in DraftActive',
                        NEW g \in Saved' \ (DraftActive' \cup Joining')
                 PROVE  Older(g, k)'
      OBVIOUS
    <3>1. k \in DraftActive /\ k # v /\ k \in Saved
      BY <1>11, <2>2
    <3>2. g # f /\ g # v /\ g \in Saved
      BY <1>1, <1>5, <1>11
    <3>3. g \notin DraftActive \cup Joining
      BY <1>11, <3>2
    <3>4. Older(g, k)
      BY <3>1, <3>2, <3>3 DEF NumbersFit, OlderGone
    <3>5. QED
      BY <2>3, <3>1, <3>2, <3>4
  <2>6. ASSUME NEW k, draft' # NoDraft, k \in draft'.inactive \cap active'
        PROVE  AllRevisions(k)' \subseteq Held' \cup InDraft' \cup Joining'
    <3>1. draft # NoDraft /\ k \in draft.inactive \cap active /\ k # v
      <4>1. draft' = Without(draft, {v})
        BY DEF SaveFile
      <4>2. draft # NoDraft
        BY <1>1, <2>6
      <4>3. draft'.inactive = draft.inactive \ {v}
        BY <4>1, <4>2, WithoutFacts DEF TypeInv
      <4>4. QED
        BY <2>1, <2>6, <4>2, <4>3
    <3>2. file'[k] = file[k]
      BY <1>1, <2>2, <3>1
    <3>3. AllRevisions(k)' \subseteq (AllRevisions(k) \ {v}) \cup {f}
      BY <1>1, <1>5, <3>2 DEF AllRevisions, Revisions
    <3>4. AllRevisions(k) \subseteq Held \cup InDraft \cup Joining
      BY <3>1 DEF NumbersFit, PendingWhole
    <3>5. AllRevisions(k)' \subseteq Saved'
      BY DEF AllRevisions, Revisions
    <3>6. QED
      BY <1>1, <1>11, <3>3, <3>4, <3>5
  <2>7. OlderGone'
    BY <2>4, <2>5 DEF OlderGone
  <2>8. PendingWhole'
    BY <2>6 DEF PendingWhole
  <2>9. QED
    BY <2>7, <2>8
<1>14. ASSUME NEW x \in Workers, Saving(x)'
       PROVE  SavingFits(x)'
  <2>1. x # w
    BY <1>1, <1>14 DEF Saving, Adding
  <2>2. request'[x] = request[x] /\ Saving(x) /\ SavingFits(x)
    BY <1>2, <1>14, <2>1 DEF NumbersFit
  <2>3. request[x].history # h
    BY <1>1, <2>1, <2>2 DEF ListsApart, OneUpload
  <2>4. request[x].history \in Histories
    BY <2>2, RequestKinds DEF Uploads, Saving, Deleting, TypeInv
  <2> PICK k, u : k = request[x].history /\ u = request[x].victim
    OBVIOUS
  <2>5. Revisions(k)' = Revisions(k) /\ \A g \in Revisions(k) : file'[g] = file[g]
    BY <1>7, <2>3, <2>4
  <2>7. u \in {None} \cup 1..made /\ Revisions(k) \cap New \subseteq {u}
        /\ request[x].revision = Cardinality(Revisions(k) \ {u}) + 1
        /\ (u \in Saved => u \in Revisions(k) /\ file[u].revision = request[x].revision)
    BY <2>2 DEF SavingFits
  <2>8. u # f
    BY <1>1, <2>7, FilesAssumption DEF Files
  <2>9. u \in Saved' => u \in Revisions(k) /\ file'[u].revision = request[x].revision
    BY <1>1, <2>5, <2>7, <2>8
  <2>10. Revisions(k) \cap New' \subseteq {u}
    BY <1>1, <1>11, <2>7, RevisionsFacts
  <2>11. u \in {None} \cup 1..made'
    BY <1>1, <2>7
  <2>12. QED
    BY <2>2, <2>5, <2>7, <2>9, <2>10, <2>11 DEF SavingFits
<1>15. QED
  BY <1>10, <1>12, <1>13, <1>14 DEF NumbersFit

(* Where no file is saved or deleted, it is enough to look at the lists.   *)
LEMMA ListNumbers ==
  ASSUME TypeInv, NumbersFit, UNCHANGED <<file, made>>, New' \subseteq New,
         OlderGone', PendingWhole',
         \A w \in Workers : Saving(w)' => Saving(w) /\ request'[w] = request[w]
  PROVE  NumbersFit'
<1>1. Saved' = Saved
  BY DEF Saved
<1>2. /\ \A h : Revisions(h)' = Revisions(h) /\ LatestRevision(h)' = LatestRevision(h)
      /\ Numbered'
  BY <1>1, SameFiles DEF NumbersFit
<1>3. NewestFree'
  BY <1>2 DEF NumbersFit, NewestFree
<1>4. ASSUME NEW w \in Workers, Saving(w)'
      PROVE  SavingFits(w)'
  <2>1. request'[w] = request[w] /\ SavingFits(w)
    BY <1>4 DEF NumbersFit
  <2>2. Revisions(request[w].history)' = Revisions(request[w].history)
    BY <1>2, <2>1
  <2>3. QED
    BY <1>1, <2>1, <2>2 DEF SavingFits
<1>5. QED
  BY <1>2, <1>3, <1>4 DEF NumbersFit

(* Files are as old as they were.                                          *)
LEMMA SameAge ==
  ASSUME \A g \in Saved' : file'[g] = file[g],
         NEW g \in Saved', NEW f \in Saved', Older(g, f)
  PROVE  Older(g, f)'
BY DEF Older

LEMMA DraftedOlder ==
  ASSUME TypeInv, OlderGone
  PROVE  /\ DraftActive \subseteq Drafted.active
         /\ \A f \in Drafted.active, g \in Saved \ (Drafted.active \cup Joining) :
              Older(g, f)
<1>1. CASE draft = NoDraft
  <2>1. Drafted.active = active /\ DraftActive = {}
    BY <1>1, DraftLists DEF TypeInv, DraftActive
  <2>2. QED
    BY <2>1 DEF OlderGone
<1>2. CASE draft # NoDraft
  BY <1>2, DraftLists DEF OlderGone, DraftActive, TypeInv
<1>3. QED
  BY <1>1, <1>2

LEMMA AddNumbers ==
  ASSUME TypeInv, TypeInv', NumbersFit, ListsApart, NEW w \in Workers, AddToDraft(w)
  PROVE  NumbersFit'
<1> PICK f : f = request[w].file
  OBVIOUS
<1>1. /\ Adding(w)
      /\ request' = [request EXCEPT ![w] = Idle]
      /\ UNCHANGED <<file, made, active, inactive, Held, Saved>>
      /\ draft' # NoDraft /\ InDraft' = draft'.active \cup draft'.inactive
  BY AddFacts
<1>2. PICK lists \in Lists :
        /\ lists.active \in {{}, Drafted.active}
        /\ lists.inactive \in {{}, Drafted.inactive}
        /\ draft # NoDraft => lists = draft
        /\ draft'.active = lists.active \cup ({f} \cap Saved)
        /\ draft'.inactive = lists.inactive
  BY AddFacts
<1>3. /\ request'[w] = Idle
      /\ \A x \in Workers \ {w} : /\ request'[x] = request[x]
                                  /\ Saving(x)' <=> Saving(x)
                                  /\ Adding(x)' <=> Adding(x)
  BY <1>1, OtherRequests DEF TypeInv
<1>4. ~Saving(w)' /\ ~Adding(w)'
  BY <1>3 DEF Saving, Adding
<1>5. /\ DraftActive' = draft'.active
      /\ DraftActive \subseteq DraftActive'
      /\ {f} \cap Saved \subseteq DraftActive'
  BY <1>1, <1>2 DEF DraftActive
<1>6. Joining' \subseteq Joining /\ Joining \subseteq Joining' \cup ({f} \cap Saved)
  BY <1>1, <1>3, <1>4 DEF Joining
<1>7. {f} \cap Saved \subseteq Joining /\ f \notin Held
  BY <1>1 DEF Joining, ListsApart, AddingFits
<1>8. New' \subseteq New
  <2>1. InDraft' \subseteq Held \cup InDraft \cup ({f} \cap Saved)
    BY <1>1, <1>2, DraftedFit
  <2>2. QED
    BY <1>1, <1>6, <1>7, <2>1 DEF New
<1>9. \A k \in DraftActive', g \in Saved \ (DraftActive' \cup Joining') : Older(g, k)
  <2> SUFFICES ASSUME NEW k \in DraftActive',
                      NEW g \in Saved \ (DraftActive' \cup Joining')
               PROVE  Older(g, k)
    OBVIOUS
  <2>1. g \notin Joining
    BY <1>5, <1>6
  <2>2. CASE k = f /\ f \in Saved
    <3>1. f \in New /\ g # f
      BY <1>5, <1>7, <2>2 DEF New
    <3>2. QED
      BY <2>2, <3>1, NewIsYounger DEF NumbersFit
  <2>3. CASE ~(k = f /\ f \in Saved)
    <3>1. k \in lists.active /\ g \notin lists.active
      BY <1>2, <1>5, <2>3
    <3>2. lists.active = Drafted.active
      BY <1>2, <3>1
    <3>3. QED
      BY <2>1, <3>1, <3>2, DraftedOlder DEF NumbersFit
  <2>4. QED
    BY <2>2, <2>3
<1>10. \A k \in active, g \in Saved \ (active \cup DraftActive' \cup Joining') :
         Older(g, k)
  BY <1>5, <1>6 DEF NumbersFit, OlderGone
<1>11. OlderGone'
  BY <1>1, <1>9, <1>10 DEF OlderGone, Older
<1>12. ASSUME NEW k \in draft'.inactive \cap active
       PROVE  AllRevisions(k) \subseteq Held \cup InDraft' \cup Joining'
  <2>1. draft # NoDraft
    <3> SUFFICES ASSUME draft = NoDraft
                 PROVE  FALSE
      OBVIOUS
    <3>1. Drafted.inactive = inactive
      BY DraftLists DEF TypeInv
    <3>2. QED
      BY <1>2, <1>12, <3>1 DEF ListsApart, Disjoint
  <2>2. k \in draft.inactive /\ InDraft \subseteq InDraft'
    BY <1>1, <1>2, <1>12, <2>1 DEF InDraft
  <2>3. AllRevisions(k) \subseteq Held \cup InDraft \cup Joining
    BY <1>12, <2>1, <2>2 DEF NumbersFit, PendingWhole
  <2>4. {f} \cap Saved \subseteq InDraft'
    BY <1>1, <1>2
  <2>5. QED
    BY <1>6, <2>2, <2>3, <2>4
<1>13. PendingWhole'
  BY <1>1, <1>12 DEF PendingWhole, AllRevisions, Revisions
<1>14. \A x \in Workers : Saving(x)' => Saving(x) /\ request'[x] = request[x]
  BY <1>3, <1>4
<1>15. QED
  BY <1>1, <1>8, <1>11, <1>13, <1>14, ListNumbers

(* The revisions of a file that waits to be deleted are all named.         *)
LEMMA UndoNumbers ==
  ASSUME TypeInv, NumbersFit, NEW f \in Files, UndoDelete(f)
  PROVE  NumbersFit'
<1>1. /\ UNCHANGED <<file, active, inactive, request, Saved>>
      /\ draft # NoDraft /\ draft' # NoDraft
      /\ InDraft' = draft'.active \cup draft'.inactive
      /\ draft'.active = draft.active \cup AllRevisions(f)
      /\ draft'.inactive = draft.inactive \ AllRevisions(f)
  BY UndoneLists
<1>2. /\ Held' = Held /\ made' = made /\ Joining' = Joining
      /\ InDraft' = InDraft \cup AllRevisions(f)
      /\ DraftActive' = DraftActive \cup AllRevisions(f)
  BY <1>1 DEF Held, InDraft, UndoDelete, Joining, Adding, DraftActive
<1>3. AllRevisions(f) \subseteq Held \cup InDraft \cup Joining
  BY DEF UndoDelete, PendingDeletion, NumbersFit, PendingWhole
<1>4. New' \subseteq New
  BY <1>2, <1>3 DEF New
<1>5. ASSUME NEW k \in AllRevisions(f), NEW g \in Saved \ AllRevisions(f)
      PROVE  Older(g, k)
  <2>1. file[g].history # file[k].history
    BY <1>5 DEF AllRevisions, Revisions
  <2>2. QED
    BY <2>1 DEF Older
<1>6. \A k \in DraftActive', g \in Saved \ (DraftActive' \cup Joining') : Older(g, k)
  BY <1>2, <1>5 DEF NumbersFit, OlderGone
<1>7. \A k \in active, g \in Saved \ (active \cup DraftActive' \cup Joining') :
        Older(g, k)
  BY <1>2 DEF NumbersFit, OlderGone
<1>8. OlderGone'
  BY <1>1, <1>6, <1>7 DEF OlderGone, Older
<1>9. PendingWhole'
  BY <1>1, <1>2 DEF NumbersFit, PendingWhole, AllRevisions, Revisions
<1>10. QED
  BY <1>1, <1>2, <1>4, <1>8, <1>9, ListNumbers DEF Saving

LEMMA CopyNumbers ==
  ASSUME TypeInv, NumbersFit, ListsApart, draft # NoDraft, CopyFiles,
         UNCHANGED <<file, draft, made>>, UploadsGoOn
  PROVE  NumbersFit'
<1>1. /\ active' = draft.active
      /\ Held' = InDraft /\ InDraft' = InDraft /\ Saved' = Saved
  BY CopyFacts
<1>2. Joining' = Joining
  BY <1>1, JoiningSame DEF Joining
<1>3. New' \subseteq New
  BY <1>1, <1>2 DEF New, Joining, ListsApart, AddingFits
<1>4. DraftActive' = draft.active /\ DraftActive = draft.active
  BY DEF DraftActive
<1>5. OlderGone'
  BY <1>1, <1>2, <1>4 DEF NumbersFit, OlderGone, Older
<1>6. PendingWhole'
  BY <1>1 DEF PendingWhole, ListsApart, Disjoint
<1>7. QED
  BY <1>3, <1>5, <1>6, ListNumbers DEF UploadsGoOn

(* New files go: of each history the highest one, if any.                  *)
LEMMA GoneNumbers ==
  ASSUME TypeInv, NumbersFit, NEW D, D \subseteq New \cap Saved,
         Saved' = Saved \ D, \A g \in Saved' : file'[g] = file[g],
         UNCHANGED made, New' \subseteq New,
         OlderGone', PendingWhole', UploadsGoOn
  PROVE  NumbersFit'
<1>1. ASSUME NEW h
      PROVE  Revisions(h)' = Revisions(h) \ D
  BY DEF Revisions
<1>2. \A h : Revisions(h) \in SUBSET Files /\ Revisions(h) \subseteq Saved
  BY RevisionsFacts
<1>3. ASSUME NEW h \in Histories, NEW f \in Revisions(h) \cap D
      PROVE  /\ Revisions(h)' = Revisions(h) \ {f}
             /\ file[f].revision = Cardinality(Revisions(h))
             /\ Revisions(h) \cap New \subseteq {f}
  <2>1. file[f].revision = Cardinality(Revisions(h))
    BY <1>3 DEF NumbersFit, NewestFree, LatestRevision
  <2>2. Revisions(h) \cap New \subseteq {f}
    BY <1>3, OneFree DEF NumbersFit
  <2>3. QED
    BY <1>1, <1>3, <2>1, <2>2
<1>4. Numbered'
  <2> SUFFICES ASSUME NEW h \in Histories
               PROVE  IsNumbering(Revisions(h), file)'
    BY DEF Numbered
  <2>1. IsNumbering(Revisions(h), file)
    BY DEF NumbersFit, Numbered
  <2> PICK S, u : S = Revisions(h) /\ u = file'
    OBVIOUS
  <2>2. CASE Revisions(h) \cap D = {}
    <3>1. Revisions(h)' = S /\ S \subseteq Saved'
      BY <1>1, <1>2, <2>2
    <3>2. \A g \in S : file'[g] = file[g]
      BY <3>1
    <3>3. QED
      BY <2>1, <3>1, <3>2 DEF IsNumbering
  <2>3. CASE Revisions(h) \cap D # {}
    <3>1. PICK f \in Revisions(h) \cap D : TRUE
      BY <2>3
    <3>2. /\ S \in SUBSET Files /\ f \in S
          /\ IsNumbering(S, file)
          /\ file[f].revision = Cardinality(S)
          /\ Revisions(h)' = S \ {f}
      BY <1>2, <1>3, <2>1, <3>1
    <3>3. \A g \in S \ {f} : u[g] = file[g]
      BY <1>1, <1>2, <3>2
    <3>4. IsNumbering(S \ {f}, u)
      BY ONLY <3>2, <3>3, RemoveHighest
    <3>5. QED
      BY <3>2, <3>4
  <2>4. QED
    BY <2>2, <2>3
<1>5. NewestFree'
  <2> SUFFICES ASSUME NEW h \in Histories, NEW g \in Revisions(h)', g \in New'
               PROVE  file'[g].revision = LatestRevision(h)'
    BY DEF NewestFree
  <2>1. g \in Revisions(h) /\ g \in New /\ g \notin D /\ file'[g] = file[g]
    BY <1>1, <1>2
  <2>2. Revisions(h) \cap D = {}
    BY <1>3, <2>1
  <2>3. Revisions(h)' = Revisions(h)
    BY <1>1, <2>2
  <2>4. QED
    BY <2>1, <2>3 DEF NumbersFit, NewestFree, LatestRevision
<1>7. ASSUME NEW w \in Workers, Saving(w)'
      PROVE  SavingFits(w)'
  <2>1. request'[w] = request[w] /\ SavingFits(w) /\ Saving(w)
    BY <1>7 DEF NumbersFit, UploadsGoOn
  <2> PICK h, v : h = request[w].history /\ v = request[w].victim
    OBVIOUS
  <2>2. Revisions(h)' \ {v} = Revisions(h) \ {v}
    BY <1>1, <2>1 DEF SavingFits
  <2>3. v \in Saved' => v \in Revisions(h)' /\ file'[v] = file[v]
    BY <1>1, <2>1 DEF SavingFits
  <2>4. Revisions(h)' \cap New' \subseteq {v}
    BY <1>1, <2>1 DEF SavingFits
  <2>5. v \in {None} \cup 1..made' /\ request[w].revision = Cardinality(Revisions(h)' \ {v}) + 1
    BY <2>1, <2>2 DEF SavingFits
  <2>6. QED
    BY <2>1, <2>3, <2>4, <2>5 DEF SavingFits
<1>8. QED
  BY <1>4, <1>5, <1>7 DEF NumbersFit

LEMMA DeleteNumbers ==
  ASSUME TypeInv, NumbersFit, ListsApart, "buried" \notin harm',
         NEW f \in Files, DeleteFile(f)
  PROVE  NumbersFit'
<1>1. /\ f \in Saved
      /\ UNCHANGED <<active, inactive, request, made>>
      /\ Saved' \subseteq Saved /\ \A g \in Saved' : file'[g] = file[g]
      /\ draft' # NoDraft /\ InDraft' = draft'.active \cup draft'.inactive
  BY DeletedLists DEF DeleteFile
<1>2. Held' = Held /\ DraftActive' = draft'.active /\ UploadsGoOn
  BY <1>1 DEF Held, DraftActive, UploadsGoOn, Saving, Adding
<1>3. Joining' = Joining \cap Saved'
  BY <1>1, <1>2, JoiningSame
<1>4. /\ DraftActive \subseteq Drafted.active
      /\ \A k \in Drafted.active, g \in Saved \ (Drafted.active \cup Joining) :
           Older(g, k)
  BY DraftedOlder DEF NumbersFit
<1>5. /\ InDraft \subseteq Drafted.active \cup Drafted.inactive
      /\ Drafted.active \cup Drafted.inactive \subseteq Held \cup InDraft
      /\ Drafted.active \cup Drafted.inactive \subseteq Saved
  BY DraftedFit
<1>6. \A k \in active, g \in Saved \ (active \cup DraftActive \cup Joining) :
        Older(g, k)
  BY DEF NumbersFit, OlderGone
<1>7. \A k \in Drafted.inactive \cap active :
        AllRevisions(k) \subseteq Held \cup InDraft \cup Joining
  <2>1. CASE draft = NoDraft
    <3>1. Drafted.inactive = inactive
      BY <2>1, DraftLists DEF TypeInv
    <3>2. QED
      BY <3>1 DEF ListsApart, Disjoint
  <2>2. CASE draft # NoDraft
    BY <2>2, DraftLists DEF TypeInv, NumbersFit, PendingWhole
  <2>3. QED
    BY <2>1, <2>2
<1>8. CASE f \in Held
  <2>1. /\ draft'.active = Drafted.active \ AllRevisions(f)
        /\ draft'.inactive = Drafted.inactive \cup AllRevisions(f)
        /\ UNCHANGED <<file, Saved>>
    BY <1>8, DeletedLists DEF Saved
  <2>2. AllRevisions(f) \subseteq Held
    BY <1>8 DEF DeleteFile, Held
  <2>3. Joining' = Joining
    BY <1>3, <2>1 DEF Joining
  <2>4. New' \subseteq New
    BY <1>1, <1>2, <1>5, <2>1, <2>2, <2>3 DEF New
  <2>5. ASSUME NEW k \in draft'.active, NEW g \in Saved \ (draft'.active \cup Joining)
        PROVE  Older(g, k)
    <3>1. CASE g \in AllRevisions(f)
      <4>1. file[g].history # file[k].history
        BY <1>5, <2>1, <2>5, <3>1 DEF AllRevisions, Revisions
      <4>2. QED
        BY <4>1 DEF Older
    <3>2. CASE g \notin AllRevisions(f)
      BY <1>4, <2>1, <2>5, <3>2
    <3>3. QED
      BY <3>1, <3>2
  <2>6. ASSUME NEW k \in active,
               NEW g \in Saved \ (active \cup draft'.active \cup Joining)
        PROVE  Older(g, k)
    <3>1. g \notin DraftActive
      <4> SUFFICES ASSUME g \in DraftActive
                   PROVE  FALSE
        OBVIOUS
      <4>1. g \in Held
        BY <1>4, <2>1, <2>2, <2>6
      <4>2. draft # NoDraft /\ g \in draft.active /\ g \in inactive
        BY <2>6, <4>1 DEF DraftActive, Held
      <4>3. QED
        BY <4>2 DEF ListsApart, Disjoint
    <3>2. QED
      BY <1>6, <2>6, <3>1
  <2>7. OlderGone'
    BY <1>1, <1>2, <2>1, <2>3, <2>5, <2>6 DEF OlderGone, Older
  <2>8. ASSUME NEW k \in draft'.inactive \cap active
        PROVE  AllRevisions(k) \subseteq Held \cup InDraft' \cup Joining
    <3>1. InDraft \subseteq InDraft'
      BY <1>1, <1>5, <2>1
    <3>2. CASE k \in AllRevisions(f)
      <4>1. AllRevisions(k) = AllRevisions(f)
        BY <3>2 DEF AllRevisions, Revisions
      <4>2. QED
        BY <2>2, <4>1
    <3>3. CASE k \notin AllRevisions(f)
      BY <1>7, <2>1, <2>8, <3>1, <3>3
    <3>4. QED
      BY <3>2, <3>3
  <2>9. PendingWhole'
    BY <1>1, <1>2, <2>1, <2>3, <2>8 DEF PendingWhole, AllRevisions, Revisions
  <2>10. QED
    BY <1>1, <1>2, <2>1, <2>4, <2>7, <2>9, ListNumbers DEF UploadsGoOn
<1>9. CASE f \notin Held
  <2>1. /\ draft'.active = Drafted.active \ {f}
        /\ draft'.inactive = Drafted.inactive \ {f}
        /\ Saved' = Saved \ {f}
    BY <1>9, DeletedLists
  <2>2. f \in New
    BY <1>9 DEF DeleteFile, Held, New
  <2>3. New' \subseteq New
    BY <1>1, <1>2, <1>3, <1>5, <2>1 DEF New
  <2>4. ASSUME NEW k \in Saved', NEW g \in Saved', Older(g, k)
        PROVE  Older(g, k)'
    BY <1>1, <2>4, SameAge
  <2>5. \A k \in draft'.active, g \in Saved' \ (draft'.active \cup Joining') :
          Older(g, k)'
    BY <1>3, <1>4, <1>5, <2>1, <2>4
  <2>6. \A k \in active, g \in Saved' \ (active \cup draft'.active \cup Joining') :
          Older(g, k)'
    <3>1. active \subseteq Saved'
      BY <1>9, <2>1 DEF TypeInv, ListsFit, Held
    <3>2. QED
      BY <1>3, <1>4, <1>6, <2>1, <2>4, <3>1
  <2>7. OlderGone'
    BY <1>1, <1>2, <2>5, <2>6 DEF OlderGone
  <2>8. ASSUME NEW k \in draft'.inactive \cap active'
        PROVE  AllRevisions(k)' \subseteq Held' \cup InDraft' \cup Joining'
    <3>1. k \in Drafted.inactive \cap active /\ k \in Saved'
      BY <1>1, <1>5, <2>1, <2>8
    <3>2. AllRevisions(k)' = AllRevisions(k) \ {f}
      BY <1>1, <2>1, <3>1 DEF AllRevisions, Revisions
    <3>3. AllRevisions(k) \subseteq Held \cup InDraft \cup Joining
      BY <1>7, <3>1
    <3>4. AllRevisions(k)' \subseteq Saved'
      BY DEF AllRevisions, Revisions
    <3>5. QED
      BY <1>1, <1>2, <1>3, <1>5, <2>1, <3>2, <3>3, <3>4
  <2>9. PendingWhole'
    BY <2>8 DEF PendingWhole
  <2>10. {f} \subseteq New \cap Saved
    BY <1>1, <2>2
  <2>11. QED
    BY <1>1, <1>2, <2>1, <2>3, <2>7, <2>9, <2>10, GoneNumbers
<1>10. QED
  BY <1>8, <1>9

LEMMA DraftGoneNumbers ==
  ASSUME TypeInv, NumbersFit, ListsApart, draft # NoDraft, DraftDeleted,
         UNCHANGED <<active, made>>, UploadsGoOn
  PROVE  NumbersFit'
<1>1. /\ Doomed = draft.active \ active
      /\ Saved' = Saved \ Doomed
      /\ \A g \in Saved' : file'[g] = file[g]
      /\ inactive' = inactive \ Doomed
      /\ draft' = NoDraft /\ InDraft' = {}
  BY DraftDeletedFacts
<1>2. Doomed \cap Held = {} /\ inactive' = inactive
  BY <1>1 DEF ListsApart, Disjoint, Held
<1>3. Held' = Held
  BY <1>2 DEF Held
<1>4. Doomed \subseteq New \cap Saved
  BY <1>1, <1>2 DEF TypeInv, ListsFit, InDraft, New
<1>5. Joining' = Joining \cap Saved'
  BY <1>1, JoiningSame
<1>6. New' \subseteq New
  BY <1>1, <1>3, <1>5 DEF New
<1>7. DraftActive' = {} /\ DraftActive = draft.active
  BY <1>1 DEF DraftActive
<1>8. \A k \in active, g \in Saved' \ (active \cup Joining') : Older(g, k)'
  <2> SUFFICES ASSUME NEW k \in active, NEW g \in Saved' \ (active \cup Joining')
               PROVE  Older(g, k)'
    OBVIOUS
  <2>1. k \in Saved'
    BY <1>1 DEF TypeInv, ListsFit, Held
  <2>2. g \in Saved /\ g \notin active \cup DraftActive \cup Joining
    BY <1>1, <1>5, <1>7
  <2>3. Older(g, k)
    BY <2>2 DEF NumbersFit, OlderGone
  <2>4. QED
    BY <1>1, <2>1, <2>3, SameAge
<1>9. OlderGone' /\ PendingWhole'
  BY <1>1, <1>7, <1>8 DEF OlderGone, PendingWhole
<1>10. QED
  BY <1>1, <1>4, <1>6, <1>9, GoneNumbers

LEMMA NumbersStep ==
  ASSUME TypeInv, TypeInv', NumbersFit, ListsApart, [Next]_vars,
         "buried" \notin harm'
  PROVE  NumbersFit'
<1>1. ASSUME NEW w \in Workers, Publish(w)
      PROVE  NumbersFit'
  <2>1. /\ draft # NoDraft /\ CopyFiles /\ UNCHANGED <<file, draft, made>>
        /\ request' = [request EXCEPT ![w] = [at |-> "delete draft"]]
        /\ request[w] = Idle
    BY <1>1 DEF Publish
  <2>2. /\ request'[w].at = "delete draft"
        /\ \A x \in Workers \ {w} : request'[x] = request[x]
    BY <2>1, OtherRequests DEF TypeInv
  <2>3. UploadsGoOn
    BY <2>1, <2>2 DEF UploadsGoOn, Saving, Adding
  <2>4. QED
    BY <2>1, <2>3, CopyNumbers
<1>2. CASE PublishFails
  BY <1>2, CopyNumbers DEF PublishFails, UploadsGoOn, Saving, Adding
<1>3. CASE DiscardDraft
  BY <1>3, DraftGoneNumbers DEF DiscardDraft, UploadsGoOn, Saving, Adding
<1>4. ASSUME UNCHANGED <<file, active, inactive, draft, made>>, UploadsGoOn
      PROVE  NumbersFit'
  <2>1. UNCHANGED <<Saved, Held, InDraft, DraftActive>>
    BY <1>4 DEF Saved, Held, InDraft, DraftActive
  <2>2. Joining' = Joining
    BY <1>4, <2>1, JoiningSame DEF Joining
  <2>3. New' = New
    BY <2>1, <2>2 DEF New
  <2>4. OlderGone' /\ PendingWhole'
    BY <1>4, <2>1, <2>2
       DEF NumbersFit, OlderGone, PendingWhole, Older, AllRevisions, Revisions
  <2>5. QED
    BY <1>4, <2>3, <2>4, ListNumbers DEF UploadsGoOn
<1>5. ASSUME NEW w \in Workers, DeleteDraft(w)
      PROVE  NumbersFit'
  <2>1. /\ request' = [request EXCEPT ![w] = Idle]
        /\ request[w].at = "delete draft"
        /\ UNCHANGED <<active, made>>
    BY <1>5 DEF DeleteDraft
  <2>2. /\ request'[w] = Idle
        /\ \A x \in Workers \ {w} : request'[x] = request[x]
    BY <2>1, OtherRequests DEF TypeInv
  <2>3. UploadsGoOn
    BY <2>1, <2>2 DEF UploadsGoOn, Saving, Adding
  <2>4. CASE draft = NoDraft
    BY <1>4, <1>5, <2>1, <2>3, <2>4 DEF DeleteDraft
  <2>5. CASE draft # NoDraft
    BY <1>5, <2>1, <2>3, <2>5, DraftGoneNumbers DEF DeleteDraft
  <2>6. QED
    BY <2>4, <2>5
<1>6. ASSUME NEW w \in Workers, LoadReviewRequest(w)
      PROVE  NumbersFit'
  <2>1. UploadsGoOn /\ UNCHANGED <<file, active, inactive, draft, made>>
    BY <1>6, LoadFacts DEF TypeInv, UploadsGoOn
  <2>2. QED
    BY <1>4, <2>1
<1>7. CASE UNCHANGED vars
  BY <1>4, <1>7 DEF vars, UploadsGoOn, Saving, Adding
<1>8. QED
  BY <1>1, <1>2, <1>3, <1>5, <1>6, <1>7, StartNumbers, SaveNumbers,
     AddNumbers, DeleteNumbers, UndoNumbers DEF Next

(* When nobody is changing anything, the newest revision of a file that is *)
(* active is active.                                                       *)
LEMMA NewestActive ==
  ASSUME TypeInv, NumbersFit, draft = NoDraft, \A w \in Workers : request[w] = Idle,
         NEW h \in Histories, Revisions(h) \cap active # {}
  PROVE  \E f \in Revisions(h) \cap active :
           /\ file[f].revision = LatestRevision(h)
           /\ \A g \in Revisions(h) : file[g].revision <= file[f].revision
           /\ \A g \in Revisions(h) : file[g].revision = LatestRevision(h) => g = f
<1> DEFINE n == Cardinality(Revisions(h))
<1>1. PICK a \in Revisions(h) : a \in active
  OBVIOUS
<1>2. n \in Nat /\ \A g \in Revisions(h) : file[g].revision \in 1..n
  BY RevisionsFacts, FilesFinite DEF NumbersFit, Numbered, IsNumbering
<1>3. n \in 1..n
  BY <1>1, <1>2
<1>4. PICK f \in Revisions(h) : file[f].revision = n
  BY <1>3 DEF NumbersFit, Numbered, IsNumbering
<1>5. f \in active
  <2> SUFFICES ASSUME f \notin active
               PROVE  FALSE
    OBVIOUS
  <2>1. Joining = {} /\ DraftActive = {}
    BY DEF Joining, Adding, DraftActive
  <2>2. f \in Saved /\ file[f].history = file[a].history
    BY <1>1, <1>4, RevisionsFacts
  <2>3. Older(f, a)
    BY <1>1, <2>1, <2>2 DEF NumbersFit, OlderGone
  <2>4. file[f].revision < file[a].revision
    BY <2>2, <2>3 DEF Older
  <2>5. QED
    BY <1>1, <1>2, <1>4, <2>4
<1>6. \A g \in Revisions(h) : file[g].revision = n => g = f
  BY <1>4 DEF NumbersFit, Numbered, IsNumbering
<1>7. QED
  BY <1>2, <1>4, <1>5, <1>6 DEF LatestRevision

LEMMA InitNumbers ==
  ASSUME Init
  PROVE  NumbersFit
<1>1. /\ Saved = {} /\ \A h : Revisions(h) = {}
      /\ active = {} /\ draft = NoDraft /\ \A w \in Workers : ~Saving(w)
  BY DEF Init, Saved, Revisions, Saving
<1>2. Numbered
  BY <1>1, FS_EmptySet DEF Numbered, IsNumbering
<1>3. QED
  BY <1>1, <1>2
     DEF NumbersFit, NewestFree, OlderGone, PendingWhole, DraftActive

(* When nobody is changing anything, the page shows one revision of every  *)
(* file of the review request, and it is the newest, unless uploads met on *)
(* one file or deletions took another revision along.                      *)
THEOREM NewestRevisionShown == Spec => []NewestShown
<1> DEFINE IInv == TypeInv /\ UploadInv /\ ListsInv /\ DiscardInv /\ NumberInv
<1>1. Init => IInv
  BY InitFacts, InitLists, InitNumbers
     DEF UploadInv, ListsInv, DiscardInv, NumberInv, Init
<1>2. IInv /\ [Next]_vars => IInv'
  <2> SUFFICES ASSUME IInv, [Next]_vars
               PROVE  IInv'
    OBVIOUS
  <2>1. TypeInv' /\ UploadInv' /\ ListsInv' /\ DiscardInv'
    BY NextType, UploadsAndLists, DiscardInvStep
  <2>2. NumberInv'
    <3>1. CASE Confusions \cap harm' # {}
      BY <3>1 DEF NumberInv, Unless
    <3>2. CASE Confusions \cap harm' = {}
      <4>1. NumbersFit /\ ListsApart
        BY <3>2, HarmStays
           DEF NumberInv, UploadInv, ListsInv, DiscardInv, ListsApart, Unless, Confusions
      <4>2. NumbersFit'
        BY <2>1, <3>2, <4>1, NumbersStep DEF Confusions
      <4>3. QED
        BY <4>2 DEF NumberInv
    <3>3. QED
      BY <3>1, <3>2
  <2>3. QED
    BY <2>1, <2>2
<1>3. IInv => NewestShown
  <2> SUFFICES ASSUME IInv, ~Unless(Confusions), draft = NoDraft,
                      \A w \in Workers : request[w] = Idle,
                      NEW h \in Histories, Revisions(h) \cap active # {}
               PROVE  LET files == Revisions(h) \cap active IN
                        /\ Latest(files) = files \cap Newest(h)
                        /\ Cardinality(Latest(files)) = 1
    BY DEF NewestShown, Confusions
  <2> DEFINE files == Revisions(h) \cap active
  <2>1. PICK f \in files :
          /\ file[f].revision = LatestRevision(h)
          /\ \A g \in Revisions(h) : file[g].revision <= file[f].revision
          /\ \A g \in Revisions(h) : file[g].revision = LatestRevision(h) => g = f
    BY NewestActive DEF NumberInv
  <2>2. \A g \in files : g \in Saved /\ file[g].history = h
    BY RevisionsFacts
  <2>3. Latest(files) = {f}
    BY <2>1, <2>2 DEF Latest
  <2>4. files \cap Newest(h) = {f}
    <3>1. f \in Newest(h)
      BY <2>1 DEF Newest
    <3>2. \A g \in Newest(h) : g = f
      BY <2>1, NewestIsHighest DEF NumberInv, NumbersFit
    <3>3. QED
      BY <3>1, <3>2
  <2>5. QED
    BY <2>3, <2>4, FS_Singleton
<1>4. QED
  BY <1>1, <1>2, <1>3, PTL DEF Spec

=============================================================================
