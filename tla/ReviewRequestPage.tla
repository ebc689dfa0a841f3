------------------------- MODULE ReviewRequestPage -------------------------
(***************************************************************************)
(* A review request page that is open in a browser and watches the entry   *)
(* with the status updates: it polls the server while a check is pending   *)
(* and replaces the entry when it has changed (static/rb/js/               *)
(* reviewRequestPage/, reviews/detail.py, views/review_request_updates.py). *)
(* An answer brings the entry and the table of issues, each with its time  *)
(* of update; the page remembers the later one and asks for what is newer. *)
(* StatusUpdates is the server; its ImplementsTable allows it what Server  *)
(* does here.                                                              *)
(***************************************************************************)
EXTENDS StatusUpdateTable

CONSTANTS
  Written,    \* the rows that the server saves, apart from their times
  Null,       \* no period, no timestamp, no poll
  MaxPolls    \* bound on the polls that are under way at the same time

VARIABLES
  latestIssue, \* the time of the latest comment, 0 if there is none
  shown,      \* the entry on the page, Null before the page is loaded
  watch,      \* the watch of the page model over its entry
  polls,      \* polls[i]: Null, or a poll under way
  call,       \* the click on Run: "none" or "sent"
  missed      \* history: what kept an answer from the page

pageVars == <<shown, watch, polls, call, missed>>
watchedVars == <<tableVars, latestIssue, pageVars>>

Polls == 1..MaxPolls
Missed == {"overlap", "second", "overtaken", "deleted", "failed"}

(* How often the page polls: at once, or every two seconds and more rarely *)
(* as the updates stay away.                                               *)
Periods == {"now", "later"}

(* The rows behind the entry are its ETag. *)
Latest(rows) ==
  CHOOSE t \in 0..MaxTime :
    /\ t = 0 \/ \E c \in Checks : rows[c] \in Row /\ rows[c].stamp = t
    /\ \A c \in Checks : rows[c] \in Row => rows[c].stamp <= t

EntryOf(rows) ==
  [rows |-> rows,
   stamp |-> Latest(rows),
   pending |-> \E c \in Checks : rows[c] \in Row
                                   /\ EffectiveState(rows[c]) = "pending",
   run |-> {c \in Checks : rows[c] \in Row /\ CanRun(rows[c])}]

NoWatch == [on |-> FALSE, period |-> Null, timer |-> FALSE, since |-> Null]

PageInit ==
  /\ latestIssue = 0
  /\ shown = Null
  /\ watch = NoWatch
  /\ polls = [i \in Polls |-> Null]
  /\ call = "none"
  /\ missed = {}

Schedule(wt) == IF wt.period = Null THEN wt ELSE [wt EXCEPT !.timer = TRUE]

(* watchEntryUpdates.  A timer that is set too late is only set again, so  *)
(* whether it is cancelled first makes no difference here.                 *)
WatchEntryUpdates(wt, period) ==
  Schedule([wt EXCEPT !.on = TRUE, !.since = Null,
                      !.period = IF @ = "now" THEN @ ELSE period])

(* A mistake: the period is kept. *)
StopWatchingForNow(wt) ==
  IF wt.on THEN [wt EXCEPT !.on = FALSE, !.timer = FALSE] ELSE wt

StopWatchingEntryUpdates(wt) ==
  IF wt.on THEN [wt EXCEPT !.on = FALSE, !.period = Null, !.timer = FALSE]
           ELSE wt

(* Rendering the entry watches it if a check is pending. *)
Render(wt, e) == IF e.pending THEN WatchEntryUpdates(wt, "later") ELSE wt

Load ==
  /\ shown = Null
  /\ shown' = EntryOf(row)
  /\ watch' = Render(watch, EntryOf(row))
  /\ UNCHANGED <<tableVars, latestIssue, polls, call, missed>>

TimerFires(i) ==
  /\ watch.timer /\ polls[i] = Null /\ \A j \in 1..(i - 1) : polls[j] # Null
  /\ watch' = [watch EXCEPT !.timer = FALSE]
  /\ polls' = [polls EXCEPT ![i] = [at |-> "sent", since |-> watch.since,
                                     rows |-> Null, entry |-> Null,
                                     table |-> Null]]
  /\ missed' = IF \E j \in Polls : polls[j] # Null
                 THEN missed \cup {"overlap"} ELSE missed
  /\ UNCHANGED <<tableVars, latestIssue, shown, call>>

PollIs(i, at) == polls[i] # Null /\ polls[i].at = at

(* query_data_pre_etag reads the status updates, and others read the rest. *)
ReadUpdates(i) ==
  /\ PollIs(i, "sent")
  /\ polls' = [polls EXCEPT ![i].at = "read", ![i].rows = row]
  /\ UNCHANGED <<tableVars, latestIssue, shown, watch, call, missed>>

(* The view leaves out what was not updated later than the time that the   *)
(* page has seen, in whole seconds.                                        *)
Newer(stamp, since) == since = Null \/ 2 * (stamp \div 2) > since

(* Why an entry that is left out is not the one on the page: for its       *)
(* second, for being older than a time that came with the table of issues, *)
(* or for having lost rows.                                                *)
LeftOut(e, since) ==
  IF e.rows = shown.rows THEN {}
  ELSE IF e.stamp > since THEN {"second"}
  ELSE IF e.stamp > shown.stamp THEN {"overtaken"} ELSE {"deleted"}

Payload(entry, table) ==
  [at |-> IF entry = Null /\ table = Null THEN "empty" ELSE "answered",
   since |-> Null, rows |-> Null, entry |-> entry, table |-> table]

(* The table goes with an entry that is sent, or that could not be         *)
(* rendered, if it is newer too.                                           *)
AnswerPoll(i, rendered) ==
  LET since == polls[i].since
      e == EntryOf(polls[i].rows)
      newer == Newer(e.stamp, since)
  IN
  /\ PollIs(i, "read")
  /\ polls' = [polls EXCEPT ![i] =
                 Payload(IF newer /\ rendered THEN e ELSE Null,
                        IF newer /\ Newer(latestIssue, since) THEN latestIssue
                                                             ELSE Null)]
  /\ missed' = missed \cup (IF ~newer THEN LeftOut(e, since)
                            ELSE IF ~rendered THEN {"failed"} ELSE {})
  /\ UNCHANGED <<tableVars, latestIssue, shown, watch, call>>

IsUpdated(e) == e.stamp > shown.stamp \/ e.rows # shown.rows

(* A mistake: nothing was sent, and no other poll is made. *)
BackoffForGood(wt) ==
  [wt EXCEPT !.period = IF @ = "later" THEN "later" ELSE "now"]

(* Nothing was sent, so the next poll is later.  No period counts as zero. *)
Backoff(wt) ==
  Schedule([wt EXCEPT !.period = IF @ = "later" THEN "later" ELSE "now"])

(* An entry was sent: it replaces the one shown if it is another one, and  *)
(* the time of its update is remembered.                                   *)
Applied(wt, e) ==
  IF IsUpdated(e) THEN Render(StopWatchingEntryUpdates(wt), e) ELSE wt

Remember(wt, stamp) ==
  [wt EXCEPT !.since = IF @ = Null \/ stamp > @ THEN stamp ELSE @]

Deliver(i) ==
  /\ PollIs(i, "empty")
  /\ polls' = [polls EXCEPT ![i] = Null]
  /\ watch' = Backoff(watch)
  /\ UNCHANGED <<tableVars, latestIssue, shown, call, missed>>

(* The parts of an answer are loaded each for itself, in either order; the *)
(* last one schedules the next poll.                                       *)
Loaded(i, wt, entry, table) ==
  IF entry = Null /\ table = Null
    THEN polls' = [polls EXCEPT ![i] = Null] /\ watch' = Schedule(wt)
    ELSE polls' = [polls EXCEPT ![i] = Payload(entry, table)] /\ watch' = wt

LoadEntry(i) ==
  /\ PollIs(i, "answered") /\ polls[i].entry # Null
  /\ LET e == polls[i].entry IN
     /\ shown' = IF IsUpdated(e) THEN e ELSE shown
     /\ Loaded(i, Remember(Applied(watch, e), e.stamp), Null, polls[i].table)
  /\ UNCHANGED <<tableVars, latestIssue, call, missed>>

LoadTable(i) ==
  /\ PollIs(i, "answered") /\ polls[i].table # Null
  /\ Loaded(i, Remember(watch, polls[i].table), polls[i].entry, Null)
  /\ UNCHANGED <<tableVars, latestIssue, shown, call, missed>>

(* A poll that fails is reported to nobody: its error has no handler. *)
PollFails(i) ==
  /\ polls[i] # Null
  /\ polls' = [polls EXCEPT ![i] = Null]
  /\ missed' = missed \cup {"failed"}
  /\ UNCHANGED <<tableVars, latestIssue, shown, watch, call>>

(* _onRequestRunClicked: the button is disabled while the request is being *)
(* served.  Its callback runs even if the check could not be run.          *)
ClickRun(c) ==
  /\ shown # Null /\ c \in shown.run
  /\ call = "none"
  /\ call' = "sent"
  /\ UNCHANGED <<tableVars, latestIssue, shown, watch, polls, missed>>

RunAnswered ==
  /\ call = "sent"
  /\ call' = "none"
  /\ watch' = WatchEntryUpdates(StopWatchingEntryUpdates(watch), "now")
  /\ UNCHANGED <<tableVars, latestIssue, shown, polls, missed>>

(* The server, by the requests of StatusUpdates. *)
Server ==
  /\ \/ Tick
     \/ \E c \in Checks : Remove(c) \/ \E r \in Written : Save(c, r)
  /\ UNCHANGED <<latestIssue, pageVars>>

(* A comment is saved, or the latest one is deleted: of the others, only   *)
(* that they are older is known.                                           *)
Comment ==
  /\ \/ Tick /\ latestIssue' = now + 1
     \/ UNCHANGED tableVars /\ \E t \in 0..MaxTime : t < latestIssue /\ latestIssue' = t
  /\ UNCHANGED pageVars

(* What the server, and then the page, does about a poll.                  *)
ServePoll(i) == ReadUpdates(i) \/ \E rendered \in BOOLEAN : AnswerPoll(i, rendered)
Process(i) == Deliver(i) \/ LoadEntry(i) \/ LoadTable(i)

BothInit == TableInit /\ PageInit

PageActs ==
  \/ Load
  \/ \E c \in Checks : ClickRun(c)
  \/ RunAnswered
  \/ \E i \in Polls :
       \/ TimerFires(i)
       \/ ServePoll(i) \/ Process(i)
       \/ PollFails(i)

PageNext == Server \/ Comment \/ PageActs

(* The browser runs its timers and callbacks, and the server answers.      *)
(* Nobody has to click and no tool has to answer.                          *)
Fairness ==
  /\ WF_watchedVars(RunAnswered)
  /\ WF_watchedVars(\E i \in Polls : TimerFires(i))
  /\ \A i \in Polls : WF_watchedVars(ServePoll(i) \/ Process(i))

PageSpec == BothInit /\ [][PageNext]_watchedVars
FairPageSpec == PageSpec /\ Fairness
-----------------------------------------------------------------------------
(* Page, watch and polls are of their types: the period is always one.     *)
PageTypeOK ==
  /\ latestIssue \in 0..MaxTime
  /\ shown = Null \/ shown.stamp \in 0..MaxTime
  /\ watch \in [on : BOOLEAN, period : Periods \cup {Null}, timer : BOOLEAN,
                since : 0..MaxTime \cup {Null}]
  /\ call \in {"none", "sent"}
  /\ missed \subseteq Missed

NeverMissed(causes) == causes \cap missed = {}

(* The page polls only as long as it watches an entry, if no two polls     *)
(* were ever under way together: an empty answer to the second one would   *)
(* otherwise set the timer that the first one has just given up.           *)
OnlyWhileWatched == NeverMissed({"overlap"}) => (watch.timer => watch.on)

ShowsPending == IF shown = Null THEN FALSE ELSE shown.pending
Completed == \A c \in Checks : Present(c) => row[c].state # "pending"

Waiting(causes) == ShowsPending /\ Completed /\ NeverMissed(causes)

(* A page that shows a check as pending comes to show what has become of   *)
(* it, unless a poll failed or the entry was not rendered, or the view left *)
(* the change out: for being in the second of what the page saw last, of   *)
(* the entry or of any issue, for being older than an issue that the view  *)
(* read after the entry, or for being a deletion.                          *)
CompletedShown ==
  Waiting({"second", "overtaken", "deleted", "failed"})
    ~> ~Waiting({"second", "overtaken", "deleted", "failed"})

(* The same of a page whose polls never fail or overlap, of issues that    *)
(* nobody saves while the view reads, and of checks that nobody deletes,   *)
(* as the comment of the view says of it.                                  *)
AllCompletedShown ==
  Waiting({"overlap", "overtaken", "deleted", "failed"})
    ~> ~Waiting({"overlap", "overtaken", "deleted", "failed"})

(* The page only ever polls while it watches an entry, as the comment of   *)
(* _scheduleCheckUpdates says.                                             *)
PollsWhileWatching == watch.timer => watch.on
=============================================================================
