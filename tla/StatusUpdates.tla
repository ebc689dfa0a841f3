--------------------------- MODULE StatusUpdates ---------------------------
(***************************************************************************)
(* Status updates of a review request: the rows in which automated checks  *)
(* report how they are doing (reviews/models/status_update.py and          *)
(* webapi/resources/status_update.py).                                     *)
(*                                                                         *)
(* A request is served by a worker in one step per database statement; a   *)
(* worker holds the row as it loaded it, and saving writes every column of *)
(* it, inserting the row again if it has gone.  The tools that run the     *)
(* checks are not part of the repository: they are started by listeners of *)
(* status_update_request_run and answer through the API.                   *)
(***************************************************************************)
EXTENDS StatusUpdateTable

CONSTANTS
  Workers,    \* the workers that serve requests
  Idle,       \* a worker without a request
  Answers,    \* the states that a tool reports
  MaxRuns     \* bound on the runs of a tool

VARIABLES
  jobs,       \* jobs[c]: the runs of the tool of check c that have not ended
  runs,       \* how many runs were started, of all tools
  requests,   \* what each worker is doing
  harm        \* history: the ways in which requests have met

vars == <<tableVars, jobs, runs, requests, harm>>

Harms == {"twice", "late", "overwritten", "revived"}
Request == [op : {"run"}, check : Checks, held : Row, ran : BOOLEAN]
             \cup [op : {"put"}, check : Checks, held : Row]

(* A run ends with an answer: no tool reports that it is still running. *)
ASSUME RequestsAssumption ==
  /\ MaxRuns \in Nat
  /\ Idle \notin Request
  /\ Answers \subseteq States \ {"pending"}

Init ==
  /\ TableInit
  /\ jobs = [c \in Checks |-> 0]
  /\ runs = 0
  /\ requests = [w \in Workers |-> Idle]
  /\ harm = {}

Start(c) ==
  /\ runs < MaxRuns
  /\ runs' = runs + 1
  /\ jobs' = [jobs EXCEPT ![c] = @ + 1]

(* A check is added; the tool of one that is pending is running.  A tool    *)
(* may add its own check in any state, an integration adds one that waits  *)
(* to be run by hand or starts the tool at once.                           *)
Add(c, states) ==
  /\ row[c] = Absent
  /\ \E timed, retry \in BOOLEAN, state \in states :
       /\ Save(c, [state |-> state, stamp |-> now, timed |-> timed,
                   retry |-> retry])
       /\ IF state = "pending" THEN Start(c) ELSE UNCHANGED <<jobs, runs>>
  /\ UNCHANGED <<requests, harm>>

CreateForIntegration(c) == Add(c, {"not-yet-run", "pending"})

Create(c) == Add(c, States)

(* PUT state=request-run: the row is loaded and can_run is asked of it. *)
RequestRun(w, c) ==
  /\ requests[w] = Idle
  /\ Present(c) /\ CanRun(row[c])
  /\ requests' = [requests EXCEPT ![w] =
                    [op |-> "run", check |-> c, held |-> row[c],
                     ran |-> FALSE]]
  /\ UNCHANGED <<now, row, jobs, runs, harm>>

(* The listener makes the row it is given pending, saves it and starts the *)
(* tool.                                                                   *)
Run(w) ==
  LET rq == requests[w]
      c == rq.check
      pending == [rq.held EXCEPT !.state = "pending", !.stamp = now + 1] IN
  /\ rq # Idle /\ rq.op = "run" /\ ~rq.ran
  /\ Save(c, pending)
  /\ Start(c)
  /\ requests' = [requests EXCEPT ![w].held = pending, ![w].ran = TRUE]
  /\ harm' = harm
       \cup (IF row[c] = Deleted THEN {"revived"} ELSE {})
       \cup (IF row[c] # rq.held THEN {"twice"} ELSE {})
       \cup (IF rq.held.state = "pending" THEN {"late"} ELSE {})

(* The request ends by saving the row that it holds, whatever the tool has *)
(* reported in the meantime.                                               *)
SaveRun(w) ==
  LET rq == requests[w]
      c == rq.check IN
  /\ rq # Idle /\ rq.op = "run" /\ rq.ran
  /\ Save(c, rq.held)
  /\ requests' = [requests EXCEPT ![w] = Idle]
  /\ harm' = harm
       \cup (IF row[c] = Deleted THEN {"revived"}
             ELSE IF row[c].state # "pending" THEN {"overwritten"} ELSE {})
  /\ UNCHANGED <<jobs, runs>>

(* PUT state=...: by the tool at the end of a run, or by the owner who     *)
(* cancels the check.  The tool gets no answer when the check has gone.    *)
Put(w, c, state) ==
  /\ requests[w] = Idle
  /\ Present(c)
  /\ requests' = [requests EXCEPT ![w] =
                    [op |-> "put", check |-> c,
                     held |-> [row[c] EXCEPT !.state = state]]]
  /\ UNCHANGED <<now, row, runs, harm>>

(* A mistake: an answer that comes after the timeout is dropped. *)
AnswerInTime(w, c, state) ==
  /\ jobs[c] > 0
  /\ jobs' = [jobs EXCEPT ![c] = @ - 1]
  /\ IF Present(c) /\ EffectiveState(row[c]) = "timed-out"
       THEN UNCHANGED <<now, row, runs, requests, harm>>
       ELSE Put(w, c, state)

Answer(w, c, state) ==
  /\ jobs[c] > 0
  /\ jobs' = [jobs EXCEPT ![c] = @ - 1]
  /\ Put(w, c, state)

AnswerNobody(c) ==
  /\ jobs[c] > 0 /\ row[c] = Deleted
  /\ jobs' = [jobs EXCEPT ![c] = @ - 1]
  /\ UNCHANGED <<now, row, runs, requests, harm>>

Cancel(w, c) ==
  /\ Put(w, c, "cancelled")
  /\ UNCHANGED jobs

(* A mistake: an update by a query, which leaves the timestamp alone. *)
SavePutUnstamped(w) ==
  LET rq == requests[w] IN
  /\ rq # Idle /\ rq.op = "put" /\ Present(rq.check)
  /\ row' = [row EXCEPT ![rq.check] = rq.held]
  /\ requests' = [requests EXCEPT ![w] = Idle]
  /\ UNCHANGED <<now, jobs, runs, harm>>

SavePut(w) ==
  LET rq == requests[w] IN
  /\ rq # Idle /\ rq.op = "put"
  /\ Save(rq.check, rq.held)
  /\ requests' = [requests EXCEPT ![w] = Idle]
  /\ harm' = harm \cup
       (IF row[rq.check] = Deleted THEN {"revived"} ELSE {})
  /\ UNCHANGED <<jobs, runs>>

Delete(c) ==
  /\ Remove(c)
  /\ UNCHANGED <<jobs, runs, requests, harm>>

Serve(w) ==
  \/ Run(w)
  \/ SaveRun(w)
  \/ SavePut(w)

Next ==
  \/ Tick /\ UNCHANGED <<jobs, runs, requests, harm>>
  \/ \E c \in Checks :
       \/ CreateForIntegration(c)
       \/ Create(c)
       \/ Delete(c)
       \/ AnswerNobody(c)
       \/ \E w \in Workers :
            \/ RequestRun(w, c)
            \/ Cancel(w, c)
            \/ \E state \in Answers : Answer(w, c, state)
  \/ \E w \in Workers : Serve(w)

Spec == Init /\ [][Next]_vars
-----------------------------------------------------------------------------
(* Rows, requests and runs are of their types: no row ever has a state     *)
(* that only requests have.                                                *)
TypeOK ==
  /\ now \in 0..MaxTime /\ runs \in 0..MaxRuns
  /\ row \in [Checks -> Row \cup {Absent, Deleted}]
  /\ jobs \in [Checks -> 0..MaxRuns]
  /\ requests \in [Workers -> Request \cup {Idle}]
  /\ harm \subseteq Harms

Without(causes) == causes \cap harm = {}

Unasked(c) ==
  jobs[c] = 0 /\ \A w \in Workers : requests[w] = Idle \/ requests[w].check # c

(* A check whose tool has answered does not stay pending: the answer that  *)
(* the tool gave is in the row when nothing about the check is under way,  *)
(* unless the request that started the run was still to save the row.      *)
AnswersStored ==
  \A c \in Checks :
    Unasked(c) /\ Present(c) /\ Without({"overwritten", "revived"})
      => row[c].state # "pending"

(* A tool is not started while it runs, unless two requests found the      *)
(* check runnable together, or the check timed out and was retried.        *)
RunsOnce == \A c \in Checks : Without({"twice", "late"}) => jobs[c] <= 1

(* Whatever the requests do, the table changes by saves with a time of     *)
(* their own and by deletions: what ReviewRequestPage assumes of it.       *)
ImplementsTable ==
  [][\/ \E c \in Checks : Remove(c)
     \/ \E c \in Checks : Present(c)' /\ Save(c, row'[c])
     \/ Tick]_tableVars
=============================================================================
