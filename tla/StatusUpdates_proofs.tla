------------------------ MODULE StatusUpdates_proofs ------------------------
(***************************************************************************)
(* Proofs about StatusUpdates, for any number of checks and of workers,    *)
(* any timeout and any number of runs, and about the page that shows them, *)
(* for any number of polls.                                                *)
(***************************************************************************)
EXTENDS StatusUpdates, ReviewRequestPage, TLAPS

(***************************************************************************)
(* Types.                                                                  *)
(***************************************************************************)

(* Only started runs are under way, and a request has loaded its row.      *)
TypeInv ==
  /\ TypeOK
  /\ \A c \in Checks : jobs[c] <= runs
  /\ \A c \in Checks : row[c] = Absent =>
       jobs[c] = 0 /\ \A w \in Workers : requests[w] = Idle
                                           \/ requests[w].check # c

(* What a save leaves in the table.                                        *)
LEMMA SaveType ==
  ASSUME TypeOK, NEW c \in Checks, NEW r \in Row, Save(c, r)
  PROVE  /\ now' \in 0..MaxTime /\ now' = now + 1
         /\ row' \in [Checks -> Row \cup {Absent, Deleted}]
         /\ row'[c] = [r EXCEPT !.stamp = now']
         /\ row'[c] \in Row /\ row'[c].state = r.state
         /\ \A d \in Checks \ {c} : row'[d] = row[d]
<1>1. now' = now + 1 /\ now' \in 0..MaxTime
  BY TableAssumption DEF Save, TypeOK
<1>2. [r EXCEPT !.stamp = now + 1] \in Row
  BY <1>1 DEF Row
<1>3. QED
  BY <1>1, <1>2 DEF Save, TypeOK, Row

(* The start of a tool.                                                    *)
LEMMA StartType ==
  ASSUME TypeInv, NEW c \in Checks, Start(c)
  PROVE  /\ runs' \in 0..MaxRuns /\ runs' = runs + 1
         /\ jobs' \in [Checks -> 0..MaxRuns]
         /\ \A d \in Checks : jobs'[d] <= runs'
         /\ jobs'[c] = jobs[c] + 1
         /\ \A d \in Checks \ {c} : jobs'[d] = jobs[d]
  BY RequestsAssumption DEF Start, TypeInv, TypeOK

(* A request that is served is about a row that has existed.               *)
LEMMA ServedType ==
  ASSUME TypeInv, NEW w \in Workers, requests[w] # Idle
  PROVE  /\ requests[w] \in Request
         /\ requests[w].check \in Checks
         /\ requests[w].held \in Row
         /\ row[requests[w].check] # Absent
  BY DEF TypeInv, TypeOK, Request

(* Either way of adding a check.                                           *)
Adding(c) == CreateForIntegration(c) \/ Create(c)

LEMMA AddTyped ==
  ASSUME TypeInv, NEW c \in Checks, Adding(c)
  PROVE  TypeInv'
<1>1. PICK timed \in BOOLEAN, retry \in BOOLEAN,
           state \in States :
        /\ Save(c, [state |-> state, stamp |-> now, timed |-> timed,
                    retry |-> retry])
        /\ IF state = "pending" THEN Start(c) ELSE UNCHANGED <<jobs, runs>>
  BY DEF Adding, CreateForIntegration, Create, Add, States
<1> DEFINE r == [state |-> state, stamp |-> now, timed |-> timed,
                 retry |-> retry]
<1>2. r \in Row
  BY DEF Row, States, TypeInv, TypeOK
<1> HIDE DEF r
<1>3. /\ now' \in 0..MaxTime
      /\ row' \in [Checks -> Row \cup {Absent, Deleted}]
      /\ row'[c] \in Row
      /\ \A d \in Checks \ {c} : row'[d] = row[d]
  BY <1>1, <1>2, SaveType DEF TypeInv, r
<1>4. /\ runs' \in 0..MaxRuns
      /\ jobs' \in [Checks -> 0..MaxRuns]
      /\ \A d \in Checks : jobs'[d] <= runs'
      /\ \A d \in Checks \ {c} : jobs'[d] = jobs[d]
  BY <1>1, StartType DEF TypeInv, TypeOK
<1>5. requests' = requests /\ harm' = harm
  BY DEF Adding, CreateForIntegration, Create, Add
<1>6. \A d \in Checks : row'[d] = Absent => d # c
  BY <1>3, TableAssumption
<1>7. QED
  BY <1>3, <1>4, <1>5, <1>6 DEF TypeInv, TypeOK

LEMMA RequestRunTyped ==
  ASSUME TypeInv, NEW w \in Workers, NEW c \in Checks, RequestRun(w, c)
  PROVE  TypeInv'
<1> DEFINE rq == [op |-> "run", check |-> c, held |-> row[c], ran |-> FALSE]
<1>1. row[c] \in Row /\ row[c] # Absent
  BY TableAssumption DEF RequestRun, Present
<1>2. rq \in Request /\ rq.check = c
  BY <1>1 DEF Request
<1>3. requests' = [requests EXCEPT ![w] = rq]
  BY DEF RequestRun
<1> HIDE DEF rq
<1>4. UNCHANGED <<now, row, jobs, runs, harm>>
  BY DEF RequestRun
<1>5. QED
  BY <1>1, <1>2, <1>3, <1>4 DEF TypeInv, TypeOK

LEMMA RunTyped ==
  ASSUME TypeInv, NEW w \in Workers, Run(w)
  PROVE  TypeInv'
<1> DEFINE rq == requests[w]
           pending == [rq.held EXCEPT !.state = "pending", !.stamp = now + 1]
<1>1. /\ rq \in Request /\ rq.check \in Checks /\ rq.held \in Row
      /\ row[rq.check] # Absent /\ rq.op = "run"
  BY ServedType DEF Run
<1>2. now + 1 \in 0..MaxTime
  <2>1. now < MaxTime
    BY DEF Run, Save
  <2>2. QED
    BY <2>1, TableAssumption DEF TypeInv, TypeOK
<1>3. pending \in Row
  BY <1>1, <1>2 DEF Row, States
<1>4. Save(rq.check, pending) /\ Start(rq.check)
  BY DEF Run
<1>5. /\ now' \in 0..MaxTime
      /\ row' \in [Checks -> Row \cup {Absent, Deleted}]
      /\ row'[rq.check] \in Row
      /\ \A d \in Checks \ {rq.check} : row'[d] = row[d]
  BY <1>1, <1>3, <1>4, SaveType DEF TypeInv
<1>6. requests' = [requests EXCEPT ![w].held = pending, ![w].ran = TRUE]
  BY DEF Run
<1>7. requests' \in [Workers -> Request \cup {Idle}]
      /\ requests'[w].check = rq.check
      /\ \A v \in Workers \ {w} : requests'[v] = requests[v]
  BY <1>1, <1>3, <1>6 DEF TypeInv, TypeOK, Request
<1>8. harm' \subseteq Harms
  BY DEF Run, Harms, TypeInv, TypeOK
<1>9. \A d \in Checks : row'[d] = Absent => d # rq.check /\ row[d] = Absent
  BY <1>5, TableAssumption
<1>10. QED
  BY <1>1, <1>4, <1>5, <1>7, <1>8, <1>9, StartType DEF TypeInv, TypeOK

(* The end of a request that saves the row it holds.                       *)
LEMMA SavedTyped ==
  ASSUME TypeInv, NEW w \in Workers, requests[w] # Idle,
         Save(requests[w].check, requests[w].held),
         requests' = [requests EXCEPT ![w] = Idle],
         harm' \subseteq Harms, UNCHANGED <<jobs, runs>>
  PROVE  TypeInv'
<1>1. /\ requests[w].check \in Checks /\ requests[w].held \in Row
      /\ row[requests[w].check] # Absent
  BY ServedType
<1>2. /\ now' \in 0..MaxTime
      /\ row' \in [Checks -> Row \cup {Absent, Deleted}]
      /\ row'[requests[w].check] \in Row
      /\ \A d \in Checks \ {requests[w].check} : row'[d] = row[d]
  BY <1>1, SaveType DEF TypeInv
<1>3. \A d \in Checks : row'[d] = Absent => row[d] = Absent
  BY <1>2, TableAssumption
<1>4. QED
  BY <1>2, <1>3 DEF TypeInv, TypeOK

(* A worker loads a row to change its state.                               *)
LEMMA PutTyped ==
  ASSUME TypeInv, NEW w \in Workers, NEW c \in Checks,
         NEW state \in States, Put(w, c, state),
         \/ jobs' = jobs
         \/ jobs[c] > 0 /\ jobs' = [jobs EXCEPT ![c] = @ - 1]
  PROVE  TypeInv'
<1> DEFINE rq == [op |-> "put", check |-> c,
                  held |-> [row[c] EXCEPT !.state = state]]
<1>1. row[c] \in Row /\ row[c] # Absent
  BY TableAssumption DEF Put, Present
<1>2. rq \in Request /\ rq.check = c
  BY <1>1 DEF Request, Row
<1>3. requests' = [requests EXCEPT ![w] = rq]
  BY DEF Put
<1> HIDE DEF rq
<1>4. UNCHANGED <<now, row, runs, harm>>
  BY DEF Put
<1>5. /\ jobs' \in [Checks -> 0..MaxRuns]
      /\ \A d \in Checks : jobs'[d] <= jobs[d]
      /\ \A d \in Checks \ {c} : jobs'[d] = jobs[d]
  BY RequestsAssumption DEF TypeInv, TypeOK
<1>6. \A d \in Checks : jobs'[d] <= runs'
  BY <1>4, <1>5, RequestsAssumption DEF TypeInv, TypeOK
<1>7. QED
  BY <1>1, <1>2, <1>3, <1>4, <1>5, <1>6 DEF TypeInv, TypeOK

LEMMA Typing == Spec => []TypeInv
<1>1. Init => TypeInv
  BY TableAssumption, RequestsAssumption
  DEF Init, TableInit, TypeInv, TypeOK
<1>2. TypeInv /\ [Next]_vars => TypeInv'
  <2> SUFFICES ASSUME TypeInv, [Next]_vars PROVE TypeInv'
    OBVIOUS
  <2>1. CASE Tick /\ UNCHANGED <<jobs, runs, requests, harm>>
    BY <2>1, TableAssumption DEF Tick, TypeInv, TypeOK
  <2>2. ASSUME NEW c \in Checks, Adding(c) PROVE TypeInv'
    BY <2>2, AddTyped
  <2>3. ASSUME NEW c \in Checks, Delete(c) PROVE TypeInv'
    BY <2>3, TableAssumption DEF Delete, Remove, TypeInv, TypeOK
  <2>4. ASSUME NEW c \in Checks, AnswerNobody(c) PROVE TypeInv'
    <3>1. /\ jobs' \in [Checks -> 0..MaxRuns]
          /\ \A d \in Checks : jobs'[d] <= jobs[d]
          /\ \A d \in Checks \ {c} : jobs'[d] = jobs[d]
      BY <2>4, RequestsAssumption DEF AnswerNobody, TypeInv, TypeOK
    <3>2. row[c] # Absent
      BY <2>4, TableAssumption DEF AnswerNobody
    <3>3. UNCHANGED <<now, row, runs, requests, harm>>
      BY <2>4 DEF AnswerNobody
    <3>4. \A d \in Checks : jobs'[d] <= runs'
      BY <3>1, <3>3, RequestsAssumption DEF TypeInv, TypeOK
    <3>5. QED
      BY <3>1, <3>2, <3>3, <3>4 DEF TypeInv, TypeOK
  <2>5. ASSUME NEW c \in Checks, NEW w \in Workers, RequestRun(w, c)
        PROVE  TypeInv'
    BY <2>5, RequestRunTyped
  <2>6. ASSUME NEW c \in Checks, NEW w \in Workers, Cancel(w, c)
        PROVE  TypeInv'
    <3>1. "cancelled" \in States
      BY DEF States
    <3>2. Put(w, c, "cancelled") /\ jobs' = jobs
      BY <2>6 DEF Cancel
    <3>3. QED
      BY <3>1, <3>2, PutTyped
  <2>7. ASSUME NEW c \in Checks, NEW w \in Workers, NEW state \in Answers,
               Answer(w, c, state)
        PROVE  TypeInv'
    <3>1. state \in States
      BY RequestsAssumption
    <3>2. /\ Put(w, c, state)
          /\ jobs' = [jobs EXCEPT ![c] = @ - 1] /\ jobs[c] > 0
      BY <2>7 DEF Answer
    <3>3. QED
      BY <3>1, <3>2, PutTyped
  <2>8. ASSUME NEW w \in Workers, Serve(w) PROVE TypeInv'
    <3>1. CASE Run(w)
      BY <3>1, RunTyped
    <3>2. CASE SaveRun(w)
      <4>1. harm' \subseteq Harms
        BY <3>2 DEF SaveRun, Harms, TypeInv, TypeOK
      <4>2. QED
        BY <3>2, <4>1, SavedTyped DEF SaveRun
    <3>3. CASE SavePut(w)
      <4>1. harm' \subseteq Harms
        BY <3>3 DEF SavePut, Harms, TypeInv, TypeOK
      <4>2. QED
        BY <3>3, <4>1, SavedTyped DEF SavePut
    <3>4. QED
      BY <2>8, <3>1, <3>2, <3>3 DEF Serve
  <2>9. CASE UNCHANGED vars
    BY <2>9 DEF vars, tableVars, TypeInv, TypeOK
  <2>10. QED
    BY <2>1, <2>2, <2>3, <2>4, <2>5, <2>6, <2>7, <2>8, <2>9
    DEF Next, Adding
<1>3. QED
  BY <1>1, <1>2, PTL DEF Spec

(* Rows, requests and runs keep their types: no row is ever given a state  *)
(* that only requests have, by any number of workers.                      *)
THEOREM TypeCorrect == Spec => []TypeOK
<1>1. TypeInv => TypeOK
  BY DEF TypeInv
<1>2. QED
  BY <1>1, Typing, PTL

(***************************************************************************)
(* What a worker does for a check, as the proofs below see it.             *)
(***************************************************************************)

Runnable == {"not-yet-run", "error", "timed-out"}

(* The workers that are about to save a state of check c from which it can *)
(* be run again.                                                           *)
Reopening(c) ==
  {w \in Workers : /\ requests[w] # Idle /\ requests[w].op = "put"
                   /\ requests[w].check = c
                   /\ requests[w].held.state \in Runnable}

(* Requests hold the states that their operations give them.               *)
HeldFits ==
  \A w \in Workers :
    requests[w] # Idle =>
      /\ requests[w].op = "put" => requests[w].held.state # "pending"
      /\ requests[w].op = "run" =>
           requests[w].held.state \in
             IF requests[w].ran THEN {"pending"} ELSE Runnable \cup {"pending"}

(* A pending row has a tool that runs, or an answer that is being saved.   *)
Awaited(c) ==
  \/ jobs[c] > 0
  \/ \E w \in Workers : /\ requests[w] # Idle /\ requests[w].op = "put"
                        /\ requests[w].check = c

PendingAwaited ==
  Without({"overwritten", "revived"}) =>
    \A c \in Checks :
      Present(c) /\ row[c].state = "pending" => Awaited(c)

(* At most one run is under way or being answered with a state to run from *)
(* again, and none while the row has such a state.                         *)
OneRun(c) ==
  /\ jobs[c] <= 1
  /\ jobs[c] > 0 => Reopening(c) = {}
  /\ \A v, w \in Reopening(c) : v = w
  /\ Present(c) /\ row[c].state \in Runnable =>
       jobs[c] = 0 /\ Reopening(c) = {}

RunsApart == Without({"twice", "late"}) => \A c \in Checks : OneRun(c)

(* What loading a check to run it leaves.                                  *)
LEMMA RequestRunStep ==
  ASSUME TypeInv, NEW w \in Workers, NEW c \in Checks, RequestRun(w, c)
  PROVE  /\ UNCHANGED <<now, row, jobs, runs, harm>>
         /\ requests[w] = Idle
         /\ requests'[w] # Idle /\ requests'[w].op = "run"
         /\ ~requests'[w].ran
         /\ requests'[w].held.state \in Runnable \cup {"pending"}
         /\ \A v \in Workers \ {w} : requests'[v] = requests[v]
<1> DEFINE rq == [op |-> "run", check |-> c, held |-> row[c], ran |-> FALSE]
<1>1. row[c] \in Row /\ CanRun(row[c])
  BY DEF RequestRun, Present
<1>2. row[c].state \in Runnable \cup {"pending"}
  BY <1>1 DEF CanRun, EffectiveState, Runnable
<1>3. rq \in Request
  BY <1>1 DEF Request
<1>4. rq # Idle
  BY <1>3, RequestsAssumption
<1>5. requests' = [requests EXCEPT ![w] = rq]
  BY DEF RequestRun
<1>6. requests'[w] = rq /\ \A v \in Workers \ {w} : requests'[v] = requests[v]
  BY <1>5 DEF TypeInv, TypeOK
<1>7. QED
  BY <1>2, <1>4, <1>6 DEF RequestRun

(* What the listener leaves.                                               *)
LEMMA RunStep ==
  ASSUME TypeInv, NEW w \in Workers, Run(w)
  PROVE  /\ requests[w] # Idle /\ requests[w].op = "run" /\ ~requests[w].ran
         /\ requests[w].check \in Checks
         /\ row'[requests[w].check] \in Row
         /\ row'[requests[w].check].state = "pending"
         /\ \A d \in Checks \ {requests[w].check} : row'[d] = row[d]
         /\ jobs'[requests[w].check] = jobs[requests[w].check] + 1
         /\ \A d \in Checks \ {requests[w].check} : jobs'[d] = jobs[d]
         /\ requests'[w] # Idle /\ requests'[w].op = "run"
         /\ requests'[w].ran
         /\ requests'[w].held.state = "pending"
         /\ \A v \in Workers \ {w} : requests'[v] = requests[v]
<1> DEFINE rq == requests[w]
           pending == [rq.held EXCEPT !.state = "pending", !.stamp = now + 1]
<1>1. /\ rq \in Request /\ rq.check \in Checks /\ rq.held \in Row
      /\ rq # Idle /\ rq.op = "run" /\ ~rq.ran
  BY ServedType DEF Run
<1>2. now + 1 \in 0..MaxTime
  <2>1. now < MaxTime
    BY DEF Run, Save
  <2>2. QED
    BY <2>1, TableAssumption DEF TypeInv, TypeOK
<1>3. pending \in Row /\ pending.state = "pending"
  BY <1>1, <1>2 DEF Row, States
<1>4. Save(rq.check, pending) /\ Start(rq.check)
  BY DEF Run
<1>5. /\ row'[rq.check] \in Row
      /\ row'[rq.check].state = "pending"
      /\ \A d \in Checks \ {rq.check} : row'[d] = row[d]
  BY <1>1, <1>3, <1>4, SaveType DEF TypeInv
<1>6. requests' = [requests EXCEPT ![w].held = pending, ![w].ran = TRUE]
  BY DEF Run
<1>7. /\ requests'[w] \in Request
      /\ requests'[w].op = "run" /\ requests'[w].ran
      /\ requests'[w].held = pending
      /\ \A v \in Workers \ {w} : requests'[v] = requests[v]
  BY <1>1, <1>3, <1>6 DEF TypeInv, TypeOK, Request
<1>8. /\ jobs'[rq.check] = jobs[rq.check] + 1
      /\ \A d \in Checks \ {rq.check} : jobs'[d] = jobs[d]
  BY <1>1, <1>4, StartType
<1>9. requests'[w] # Idle
  BY <1>7, RequestsAssumption
<1>10. QED
  BY <1>1, <1>3, <1>5, <1>7, <1>8, <1>9

(* What the end of a request leaves.                                       *)
LEMMA SavedStep ==
  ASSUME TypeInv, NEW w \in Workers, requests[w] # Idle,
         Save(requests[w].check, requests[w].held),
         requests' = [requests EXCEPT ![w] = Idle]
  PROVE  /\ requests[w].check \in Checks
         /\ row[requests[w].check] # Absent
         /\ row'[requests[w].check] \in Row
         /\ row'[requests[w].check].state = requests[w].held.state
         /\ \A d \in Checks \ {requests[w].check} : row'[d] = row[d]
         /\ requests'[w] = Idle
         /\ \A v \in Workers \ {w} : requests'[v] = requests[v]
<1>1. /\ requests[w].check \in Checks /\ requests[w].held \in Row
      /\ row[requests[w].check] # Absent
  BY ServedType
<1>2. /\ row'[requests[w].check] \in Row
      /\ row'[requests[w].check].state = requests[w].held.state
      /\ \A d \in Checks \ {requests[w].check} : row'[d] = row[d]
  <2> DEFINE c == requests[w].check
             r == requests[w].held
  <2>1. c \in Checks /\ r \in Row /\ Save(c, r) /\ TypeOK
    BY <1>1 DEF TypeInv
  <2> HIDE DEF c, r
  <2>2. /\ row'[c] \in Row /\ row'[c].state = r.state
        /\ \A d \in Checks \ {c} : row'[d] = row[d]
    BY <2>1, SaveType
  <2>3. QED
    BY <2>2 DEF c, r
<1>3. QED
  BY <1>1, <1>2 DEF TypeInv, TypeOK

(* What loading a row to change its state leaves.                          *)
LEMMA PutStep ==
  ASSUME TypeInv, NEW w \in Workers, NEW c \in Checks,
         NEW state \in States, Put(w, c, state)
  PROVE  /\ UNCHANGED <<now, row, runs, harm>>
         /\ Present(c) /\ requests[w] = Idle
         /\ requests'[w] # Idle /\ requests'[w].op = "put"
         /\ requests'[w].check = c /\ requests'[w].held.state = state
         /\ \A v \in Workers \ {w} : requests'[v] = requests[v]
<1> DEFINE rq == [op |-> "put", check |-> c,
                  held |-> [row[c] EXCEPT !.state = state]]
<1>1. row[c] \in Row
  BY DEF Put, Present
<1>2. rq \in Request /\ rq.held.state = state
  BY <1>1 DEF Request, Row
<1>3. rq # Idle
  BY <1>2, RequestsAssumption
<1>4. requests' = [requests EXCEPT ![w] = rq]
  BY DEF Put
<1>5. requests'[w] = rq /\ \A v \in Workers \ {w} : requests'[v] = requests[v]
  BY <1>4 DEF TypeInv, TypeOK
<1>6. QED
  BY <1>2, <1>3, <1>5 DEF Put

(* What adding a check leaves.                                             *)
LEMMA AddStep ==
  ASSUME TypeInv, NEW c \in Checks, Adding(c)
  PROVE  /\ row[c] = Absent /\ UNCHANGED <<requests, harm>>
         /\ row'[c] \in Row
         /\ \/ row'[c].state = "pending" /\ jobs'[c] = jobs[c] + 1
            \/ row'[c].state # "pending" /\ jobs'[c] = jobs[c]
         /\ \A d \in Checks \ {c} : row'[d] = row[d] /\ jobs'[d] = jobs[d]
<1>1. PICK timed \in BOOLEAN, retry \in BOOLEAN,
           state \in States :
        /\ Save(c, [state |-> state, stamp |-> now, timed |-> timed,
                    retry |-> retry])
        /\ IF state = "pending" THEN Start(c) ELSE UNCHANGED <<jobs, runs>>
  BY DEF Adding, CreateForIntegration, Create, Add, States
<1> DEFINE r == [state |-> state, stamp |-> now, timed |-> timed,
                 retry |-> retry]
<1>2. r \in Row /\ r.state = state
  BY DEF Row, States, TypeInv, TypeOK
<1> HIDE DEF r
<1>3. /\ row'[c] \in Row /\ row'[c].state = state
      /\ \A d \in Checks \ {c} : row'[d] = row[d]
  BY <1>1, <1>2, SaveType DEF TypeInv, r
<1>4. /\ \A d \in Checks \ {c} : jobs'[d] = jobs[d]
      /\ jobs'[c] = IF state = "pending" THEN jobs[c] + 1 ELSE jobs[c]
  BY <1>1, StartType DEF TypeInv, TypeOK
<1>5. QED
  BY <1>3, <1>4 DEF Adding, CreateForIntegration, Create, Add

(***************************************************************************)
(* Requests hold what their operations give them.                          *)
(***************************************************************************)

LEMMA Holding == Spec => []HeldFits
<1>1. Init => HeldFits
  BY DEF Init, HeldFits
<1>2. TypeInv /\ HeldFits /\ [Next]_vars => HeldFits'
  <2> SUFFICES ASSUME TypeInv, HeldFits, [Next]_vars PROVE HeldFits'
    OBVIOUS
  <2>1. CASE requests' = requests
    BY <2>1 DEF HeldFits
  <2>2. ASSUME NEW c \in Checks, NEW w \in Workers, RequestRun(w, c)
        PROVE  HeldFits'
    BY <2>2, RequestRunStep DEF HeldFits
  <2>3. ASSUME NEW c \in Checks, NEW w \in Workers,
               NEW state \in States \ {"pending"}, Put(w, c, state)
        PROVE  HeldFits'
    BY <2>3, PutStep DEF HeldFits
  <2>4. ASSUME NEW w \in Workers, Serve(w) PROVE HeldFits'
    <3>1. CASE Run(w)
      BY <3>1, RunStep DEF HeldFits
    <3>2. CASE SaveRun(w)
      BY <3>2, SavedStep DEF SaveRun, HeldFits
    <3>3. CASE SavePut(w)
      BY <3>3, SavedStep DEF SavePut, HeldFits
    <3>4. QED
      BY <2>4, <3>1, <3>2, <3>3 DEF Serve
  <2>5. ASSUME NEW c \in Checks, NEW w \in Workers, Cancel(w, c)
        PROVE  HeldFits'
    BY <2>3, <2>5 DEF Cancel, States
  <2>6. ASSUME NEW c \in Checks, NEW w \in Workers, NEW state \in Answers,
               Answer(w, c, state)
        PROVE  HeldFits'
    BY <2>3, <2>6, RequestsAssumption DEF Answer
  <2>7. QED
    BY <2>1, <2>2, <2>4, <2>5, <2>6
    DEF Next, vars, CreateForIntegration, Create, Add, Delete,
        AnswerNobody
<1>3. QED
  BY <1>1, <1>2, Typing, PTL DEF Spec

(***************************************************************************)
(* A check whose tool has answered does not stay pending.                  *)
(***************************************************************************)

LEMMA PendingAwaitedStep ==
  ASSUME TypeInv, HeldFits, PendingAwaited, [Next]_vars
  PROVE  PendingAwaited'
<1> SUFFICES ASSUME Without({"overwritten", "revived"})',
                    NEW c \in Checks, Present(c)', row'[c].state = "pending"
             PROVE  Awaited(c)'
  BY DEF PendingAwaited
<1>1. CASE UNCHANGED <<row, jobs, requests, harm>>
  BY <1>1 DEF PendingAwaited, Awaited, Present, Without
<1>2. ASSUME NEW d \in Checks, Adding(d) PROVE Awaited(c)'
  <2>1. CASE c = d
    BY <1>2, <2>1, AddStep DEF Awaited, TypeInv, TypeOK
  <2>2. CASE c # d
    BY <1>2, <2>2, AddStep
    DEF Awaited, PendingAwaited, Present, Without
  <2>3. QED
    BY <2>1, <2>2
<1>3. ASSUME NEW d \in Checks, Delete(d) PROVE Awaited(c)'
  <2>1. c # d
    BY <1>3, TableAssumption DEF Delete, Remove, Present, TypeInv, TypeOK
  <2>2. QED
    BY <1>3, <2>1
    DEF Delete, Remove, Awaited, PendingAwaited, Present, Without, TypeInv,
        TypeOK
<1>4. ASSUME NEW d \in Checks, AnswerNobody(d) PROVE Awaited(c)'
  <2>1. c # d
    BY <1>4, TableAssumption DEF AnswerNobody, Present
  <2>2. QED
    BY <1>4, <2>1
    DEF AnswerNobody, Awaited, PendingAwaited, Present, Without, TypeInv,
        TypeOK
<1>5. ASSUME NEW d \in Checks, NEW w \in Workers, RequestRun(w, d)
      PROVE  Awaited(c)'
  BY <1>5, RequestRunStep DEF Awaited, PendingAwaited, Present, Without
<1>6. ASSUME NEW d \in Checks, NEW w \in Workers, NEW state \in States,
             Put(w, d, state),
             \A e \in Checks \ {d} : jobs'[e] = jobs[e]
      PROVE  Awaited(c)'
  <2>1. CASE c = d
    BY <1>6, <2>1, PutStep DEF Awaited
  <2>2. CASE c # d
    BY <1>6, <2>2, PutStep DEF Awaited, PendingAwaited, Present, Without
  <2>3. QED
    BY <2>1, <2>2
<1>7. ASSUME NEW d \in Checks, NEW w \in Workers, Cancel(w, d)
      PROVE  Awaited(c)'
  BY <1>6, <1>7 DEF Cancel, States
<1>8. ASSUME NEW d \in Checks, NEW w \in Workers, NEW state \in Answers,
             Answer(w, d, state)
      PROVE  Awaited(c)'
  <2>1. \A e \in Checks \ {d} : jobs'[e] = jobs[e]
    BY <1>8 DEF Answer, TypeInv, TypeOK
  <2>2. QED
    BY <1>6, <1>8, <2>1, RequestsAssumption DEF Answer
<1>9. ASSUME NEW w \in Workers, Run(w) PROVE Awaited(c)'
  <2>1. CASE c = requests[w].check
    BY <1>9, <2>1, RunStep DEF Awaited, TypeInv, TypeOK
  <2>2. CASE c # requests[w].check
    <3>1. Without({"overwritten", "revived"})
      BY <1>9 DEF Run, Without
    <3>2. Awaited(c)
      BY <1>9, <2>2, <3>1, RunStep DEF PendingAwaited, Present
    <3>3. QED
      BY <1>9, <2>2, <3>2, RunStep DEF Awaited
  <2>3. QED
    BY <2>1, <2>2
<1>10. ASSUME NEW w \in Workers, SaveRun(w) PROVE Awaited(c)'
  <2>1. /\ requests[w] # Idle /\ requests[w].op = "run"
        /\ Without({"overwritten", "revived"})
        /\ jobs' = jobs
    BY <1>10 DEF SaveRun, Without
  <2>2. /\ requests[w].check \in Checks
        /\ row[requests[w].check] # Absent
        /\ \A d \in Checks \ {requests[w].check} : row'[d] = row[d]
        /\ \A v \in Workers \ {w} : requests'[v] = requests[v]
    BY <1>10, <2>1, SavedStep DEF SaveRun
  <2>3. Present(c) /\ row[c].state = "pending"
    <3>1. CASE c = requests[w].check
      <4>1. row[c] # Deleted
        BY <1>10, <3>1 DEF SaveRun, Without
      <4>2. row[c].state = "pending"
        BY <1>10, <3>1, <4>1 DEF SaveRun, Without
      <4>3. QED
        BY <2>2, <3>1, <4>1, <4>2 DEF Present, TypeInv, TypeOK
    <3>2. CASE c # requests[w].check
      BY <2>2, <3>2 DEF Present
    <3>3. QED
      BY <3>1, <3>2
  <2>4. Awaited(c)
    BY <2>1, <2>3 DEF PendingAwaited
  <2>5. QED
    BY <2>1, <2>2, <2>4 DEF Awaited
<1>11. ASSUME NEW w \in Workers, SavePut(w) PROVE Awaited(c)'
  <2>1. /\ requests[w] # Idle /\ requests[w].op = "put"
        /\ requests[w].held.state # "pending"
        /\ Without({"overwritten", "revived"})
        /\ jobs' = jobs
    BY <1>11 DEF SavePut, Without, HeldFits
  <2>2. /\ row'[requests[w].check].state = requests[w].held.state
        /\ \A d \in Checks \ {requests[w].check} : row'[d] = row[d]
        /\ \A v \in Workers \ {w} : requests'[v] = requests[v]
    BY <1>11, <2>1, SavedStep DEF SavePut
  <2>3. c # requests[w].check
    BY <2>1, <2>2
  <2>4. Awaited(c)
    BY <2>1, <2>2, <2>3 DEF PendingAwaited, Present
  <2>5. QED
    BY <2>1, <2>2, <2>3, <2>4 DEF Awaited
<1>12. QED
  BY <1>1, <1>2, <1>3, <1>4, <1>5, <1>7, <1>8, <1>9, <1>10, <1>11
  DEF Next, Adding, Serve, Tick, vars, tableVars

(* Whatever workers, owners and tools do, a check whose tools have all     *)
(* answered and of which no request is under way does not stay pending,    *)
(* unless a request for a run overwrote the answer or brought the check    *)
(* back (status_update.py:541, integrations).                              *)
THEOREM AnswersAreStored == Spec => []AnswersStored
<1>1. Init => PendingAwaited
  BY TableAssumption DEF Init, TableInit, PendingAwaited, Present
<1>2. PendingAwaited => AnswersStored
  BY DEF PendingAwaited, AnswersStored, Awaited, Unasked
<1>3. QED
  BY <1>1, <1>2, PendingAwaitedStep, Typing, Holding, PTL DEF Spec

(***************************************************************************)
(* A tool is not started while it runs.                                    *)
(***************************************************************************)

(* The requests that matter to Reopening, as each kind of step leaves them.*)
LEMMA ReopeningKept ==
  ASSUME NEW w \in Workers,
         \A v \in Workers \ {w} : requests'[v] = requests[v],
         requests[w] = Idle \/ requests[w].op = "run",
         requests'[w] = Idle \/ requests'[w].op = "run",
         NEW c \in Checks
  PROVE  Reopening(c)' = Reopening(c)
<1>1. \A v \in Workers : v \in Reopening(c)' <=> v \in Reopening(c)
  <2> SUFFICES ASSUME NEW v \in Workers
               PROVE  v \in Reopening(c)' <=> v \in Reopening(c)
    OBVIOUS
  <2>1. CASE v = w
    BY <2>1 DEF Reopening
  <2>2. CASE v # w
    BY <2>2 DEF Reopening
  <2>3. QED
    BY <2>1, <2>2
<1>2. QED
  BY <1>1 DEF Reopening

LEMMA ReopeningSaved ==
  ASSUME NEW w \in Workers,
         \A v \in Workers \ {w} : requests'[v] = requests[v],
         requests'[w] = Idle,
         NEW c \in Checks
  PROVE  Reopening(c)' = Reopening(c) \ {w}
<1>1. \A v \in Workers : v \in Reopening(c)' <=> v \in Reopening(c) \ {w}
  <2> SUFFICES ASSUME NEW v \in Workers
               PROVE  v \in Reopening(c)' <=> v \in Reopening(c) \ {w}
    OBVIOUS
  <2>1. CASE v = w
    BY <2>1 DEF Reopening
  <2>2. CASE v # w
    BY <2>2 DEF Reopening
  <2>3. QED
    BY <2>1, <2>2
<1>2. QED
  BY <1>1 DEF Reopening

LEMMA ReopeningPut ==
  ASSUME TypeInv, NEW w \in Workers, NEW c \in Checks,
         NEW state \in States, Put(w, c, state),
         NEW d \in Checks
  PROVE  Reopening(d)' = Reopening(d) \cup
           (IF d = c /\ state \in Runnable THEN {w} ELSE {})
<1> DEFINE more == IF d = c /\ state \in Runnable THEN {w} ELSE {}
<1>1. \A v \in Workers : v \in Reopening(d)' <=> v \in Reopening(d) \cup more
  <2> SUFFICES ASSUME NEW v \in Workers
               PROVE  v \in Reopening(d)' <=> v \in Reopening(d) \cup more
    OBVIOUS
  <2>1. CASE v = w
    BY <2>1, PutStep DEF Reopening
  <2>2. CASE v # w
    <3>1. requests'[v] = requests[v]
      BY <2>2, PutStep
    <3>2. QED
      BY <2>2, <3>1 DEF Reopening
  <2>3. QED
    BY <2>1, <2>2
<1>2. QED
  BY <1>1 DEF Reopening

(* Nothing happened to check c.                                            *)
LEMMA OneRunKept ==
  ASSUME NEW c \in Checks, OneRun(c),
         row'[c] = row[c], jobs'[c] = jobs[c], Reopening(c)' = Reopening(c)
  PROVE  OneRun(c)'
  BY DEF OneRun, Present

LEMMA RunsApartStep ==
  ASSUME TypeInv, HeldFits, RunsApart, [Next]_vars
  PROVE  RunsApart'
<1> SUFFICES ASSUME Without({"twice", "late"})', NEW c \in Checks
             PROVE  OneRun(c)'
  BY DEF RunsApart
<1>a. ASSUME harm \subseteq harm' PROVE OneRun(c)
  BY <1>a DEF RunsApart, Without
<1>1. CASE UNCHANGED <<row, jobs, requests, harm>>
  <2>1. Reopening(c)' = Reopening(c)
    BY <1>1 DEF Reopening
  <2>2. QED
    BY <1>1, <1>a, <2>1, OneRunKept
<1>2. ASSUME NEW d \in Checks, Adding(d) PROVE OneRun(c)'
  <2>1. OneRun(c) /\ Reopening(c)' = Reopening(c)
    BY <1>2, <1>a, AddStep DEF Reopening
  <2>2. CASE c = d
    <3>1. row[c] = Absent
      BY <1>2, <2>2, AddStep
    <3>2. jobs[c] = 0 /\ Reopening(c) = {}
      BY <3>1 DEF TypeInv, Reopening
    <3>3. /\ row'[c] \in Row
          /\ \/ row'[c].state = "pending" /\ jobs'[c] = jobs[c] + 1
             \/ row'[c].state # "pending" /\ jobs'[c] = jobs[c]
      BY <1>2, <2>2, AddStep
    <3>4. QED
      BY <2>1, <3>2, <3>3 DEF OneRun, Runnable
  <2>3. CASE c # d
    BY <1>2, <2>1, <2>3, AddStep, OneRunKept
  <2>4. QED
    BY <2>2, <2>3
<1>3. ASSUME NEW d \in Checks, Delete(d) PROVE OneRun(c)'
  <2>1. OneRun(c) /\ Reopening(c)' = Reopening(c) /\ jobs' = jobs
    BY <1>3, <1>a DEF Delete, Reopening
  <2>2. CASE c = d
    <3>1. ~Present(c)'
      BY <1>3, <2>2, TableAssumption
      DEF Delete, Remove, Present, TypeInv, TypeOK
    <3>2. QED
      BY <2>1, <3>1 DEF OneRun
  <2>3. CASE c # d
    BY <1>3, <2>1, <2>3, OneRunKept DEF Delete, Remove, TypeInv, TypeOK
  <2>4. QED
    BY <2>2, <2>3
<1>4. ASSUME NEW d \in Checks, AnswerNobody(d) PROVE OneRun(c)'
  <2>1. OneRun(c) /\ Reopening(c)' = Reopening(c) /\ row' = row
    BY <1>4, <1>a DEF AnswerNobody, Reopening
  <2>2. CASE c = d
    <3>1. jobs'[c] = jobs[c] - 1 /\ jobs[c] > 0 /\ jobs[c] \in Nat
      BY <1>4, <2>2, RequestsAssumption DEF AnswerNobody, TypeInv, TypeOK
    <3>2. QED
      BY <2>1, <3>1 DEF OneRun, Present
  <2>3. CASE c # d
    BY <1>4, <2>1, <2>3, OneRunKept DEF AnswerNobody, TypeInv, TypeOK
  <2>4. QED
    BY <2>2, <2>3
<1>5. ASSUME NEW d \in Checks, NEW w \in Workers, RequestRun(w, d)
      PROVE  OneRun(c)'
  <2>1. Reopening(c)' = Reopening(c)
    BY <1>5, RequestRunStep, ReopeningKept
  <2>2. UNCHANGED <<row, jobs, harm>>
    BY <1>5, RequestRunStep
  <2>3. QED
    BY <1>a, <2>1, <2>2, OneRunKept
<1>6. ASSUME NEW d \in Checks, NEW w \in Workers, Cancel(w, d)
      PROVE  OneRun(c)'
  <2>1. /\ Put(w, d, "cancelled") /\ "cancelled" \in States
        /\ "cancelled" \notin Runnable
    BY <1>6 DEF Cancel, States, Runnable
  <2>2. Reopening(c)' = Reopening(c)
    <3>1. Reopening(c)' = Reopening(c) \cup
            (IF c = d /\ "cancelled" \in Runnable THEN {w} ELSE {})
      BY <2>1, ReopeningPut
    <3>2. QED
      BY <2>1, <3>1
  <2>3. UNCHANGED <<row, jobs, harm>>
    BY <1>6 DEF Cancel, Put
  <2>4. QED
    BY <1>a, <2>2, <2>3, OneRunKept
<1>7. ASSUME NEW d \in Checks, NEW w \in Workers, NEW state \in Answers,
             Answer(w, d, state)
      PROVE  OneRun(c)'
  <2>1. /\ Put(w, d, state) /\ state \in States
        /\ row' = row /\ harm' = harm
        /\ OneRun(c)
    BY <1>7, <1>a, RequestsAssumption DEF Answer, Put
  <2>2. Reopening(c)' = Reopening(c) \cup
          (IF c = d /\ state \in Runnable THEN {w} ELSE {})
    BY <2>1, ReopeningPut
  <2>3. CASE c = d
    <3>1. jobs'[c] = jobs[c] - 1 /\ jobs[c] > 0 /\ jobs[c] \in Nat
      BY <1>7, <2>3, RequestsAssumption DEF Answer, TypeInv, TypeOK
    <3>2. /\ Reopening(c) = {} /\ jobs'[c] = 0
          /\ ~(Present(c) /\ row[c].state \in Runnable)
      BY <2>1, <3>1 DEF OneRun
    <3>3. \A v \in Reopening(c)' : v = w
      BY <2>2, <3>2
    <3>4. QED
      BY <2>1, <3>2, <3>3 DEF OneRun, Present
  <2>4. CASE c # d
    <3>1. jobs'[c] = jobs[c]
      BY <1>7, <2>4 DEF Answer, TypeInv, TypeOK
    <3>2. QED
      BY <2>1, <2>2, <2>4, <3>1, OneRunKept
  <2>5. QED
    BY <2>3, <2>4
<1>8. ASSUME NEW w \in Workers, Run(w) PROVE OneRun(c)'
  <2>1. OneRun(c)
    BY <1>8, <1>a DEF Run
  <2>2. Reopening(c)' = Reopening(c)
    BY <1>8, RunStep, ReopeningKept
  <2>3. CASE c = requests[w].check
    <3>1. row[c] = requests[w].held /\ row[c].state # "pending"
      BY <1>8, <2>3 DEF Run, Without
    <3>2. requests[w].held \in Row /\ requests[w].held.state \in Runnable
      BY <1>8, <3>1, ServedType DEF Run, HeldFits
    <3>3. jobs[c] = 0 /\ Reopening(c) = {}
      BY <2>1, <3>1, <3>2 DEF OneRun, Present
    <3>4. jobs'[c] = 1 /\ row'[c].state = "pending"
      BY <1>8, <2>3, <3>3, RunStep
    <3>5. QED
      BY <2>2, <3>3, <3>4 DEF OneRun, Runnable
  <2>4. CASE c # requests[w].check
    BY <1>8, <2>1, <2>2, <2>4, RunStep, OneRunKept
  <2>5. QED
    BY <2>3, <2>4
<1>9. ASSUME NEW w \in Workers, SaveRun(w) PROVE OneRun(c)'
  <2>1. /\ OneRun(c) /\ jobs' = jobs
        /\ requests[w] # Idle /\ requests[w].op = "run"
        /\ requests[w].held.state = "pending"
    BY <1>9, <1>a DEF SaveRun, HeldFits
  <2>2. /\ row'[requests[w].check].state = "pending"
        /\ \A d \in Checks \ {requests[w].check} : row'[d] = row[d]
        /\ requests'[w] = Idle
        /\ \A v \in Workers \ {w} : requests'[v] = requests[v]
    BY <1>9, <2>1, SavedStep DEF SaveRun
  <2>3. Reopening(c)' = Reopening(c)
    BY <2>1, <2>2, ReopeningKept
  <2>4. CASE c = requests[w].check
    BY <2>1, <2>2, <2>3, <2>4 DEF OneRun, Runnable
  <2>5. CASE c # requests[w].check
    BY <2>1, <2>2, <2>3, <2>5, OneRunKept
  <2>6. QED
    BY <2>4, <2>5
<1>10. ASSUME NEW w \in Workers, SavePut(w) PROVE OneRun(c)'
  <2>1. /\ OneRun(c) /\ jobs' = jobs
        /\ requests[w] # Idle /\ requests[w].op = "put"
    BY <1>10, <1>a DEF SavePut
  <2>2. /\ row'[requests[w].check].state = requests[w].held.state
        /\ \A d \in Checks \ {requests[w].check} : row'[d] = row[d]
        /\ requests'[w] = Idle
        /\ \A v \in Workers \ {w} : requests'[v] = requests[v]
    BY <1>10, <2>1, SavedStep DEF SavePut
  <2>3. Reopening(c)' = Reopening(c) \ {w}
    BY <2>2, ReopeningSaved
  <2>4. CASE c = requests[w].check
    <3>1. CASE requests[w].held.state \in Runnable
      <4>1. w \in Reopening(c)
        BY <2>1, <2>4, <3>1 DEF Reopening
      <4>2. jobs[c] = 0 /\ Reopening(c)' = {}
        BY <2>1, <2>3, <4>1 DEF OneRun, TypeInv, TypeOK
      <4>3. QED
        BY <2>1, <4>2 DEF OneRun
    <3>2. CASE requests[w].held.state \notin Runnable
      BY <2>1, <2>2, <2>3, <2>4, <3>2 DEF OneRun
    <3>3. QED
      BY <3>1, <3>2
  <2>5. CASE c # requests[w].check
    <3>1. w \notin Reopening(c)
      BY <2>5 DEF Reopening
    <3>2. QED
      BY <2>1, <2>2, <2>3, <2>5, <3>1, OneRunKept
  <2>6. QED
    BY <2>4, <2>5
<1>11. QED
  BY <1>1, <1>2, <1>3, <1>4, <1>5, <1>6, <1>7, <1>8, <1>9, <1>10
  DEF Next, Adding, Serve, Tick, vars, tableVars

(* However many workers serve requests, a tool is not started while it     *)
(* runs, unless two requests found the check runnable together or it was   *)
(* retried after its timeout (status_update.py:455-506, can_run).          *)
THEOREM ToolsRunOnce == Spec => []RunsOnce
<1>1. Init => RunsApart
  BY TableAssumption
  DEF Init, TableInit, RunsApart, OneRun, Reopening, Present
<1>2. RunsApart => RunsOnce
  BY DEF RunsApart, RunsOnce, OneRun
<1>3. QED
  BY <1>1, <1>2, RunsApartStep, Typing, Holding, PTL DEF Spec

(***************************************************************************)
(* The table of the page.                                                  *)
(***************************************************************************)

(* A save leaves a row that is its own: what Save(c, row'[c]) says.        *)
LEMMA SaveOfResult ==
  ASSUME TypeOK, NEW c \in Checks, NEW r \in Row, Save(c, r)
  PROVE  Present(c)' /\ Save(c, row'[c])
<1>1. row'[c] = [r EXCEPT !.stamp = now + 1] /\ row'[c] \in Row
  BY SaveType DEF Save
<1>2. [row'[c] EXCEPT !.stamp = now + 1] = row'[c]
  BY <1>1 DEF Row
<1>3. QED
  BY <1>1, <1>2 DEF Save, Present

(* What a step of the server may do to the table.                          *)
TableChange ==
  \/ \E c \in Checks : Remove(c)
  \/ \E c \in Checks : Present(c)' /\ Save(c, row'[c])
  \/ Tick

(* Every step of the workers is a save with a time of its own, a deletion, *)
(* the clock, or invisible to whoever reads the table.                     *)
LEMMA StepChangesTable ==
  ASSUME TypeInv, [Next]_vars
  PROVE  [TableChange]_tableVars
<1>1. ASSUME NEW c \in Checks, Adding(c) PROVE TableChange
  <2>1. PICK timed \in BOOLEAN, retry \in BOOLEAN, state \in States :
          Save(c, [state |-> state, stamp |-> now, timed |-> timed,
                   retry |-> retry])
    BY <1>1 DEF Adding, CreateForIntegration, Create, Add, States
  <2>2. [state |-> state, stamp |-> now, timed |-> timed,
         retry |-> retry] \in Row
    BY DEF Row, States, TypeInv, TypeOK
  <2>3. QED
    BY <2>1, <2>2, SaveOfResult DEF TypeInv, TableChange
<1>2. ASSUME NEW w \in Workers, Run(w) PROVE TableChange
  <2> DEFINE rq == requests[w]
             pending == [rq.held EXCEPT !.state = "pending",
                                        !.stamp = now + 1]
  <2>1. rq.check \in Checks /\ rq.held \in Row
    BY <1>2, ServedType DEF Run
  <2>2. Save(rq.check, pending)
    BY <1>2 DEF Run
  <2>3. now + 1 \in 0..MaxTime
    <3>1. now < MaxTime
      BY <2>2 DEF Save
    <3>2. QED
      BY <3>1, TableAssumption DEF TypeInv, TypeOK
  <2>4. pending \in Row
    BY <2>1, <2>3 DEF Row, States
  <2>5. PICK d \in Checks : d = rq.check
    BY <2>1
  <2>6. Save(d, pending) /\ TypeOK
    BY <2>2, <2>5 DEF TypeInv
  <2> HIDE DEF rq, pending
  <2>7. QED
    BY <2>4, <2>6, SaveOfResult DEF TableChange
<1>3. ASSUME NEW w \in Workers, SaveRun(w) \/ SavePut(w) PROVE TableChange
  <2>1. /\ requests[w].check \in Checks /\ requests[w].held \in Row
        /\ Save(requests[w].check, requests[w].held) /\ TypeOK
    BY <1>3, ServedType DEF SaveRun, SavePut, TypeInv
  <2>2. PICK d \in Checks, r \in Row :
          d = requests[w].check /\ r = requests[w].held
    BY <2>1
  <2>3. Save(d, r) /\ TypeOK
    BY <2>1, <2>2
  <2>4. QED
    BY <2>3, SaveOfResult DEF TableChange
<1>4. CASE UNCHANGED vars
  BY <1>4 DEF vars
<1>5. QED
  BY <1>1, <1>2, <1>3, <1>4
  DEF Next, Adding, Serve, Delete, AnswerNobody, RequestRun, Cancel,
      Answer, Put, tableVars, TableChange

(* The server that ReviewRequestPage is checked against may do all that    *)
(* this one does to the table.                                             *)
THEOREM TableImplemented == Spec => ImplementsTable
<1>1. TypeInv /\ [Next]_vars => [TableChange]_tableVars
  BY StepChangesTable
<1>2. QED
  BY <1>1, Typing, PTL DEF Spec, ImplementsTable, TableChange

(***************************************************************************)
(* The watch of the page.                                                  *)
(***************************************************************************)

(* A page with a timer, or with a period to set one by, watches its entry. *)
Watching(wt) ==
  /\ wt = [on |-> wt.on, period |-> wt.period, timer |-> wt.timer, since |-> wt.since]
  /\ wt.on \in BOOLEAN /\ wt.timer \in BOOLEAN
  /\ wt.timer => wt.on
  /\ wt.period # Null => wt.on

Polling(i) == polls[i] # Null

(* As long as no two polls met, the one under way is of a watch that is on *)
(* until the parts of its answer are loaded: nothing but the entry that it *)
(* brings gives the watch up.                                              *)
PageInv ==
  NeverMissed({"overlap"}) =>
    /\ polls = [i \in Polls |-> polls[i]]
    /\ Watching(watch)
    /\ \A i \in Polls : Polling(i) /\ polls[i].at # "answered" => watch.on
    /\ \A i, j \in Polls : Polling(i) /\ Polling(j) => i = j

LEMMA ScheduleWatches ==
  ASSUME NEW wt, Watching(wt)
  PROVE  Watching(Schedule(wt)) /\ Schedule(wt).on = wt.on
BY DEF Schedule, Watching

LEMMA WatchWatches ==
  ASSUME NEW wt, Watching(wt), NEW period
  PROVE  /\ Watching(WatchEntryUpdates(wt, period))
         /\ WatchEntryUpdates(wt, period).on
<1> DEFINE on == [wt EXCEPT !.on = TRUE, !.since = Null,
                           !.period = IF @ = "now" THEN @ ELSE period]
<1>1. Watching(on) /\ on.on
  <2>1. wt = [on |-> wt.on, period |-> wt.period, timer |-> wt.timer, since |-> wt.since]
        /\ wt.timer \in BOOLEAN
    BY DEF Watching
  <2>2. PICK q, p, o, t, s :
          /\ q = wt.period /\ o = wt.on /\ t = wt.timer /\ s = wt.since
          /\ p = IF q = "now" THEN q ELSE period
    OBVIOUS
  <2>3. on = [on |-> TRUE, period |-> p, timer |-> wt.timer, since |-> Null]
    <3>1. on = [wt EXCEPT !.on = TRUE, !.since = Null, !.period = p]
      BY <2>2
    <3>2. wt = [on |-> o, period |-> q, timer |-> t, since |-> s]
      BY <2>1, <2>2
    <3> HIDE DEF on
    <3> QED
      BY <2>2, <3>1, <3>2
  <2> HIDE DEF on
  <2>4. on.on = TRUE /\ on.period = p /\ on.timer = wt.timer /\ on.since = Null
    BY <2>3
  <2> QED
    BY <2>1, <2>3, <2>4 DEF Watching
<1>2. WatchEntryUpdates(wt, period) = Schedule(on)
  BY DEF WatchEntryUpdates
<1> HIDE DEF on
<1> QED
  BY <1>1, <1>2, ScheduleWatches

LEMMA StopWatches ==
  ASSUME NEW wt, Watching(wt)
  PROVE  Watching(StopWatchingEntryUpdates(wt))
BY DEF StopWatchingEntryUpdates, Watching

LEMMA RenderWatches ==
  ASSUME NEW wt, Watching(wt), NEW e
  PROVE  Watching(Render(wt, e)) /\ (wt.on => Render(wt, e).on)
BY WatchWatches DEF Render

LEMMA BackoffWatches ==
  ASSUME NEW wt, Watching(wt), wt.on
  PROVE  Watching(Backoff(wt))
<1> DEFINE later == [wt EXCEPT !.period = IF @ = "later" THEN "later" ELSE "now"]
<1>1. Watching(later)
  <2>1. wt = [on |-> wt.on, period |-> wt.period, timer |-> wt.timer, since |-> wt.since]
        /\ wt.on \in BOOLEAN /\ wt.timer \in BOOLEAN
    BY DEF Watching
  <2>2. PICK q, p, o, t, s :
          /\ q = wt.period /\ o = wt.on /\ t = wt.timer /\ s = wt.since
          /\ p = IF q = "later" THEN "later" ELSE "now"
    OBVIOUS
  <2>3. later = [on |-> wt.on, period |-> p, timer |-> wt.timer, since |-> wt.since]
    <3>1. later = [wt EXCEPT !.period = p]
      BY <2>2
    <3>2. wt = [on |-> o, period |-> q, timer |-> t, since |-> s]
      BY <2>1, <2>2
    <3> HIDE DEF later
    <3> QED
      BY <2>2, <3>1, <3>2
  <2> HIDE DEF later
  <2>4. later.on = wt.on /\ later.period = p /\ later.timer = wt.timer /\ later.since = wt.since
    BY <2>3
  <2> QED
    BY <2>1, <2>3, <2>4 DEF Watching
<1>2. Backoff(wt) = Schedule(later)
  BY DEF Backoff
<1> HIDE DEF later
<1> QED
  BY <1>1, <1>2, ScheduleWatches

LEMMA RememberWatches ==
  ASSUME NEW wt, Watching(wt), NEW stamp
  PROVE  Watching(Remember(wt, stamp))
BY DEF Remember, Watching

LEMMA AppliedWatches ==
  ASSUME NEW wt, Watching(wt), NEW e, NEW stamp
  PROVE  Watching(Remember(Applied(wt, e), stamp))
<1>1. Watching(Applied(wt, e))
  BY StopWatches, RenderWatches DEF Applied
<1> QED
  BY <1>1, RememberWatches

(* What PageInv says of the watch and the polls. *)
Polled(ps, wt) ==
  /\ ps = [i \in Polls |-> ps[i]]
  /\ Watching(wt)
  /\ \A i \in Polls : ps[i] # Null /\ ps[i].at # "answered" => wt.on
  /\ \A i, j \in Polls : ps[i] # Null /\ ps[j] # Null => i = j

(* A part of an answer that is loaded leaves the rest of it, or nothing.   *)
LEMMA LoadedPolled ==
  ASSUME Polled(polls, watch), NEW i \in Polls, polls[i] # Null,
         NEW wt, Watching(wt), NEW entry, NEW table, Loaded(i, wt, entry, table)
  PROVE  Polled(polls', watch')
<1>1. CASE entry = Null /\ table = Null
  <2>1. polls' = [polls EXCEPT ![i] = Null] /\ watch' = Schedule(wt)
    BY <1>1 DEF Loaded
  <2>2. /\ polls' = [k \in Polls |-> polls'[k]]
        /\ polls'[i] = Null /\ \A k \in Polls : k # i => polls'[k] = polls[k]
    BY <2>1 DEF Polled
  <2>3. Watching(watch')
    BY <2>1, ScheduleWatches
  <2> QED
    BY <2>2, <2>3 DEF Polled
<1>2. CASE ~(entry = Null /\ table = Null)
  <2>1. polls' = [polls EXCEPT ![i] = Payload(entry, table)] /\ watch' = wt
    BY <1>2 DEF Loaded
  <2>2. Payload(entry, table).at = "answered"
    BY <1>2 DEF Payload
  <2>3. /\ polls' = [k \in Polls |-> polls'[k]]
        /\ polls'[i] = Payload(entry, table)
        /\ \A k \in Polls : k # i => polls'[k] = polls[k]
    BY <2>1 DEF Polled
  <2>4. \A k \in Polls : k # i => polls'[k] = Null
    BY <2>3 DEF Polled
  <2> QED
    BY <2>1, <2>2, <2>3, <2>4 DEF Polled
<1> QED
  BY <1>1, <1>2

LEMMA PageStep ==
  ASSUME PageInv, PageNext
  PROVE  PageInv'
<1>1. SUFFICES ASSUME NeverMissed({"overlap"})'
               PROVE  Polled(polls', watch')
  BY DEF PageInv, NeverMissed, Polls, Watching, Polling, Polled
<1>2. missed \subseteq missed'
  BY DEF PageNext, PageActs, Server, Comment, pageVars, Load, ClickRun,
         RunAnswered, TimerFires, ServePoll, Process, ReadUpdates, AnswerPoll,
         Deliver, LoadEntry, LoadTable, PollFails
<1>3. Polled(polls, watch)
  <2>1. NeverMissed({"overlap"})
    BY <1>1, <1>2 DEF NeverMissed
  <2> QED
    BY <2>1 DEF PageInv, Polling, Polled
<1>4. CASE UNCHANGED <<watch, polls>>
  BY <1>3, <1>4
<1>5. CASE Load
  <2>1. watch' = Render(watch, EntryOf(row)) /\ polls' = polls
    BY <1>5 DEF Load
  <2>2. Watching(watch') /\ (watch.on => watch'.on)
    BY <1>3, <2>1, RenderWatches DEF Polled
  <2> QED
    BY <1>3, <2>1, <2>2 DEF Polled
<1>6. CASE RunAnswered
  <2>1. /\ watch' = WatchEntryUpdates(StopWatchingEntryUpdates(watch), "now")
        /\ polls' = polls
    BY <1>6 DEF RunAnswered
  <2>2. Watching(watch') /\ watch'.on
    BY <1>3, <2>1, StopWatches, WatchWatches DEF Polled
  <2> QED
    BY <1>3, <2>1, <2>2 DEF Polled
<1>7. ASSUME NEW i \in Polls, TimerFires(i)
      PROVE  Polled(polls', watch')
  <2>1. /\ watch.timer
        /\ watch' = [watch EXCEPT !.timer = FALSE]
        /\ polls' = [polls EXCEPT ![i] = [at |-> "sent", since |-> watch.since,
                                          rows |-> Null, entry |-> Null,
                                          table |-> Null]]
    BY <1>7 DEF TimerFires
  <2>2. \A k \in Polls : polls[k] = Null
    <3>1. missed' = IF \E k \in Polls : polls[k] # Null
                    THEN missed \cup {"overlap"} ELSE missed
      BY <1>7 DEF TimerFires
    <3> QED
      BY <1>1, <3>1 DEF NeverMissed
  <2>3. Watching(watch') /\ watch'.on
    BY <1>3, <2>1 DEF Watching, Polled
  <2>4. polls' = [k \in Polls |-> polls'[k]]
        /\ \A k \in Polls : k # i => polls'[k] = polls[k]
    BY <1>3, <2>1 DEF Polled
  <2> QED
    BY <2>2, <2>3, <2>4 DEF Polled
<1>8. ASSUME NEW i \in Polls, ServePoll(i)
      PROVE  Polled(polls', watch')
  <2>1. watch' = watch /\ polls[i] # Null /\ polls[i].at # "answered"
    BY <1>8 DEF ServePoll, ReadUpdates, AnswerPoll, PollIs
  <2>2. polls' = [k \in Polls |-> polls'[k]]
        /\ \A k \in Polls : k # i => polls'[k] = polls[k]
    BY <1>3, <1>8 DEF ServePoll, ReadUpdates, AnswerPoll, Polled
  <2>3. watch'.on /\ \A k \in Polls : polls'[k] # Null => polls[k] # Null
    BY <1>3, <2>1, <2>2 DEF Polled
  <2> QED
    BY <1>3, <2>1, <2>2, <2>3 DEF Polled
<1>9. ASSUME NEW i \in Polls, Deliver(i) \/ PollFails(i)
      PROVE  Polled(polls', watch')
  <2>1. polls[i] # Null /\ polls' = [polls EXCEPT ![i] = Null]
    BY <1>9 DEF Deliver, PollFails, PollIs
  <2>2. polls' = [k \in Polls |-> polls'[k]]
        /\ polls'[i] = Null /\ \A k \in Polls : k # i => polls'[k] = polls[k]
    BY <1>3, <2>1 DEF Polled
  <2>3. \A k \in Polls : polls'[k] = Null
    BY <1>3, <2>1, <2>2 DEF Polled
  <2>4. watch' = watch \/ (watch.on /\ watch' = Backoff(watch))
    BY <1>3, <1>9 DEF Deliver, PollFails, PollIs, Polled
  <2>5. Watching(watch')
    BY <1>3, <2>4, BackoffWatches DEF Polled
  <2> QED
    BY <2>2, <2>3, <2>5 DEF Polled
<1>10. ASSUME NEW i \in Polls, LoadEntry(i)
       PROVE  Polled(polls', watch')
  <2>1. PICK e, wt, t :
          /\ polls[i] # Null /\ e = polls[i].entry /\ t = polls[i].table
          /\ wt = Remember(Applied(watch, e), e.stamp)
          /\ Loaded(i, wt, Null, t)
    BY <1>10 DEF LoadEntry, PollIs
  <2>2. Watching(wt)
    BY <1>3, <2>1, AppliedWatches DEF Polled
  <2> QED
    BY <1>3, <2>1, <2>2, LoadedPolled
<1>11. ASSUME NEW i \in Polls, LoadTable(i)
       PROVE  Polled(polls', watch')
  <2>1. PICK e, wt, t :
          /\ polls[i] # Null /\ e = polls[i].entry /\ t = polls[i].table
          /\ wt = Remember(watch, t)
          /\ Loaded(i, wt, e, Null)
    BY <1>11 DEF LoadTable, PollIs
  <2>2. Watching(wt)
    BY <1>3, <2>1, RememberWatches DEF Polled
  <2> QED
    BY <1>3, <2>1, <2>2, LoadedPolled
<1> QED
  BY <1>4, <1>5, <1>6, <1>7, <1>8, <1>9, <1>10, <1>11
  DEF PageNext, PageActs, Server, Comment, ClickRun, Process, pageVars

(* A page polls only as long as it watches an entry, unless two polls were *)
(* ever under way together: whatever the server saves, however many polls  *)
(* there may be, and whatever fails.                                       *)
THEOREM PollsAreWatched == PageSpec => []OnlyWhileWatched
<1>1. PageInit => PageInv
  BY DEF PageInit, NoWatch, PageInv, Watching, Polling
<1>2. PageInv /\ [PageNext]_watchedVars => PageInv'
  <2> SUFFICES ASSUME PageInv, [PageNext]_watchedVars PROVE PageInv'
    OBVIOUS
  <2>1. CASE PageNext
    BY <2>1, PageStep
  <2>2. CASE UNCHANGED watchedVars
    BY <2>2 DEF watchedVars, pageVars, PageInv, Polling, NeverMissed, Watching, Polls
  <2> QED
    BY <2>1, <2>2
<1>3. PageInv => OnlyWhileWatched
  BY DEF PageInv, OnlyWhileWatched, Watching
<1> QED
  BY <1>1, <1>2, <1>3, PTL DEF PageSpec, BothInit

(* The page over this server, and over those who comment: each takes its   *)
(* steps, and they meet only in the table and its clock.                   *)
PageOverServer ==
  /\ Init /\ PageInit
  /\ [][\/ (Next /\ UNCHANGED <<latestIssue, pageVars>>)
         \/ (Comment /\ UNCHANGED <<jobs, runs, requests, harm>>)
         \/ (PageActs /\ UNCHANGED vars)]_<<vars, latestIssue, pageVars>>

(* What the server does is no more than what Server allows, if that may    *)
(* save every row: so all that is checked and proved of the page holds of  *)
(* the page over the requests, the tools and the integrations.             *)
THEOREM PageMeetsServer ==
  ASSUME Row \subseteq Written
  PROVE  PageOverServer => PageSpec
<1> DEFINE Steps == \/ (Next /\ UNCHANGED <<latestIssue, pageVars>>)
                    \/ (Comment /\ UNCHANGED <<jobs, runs, requests, harm>>)
                    \/ (PageActs /\ UNCHANGED vars)
<1>1. TypeInv /\ [Next]_vars /\ UNCHANGED <<latestIssue, pageVars>>
        => [PageNext]_watchedVars
  <2> SUFFICES ASSUME TypeInv, [Next]_vars, UNCHANGED <<latestIssue, pageVars>>
               PROVE  [PageNext]_watchedVars
    OBVIOUS
  <2>1. CASE UNCHANGED tableVars
    BY <2>1 DEF watchedVars
  <2>2. CASE TableChange
    BY <2>2 DEF TableChange, Present, PageNext, Server
  <2> QED
    BY <2>1, <2>2, StepChangesTable
<1>2. Comment \/ PageActs => [PageNext]_watchedVars
  BY DEF PageNext
<1>3. Comment /\ UNCHANGED <<jobs, runs, requests, harm>> => [Next]_vars
  BY DEF Comment, Next, tableVars, vars, Tick
<1>4. [Steps]_<<vars, latestIssue, pageVars>> => [Next]_vars
  BY <1>3 DEF vars
<1>5. TypeInv /\ [Steps]_<<vars, latestIssue, pageVars>> => [PageNext]_watchedVars
  BY <1>1, <1>2 DEF vars
<1>6. Init => TableInit
  BY DEF Init
<1> QED
  BY <1>4, <1>5, <1>6, Typing, PTL DEF PageOverServer, PageSpec, BothInit, Spec
=============================================================================
