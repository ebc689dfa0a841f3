------------------------- MODULE StatusUpdateTable -------------------------
(***************************************************************************)
(* The rows in which automated checks report how they are doing, and what  *)
(* every write does to them (reviews/models/status_update.py).             *)
(* StatusUpdates shows how the server comes to write them,                 *)
(* ReviewRequestPage how a page comes to see them.                         *)
(***************************************************************************)
EXTENDS Naturals, FiniteSets

CONSTANTS
  Checks,     \* the status updates of the review request
  Absent,     \* a status update that has not been created yet
  Deleted,    \* a status update that was deleted
  Timeout,    \* the timeout of a check, in ticks of half a second
  MaxTime     \* bound on the clock

VARIABLES
  now,        \* the clock, in half seconds; every save has a time of its own
  row         \* the table of status updates

tableVars == <<now, row>>

States == {"not-yet-run", "pending", "done-success", "done-failure",
           "error", "timed-out", "cancelled"}
Row == [state : States, stamp : 0..MaxTime, timed : BOOLEAN, retry : BOOLEAN]

ASSUME TableAssumption ==
  /\ Timeout \in Nat /\ MaxTime \in Nat
  /\ Absent \notin Row /\ Deleted \notin Row /\ Absent # Deleted

Present(c) == row[c] \in Row

(* The state that is shown: a check that has been pending for too long has *)
(* timed out, although no row says so.                                     *)
EffectiveState(r) ==
  IF r.state = "pending" /\ r.timed /\ now > r.stamp + Timeout
    THEN "timed-out" ELSE r.state

(* A mistake: a check that was cancelled may be run, running or not. *)
CanRunCancelled(r) ==
  \/ EffectiveState(r) \in {"not-yet-run", "cancelled"}
  \/ EffectiveState(r) \in {"error", "timed-out"} /\ r.retry

CanRun(r) ==
  \/ EffectiveState(r) = "not-yet-run"
  \/ EffectiveState(r) \in {"error", "timed-out"} /\ r.retry

TableInit ==
  /\ now = 0
  /\ row = [c \in Checks |-> Absent]

(* Saving sets the timestamp (auto_now). *)
Save(c, r) ==
  /\ now < MaxTime
  /\ now' = now + 1
  /\ row' = [row EXCEPT ![c] = [r EXCEPT !.stamp = now + 1]]

Remove(c) ==
  /\ Present(c)
  /\ row' = [row EXCEPT ![c] = Deleted]
  /\ UNCHANGED now

Tick ==
  /\ now < MaxTime
  /\ now' = now + 1
  /\ UNCHANGED row
=============================================================================
