------------------------------ MODULE ReviewDB ------------------------------
(***************************************************************************)
(* The SQLite data layer of the v2 review service (review_v2/storage.py),  *)
(* as pure operators.  Every method of ReviewDB that writes a cr_tasks row *)
(* or a task_controls row does so in one BEGIN IMMEDIATE transaction, so   *)
(* it is one operator from the old row to the new one.  The modules that   *)
(* model the processes using the database (TaskLifecycle, CallbackDelivery, *)
(* FindingFeedback) build their actions from these operators.              *)
(*                                                                         *)
(* Timestamps are abstracted to what the code compares them with: a lease  *)
(* is live or expired, a callback retry time has come or has not.          *)
(***************************************************************************)
EXTENDS Naturals

CONSTANTS Daemons,    \* the daemon identities that may claim a task
          NoDaemon    \* the NULL of claimed_by

ASSUME NoDaemonAssumption == NoDaemon \notin Daemons

-----------------------------------------------------------------------------
(* Columns.  "absent" is a task whose row has not been inserted.           *)

Terminal == {"success", "failed", "cancelled"}
Active   == {"queued", "running"}
Statuses == Active \cup Terminal \cup {"absent"}

ReviewGates == {"passed", "failed", "skipped"}
FailedGates == {"incomplete", "context_too_large"}
Gates       == ReviewGates \cup FailedGates \cup {"cancelled", "stopped", "null"}

CallbackStates == {"null", "retrying", "skipped", "succeeded", "failed"}

Row == [status: Statuses, gate: Gates,
        owner: Daemons \cup {NoDaemon}, lease: {"null", "live", "expired"},
        attempts: Nat, callback: CallbackStates, callbackAttempts: Nat,
        callbackDue: BOOLEAN, digest: Gates]

NoRow == [status |-> "absent", gate |-> "null", owner |-> NoDaemon,
          lease |-> "null", attempts |-> 0, callback |-> "null",
          callbackAttempts |-> 0, callbackDue |-> FALSE, digest |-> "null"]

-----------------------------------------------------------------------------
(* Transactions on a cr_tasks row.                                         *)

create_task == [NoRow EXCEPT !.status = "queued"]

claim_task_without_lease(r, d) ==
  [r EXCEPT !.status = "running", !.owner = d, !.attempts = @ + 1]

claim_task(r, d) ==
  [r EXCEPT !.status = "running", !.owner = d, !.lease = "live",
            !.attempts = @ + 1]

update_task_outcome_once(r, notify, status, gate) ==
  [r EXCEPT !.status = status, !.gate = gate,
            !.callback = IF ~notify THEN "skipped"
                         ELSE IF @ = "succeeded" THEN @ ELSE "retrying",
            !.callbackAttempts = 0, !.callbackDue = notify]

\* Neither the status nor the claim of the row is looked at, and the claim
\* columns stay as they are.
update_task_outcome(r, notify, status, gate) ==
  [r EXCEPT !.status = status, !.gate = gate,
            !.callback = IF notify THEN "retrying" ELSE "skipped",
            !.callbackAttempts = 0, !.callbackDue = notify]

cancel_row(r) ==
  [r EXCEPT !.status = "cancelled", !.gate = "cancelled",
            !.owner = NoDaemon, !.lease = "null"]

stop_row(r) ==
  [r EXCEPT !.status = "cancelled", !.gate = "stopped",
            !.owner = NoDaemon, !.lease = "null"]

\* The attempts and the callback columns survive a requeue.
requeue_row(r) ==
  [r EXCEPT !.status = "queued", !.gate = "null",
            !.owner = NoDaemon, !.lease = "null"]

is_stale(r) == r.status = "running" /\ r.lease = "expired"

recover_row_once_more(r, maxAttempts) ==
  IF r.attempts > maxAttempts
  THEN [r EXCEPT !.status = "failed", !.gate = "incomplete",
                 !.owner = NoDaemon, !.lease = "null"]
  ELSE [r EXCEPT !.status = "queued", !.owner = NoDaemon, !.lease = "null"]

recover_row_gate_as_status(r, maxAttempts) ==
  IF r.attempts >= maxAttempts
  THEN [r EXCEPT !.status = "incomplete", !.owner = NoDaemon, !.lease = "null"]
  ELSE [r EXCEPT !.status = "queued", !.owner = NoDaemon, !.lease = "null"]

recover_row(r, maxAttempts) ==
  IF r.attempts >= maxAttempts
  THEN [r EXCEPT !.status = "failed", !.gate = "incomplete",
                 !.owner = NoDaemon, !.lease = "null"]
  ELSE [r EXCEPT !.status = "queued", !.owner = NoDaemon, !.lease = "null"]

set_callback_state(r, state, attempts, digest) ==
  [r EXCEPT !.callback = state, !.callbackAttempts = attempts,
            !.callbackDue = FALSE,
            !.digest = IF digest = "null" THEN @ ELSE digest]

callback_is_due(r) == r.callback = "retrying" /\ r.callbackDue

-----------------------------------------------------------------------------
(* The unacknowledged task_controls rows of one task.  Readers look at the *)
(* newest one only, and an acknowledgement covers all rows or every stop,  *)
(* so the set of pending actions and the newest of them are all there is.  *)

ControlActions == {"stop", "cancel"}
Controls == [pending: SUBSET ControlActions,
             latest: ControlActions \cup {"none"}]
NoControl == [pending |-> {}, latest |-> "none"]

request_control(c, action) ==
  [pending |-> c.pending \cup {action}, latest |-> action]

acknowledge_stops(c) ==
  [pending |-> c.pending \ {"stop"},
   latest  |-> IF "cancel" \in c.pending THEN "cancel" ELSE "none"]
=============================================================================
