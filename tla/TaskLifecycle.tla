--------------------------- MODULE TaskLifecycle ---------------------------
(***************************************************************************)
(* The life of a v2 review task: the SQLite row, the daemons that recover, *)
(* claim and run it (review_v2/daemon.py, review_v2/workflow.py), and the  *)
(* operators and reviewers who stop, cancel, requeue or acknowledge it     *)
(* from the API and the CLI while it runs.                                 *)
(*                                                                         *)
(* A daemon is a sequential process: recover stale tasks, claim one, run   *)
(* its workflow to the end, loop.  Between two database transactions of a  *)
(* workflow anything may happen to the row, including another daemon       *)
(* claiming it after the lease ran out, since no code renews a lease.      *)
(* Between the stages of a workflow the daemon looks for a control request *)
(* in two separate reads, first the row, then the controls table.          *)
(*                                                                         *)
(* The reviewer fan-out is one stage here ("review").                      *)
(***************************************************************************)
EXTENDS ReviewDB

CONSTANTS Tasks,         \* the task identifiers
          NoTask,        \* a daemon that runs no workflow
          Notified,      \* the tasks whose request names a callback target
          MaxAttempts,   \* Settings.max_task_attempts
          MaxRequeues,   \* bound on operator requeues of one task
          MaxCrashes     \* bound on daemon crashes in one behaviour

ASSUME LifecycleAssumption ==
  /\ NoTask \notin Tasks
  /\ Notified \subseteq Tasks
  /\ MaxAttempts \in Nat \ {0}
  /\ MaxRequeues \in Nat
  /\ MaxCrashes \in Nat

VARIABLES
  row,         \* cr_tasks, by task
  created,     \* created_at, by task: a second on the clock
  controls,    \* the unacknowledged task_controls rows, by task
  hasFindings, \* the tasks with rows in the findings table
  run,         \* what each daemon is doing
  cancelling,  \* API cancels between their two transactions
  requeues,    \* how often each task was requeued
  crashes      \* how many daemons crashed so far

vars == <<row, created, controls, hasFindings, run, cancelling, requeues,
          crashes>>
tables == <<row, created, controls, hasFindings>>
environment == <<cancelling, requeues, crashes>>

-----------------------------------------------------------------------------
(* A daemon's program counter.  "status" and "control" are the two reads   *)
(* of a control check, "work" is the stage the check guards, "save" writes *)
(* the outcome, "halt" and "cancel" end a run on a control request.  A     *)
(* daemon is "hung" in a stage of a workflow, or "stuck" in the loop, when *)
(* it waits for a git command that never ends.                             *)

Stages == {"prepare", "context", "plan", "review", "finish"}
RunPcs == {"status", "control", "work", "hung", "save", "halt", "cancel"}
IdlePcs == {"recover", "stuck", "claim", "down"}

Run == [pc: IdlePcs \cup RunPcs, task: Tasks \cup {NoTask}, stage: Stages,
        gate: Gates, verb: ControlActions \cup {"none"}]

Idle(pc) == [pc |-> pc, task |-> NoTask, stage |-> "prepare",
             gate |-> "null", verb |-> "none"]

executing(d) == run[d].pc \in RunPcs
hanging(d) == run[d].pc \in {"hung", "stuck"}

Init ==
  /\ row = [t \in Tasks |-> NoRow]
  /\ created = [t \in Tasks |-> 0]
  /\ controls = [t \in Tasks |-> NoControl]
  /\ hasFindings = {}
  /\ run = [d \in Daemons |-> Idle("recover")]
  /\ cancelling = {}
  /\ requeues = [t \in Tasks |-> 0]
  /\ crashes = 0

-----------------------------------------------------------------------------
(* The trigger API.  Timestamps have a resolution of one second, so two    *)
(* tasks may be created at the same time.                                  *)

Submit(t) ==
  /\ row[t].status = "absent"
  /\ row' = [row EXCEPT ![t] = create_task]
  /\ \E newest \in Tasks, later \in {0, 1} :
       /\ \A u \in Tasks : created[u] <= created[newest]
       /\ created' = [created EXCEPT ![t] = created[newest] + later]
  /\ UNCHANGED <<controls, hasFindings, run, environment>>

-----------------------------------------------------------------------------
(* The polling loop of a daemon.                                           *)

RecoverStale(d) ==
  /\ run[d].pc = "recover"
  /\ row' = [t \in Tasks |-> IF is_stale(row[t])
                             THEN recover_row(row[t], MaxAttempts)
                             ELSE row[t]]
  /\ run' = [run EXCEPT ![d] = Idle("claim")]
  /\ UNCHANGED <<created, controls, hasFindings, environment>>

\* Every submitted task has the same priority, so the oldest goes first.
Claimable_in_any_order(t) == row[t].status = "queued"

Claimable_takes_over_stale(t) ==
  \/ row[t].status = "queued"
  \/ is_stale(row[t])

Claimable(t) ==
  /\ row[t].status = "queued"
  /\ \A u \in Tasks : row[u].status = "queued" => created[t] <= created[u]

Claim_drops_controls(d, t) ==
  /\ run[d].pc = "claim"
  /\ Claimable(t)
  /\ row' = [row EXCEPT ![t] = claim_task(@, d)]
  /\ controls' = [controls EXCEPT ![t] = NoControl]
  /\ run' = [run EXCEPT ![d] = [Idle("status") EXCEPT !.task = t]]
  /\ UNCHANGED <<created, hasFindings, environment>>

Claim(d, t) ==
  /\ run[d].pc = "claim"
  /\ Claimable(t)
  /\ row' = [row EXCEPT ![t] = claim_task(@, d)]
  /\ run' = [run EXCEPT ![d] = [Idle("status") EXCEPT !.task = t]]
  /\ UNCHANGED <<created, controls, hasFindings, environment>>

NothingToClaim(d) ==
  /\ run[d].pc = "claim"
  /\ \A t \in Tasks : row[t].status # "queued"
  /\ run' = [run EXCEPT ![d] = Idle("recover")]
  /\ UNCHANGED <<tables, environment>>

\* Before it recovers, the loop may refresh the feedback patterns with git.
SyncHangs(d) ==
  /\ run[d].pc = "recover"
  /\ run' = [run EXCEPT ![d] = Idle("stuck")]
  /\ UNCHANGED <<tables, environment>>

-----------------------------------------------------------------------------
(* WorkflowRunner._raise_if_task_control_requested.                        *)

ReadStatus(d) ==
  LET r == row[run[d].task]
      cancelled == r.status = "cancelled" IN
  /\ run[d].pc = "status"
  /\ run' = [run EXCEPT
       ![d].pc   = IF cancelled THEN "halt" ELSE "control",
       ![d].verb = IF ~cancelled THEN "none"
                   ELSE IF r.gate = "stopped" THEN "stop" ELSE "cancel"]
  /\ UNCHANGED <<tables, environment>>

ReadControl(d) ==
  LET latest == controls[run[d].task].latest IN
  /\ run[d].pc = "control"
  /\ run' = [run EXCEPT ![d].pc = IF latest = "none" THEN "work" ELSE "halt",
                        ![d].verb = latest]
  /\ UNCHANGED <<tables, environment>>

(* WorkflowRunner.run: checkout, then context and risk classification.     *)
Advance(d) ==
  LET next == [prepare |-> "context", context |-> "plan"] IN
  /\ run[d].pc = "work"
  /\ run[d].stage \in {"prepare", "context"}
  /\ run' = [run EXCEPT ![d].pc = "status", ![d].stage = next[@]]
  /\ UNCHANGED <<tables, environment>>

\* No git command of the checkout or of the diff has a timeout, and a control
\* request does not end it: the workflow waits until its daemon dies.
GitHangs(d) ==
  /\ run[d].pc = "work"
  /\ run[d].stage \in {"prepare", "context"}
  /\ run' = [run EXCEPT ![d].pc = "hung"]
  /\ UNCHANGED <<tables, environment>>

\* The guard on the reviewer plan: nothing to review, too much, or review.
Plan(d) ==
  /\ run[d].pc = "work"
  /\ run[d].stage = "plan"
  /\ \/ \E gate \in {"skipped", "context_too_large"} :
          run' = [run EXCEPT ![d].pc = "save", ![d].gate = gate]
     \/ run' = [run EXCEPT ![d].pc = "status", ![d].stage = "review"]
  /\ UNCHANGED <<tables, environment>>

\* While reviewers and judge run their turns keep looking for a control.
Poll(d) ==
  /\ run[d].pc = "work"
  /\ run[d].stage = "review"
  /\ run' = [run EXCEPT ![d].pc = "status"]
  /\ UNCHANGED <<tables, environment>>

PersistFinding(d) ==
  /\ run[d].pc = "work"
  /\ run[d].stage = "review"
  /\ hasFindings' = hasFindings \cup {run[d].task}
  /\ run' = [run EXCEPT ![d].pc = "status", ![d].gate = "failed"]
  /\ UNCHANGED <<row, created, controls, environment>>

ReviewDone(d) ==
  /\ run[d].pc = "work"
  /\ run[d].stage = "review"
  /\ run' = [run EXCEPT ![d].pc = "status", ![d].stage = "finish",
                        ![d].gate = IF @ = "failed" THEN "failed" ELSE "passed"]
  /\ UNCHANGED <<tables, environment>>

\* The report is written after the last check and before the outcome.
WriteReport(d) ==
  /\ run[d].pc = "work"
  /\ run[d].stage = "finish"
  /\ run' = [run EXCEPT ![d].pc = "save"]
  /\ UNCHANGED <<tables, environment>>

\* Any exception of a stage that is not a control request.
Fail(d) ==
  /\ run[d].pc = "work"
  /\ run' = [run EXCEPT ![d].pc = "save", ![d].gate = "incomplete"]
  /\ UNCHANGED <<tables, environment>>

SaveOutcome_writes_twice(d) ==
  /\ run[d].pc = "save"
  /\ row' = [row EXCEPT ![run[d].task] =
               update_task_outcome(@, run[d].task \in Notified, "failed", "incomplete")]
  /\ run' = [run EXCEPT ![d].pc = "recover"]
  /\ UNCHANGED <<created, controls, hasFindings, environment>>

SaveOutcome(d) ==
  LET t == run[d].task
      gate == run[d].gate
      status == IF gate \in ReviewGates THEN "success" ELSE "failed" IN
  /\ run[d].pc = "save"
  /\ row' = [row EXCEPT ![t] = update_task_outcome(@, t \in Notified, status, gate)]
  /\ run' = [run EXCEPT ![d] = Idle("recover")]
  /\ UNCHANGED <<created, controls, hasFindings, environment>>

-----------------------------------------------------------------------------
(* The end of a run on a control request.                                  *)

HonourStop(d) ==
  LET t == run[d].task IN
  /\ run[d].pc = "halt"
  /\ run[d].verb = "stop"
  /\ row' = [row EXCEPT ![t] = stop_row(@)]
  /\ controls' = [controls EXCEPT ![t] = acknowledge_stops(@)]
  /\ run' = [run EXCEPT ![d] = Idle("recover")]
  /\ UNCHANGED <<created, hasFindings, environment>>

\* cancel_task inserts its own control first, in a transaction of its own.
HonourCancel(d) ==
  LET t == run[d].task IN
  /\ run[d].pc = "halt"
  /\ run[d].verb = "cancel"
  /\ controls' = [controls EXCEPT ![t] = request_control(@, "cancel")]
  /\ run' = [run EXCEPT ![d].pc = "cancel"]
  /\ UNCHANGED <<row, created, hasFindings, environment>>

cancel_task(t) ==
  /\ row' = [row EXCEPT ![t] = cancel_row(@)]
  /\ controls' = [controls EXCEPT ![t] = NoControl]

FinishCancel(d) ==
  /\ run[d].pc = "cancel"
  /\ cancel_task(run[d].task)
  /\ run' = [run EXCEPT ![d] = Idle("recover")]
  /\ UNCHANGED <<created, hasFindings, environment>>

-----------------------------------------------------------------------------
(* Operators, through the admin API or the CLI.                            *)

RequestStop(t) ==
  /\ row[t].status # "absent"
  /\ controls' = [controls EXCEPT ![t] = request_control(@, "stop")]
  /\ UNCHANGED <<row, created, hasFindings, run, environment>>

RequestCancel(t) ==
  /\ row[t].status # "absent"
  /\ controls' = [controls EXCEPT ![t] = request_control(@, "cancel")]
  /\ cancelling' = cancelling \cup {t}
  /\ UNCHANGED <<row, created, hasFindings, run, requeues, crashes>>

ApplyCancel(t) ==
  /\ t \in cancelling
  /\ cancel_task(t)
  /\ cancelling' = cancelling \ {t}
  /\ UNCHANGED <<created, hasFindings, run, requeues, crashes>>

Requeue(t) ==
  /\ row[t].status # "absent"
  /\ requeues[t] < MaxRequeues
  /\ row' = [row EXCEPT ![t] = requeue_row(@)]
  /\ controls' = [controls EXCEPT ![t] = NoControl]
  /\ requeues' = [requeues EXCEPT ![t] = @ + 1]
  /\ UNCHANGED <<created, hasFindings, run, cancelling, crashes>>

\* The last open finding of the task was resolved by feedback.
Acknowledge(t) ==
  /\ t \in hasFindings
  /\ row' = [row EXCEPT ![t] =
               update_task_outcome(@, t \in Notified, "success", "passed")]
  /\ UNCHANGED <<created, controls, hasFindings, run, environment>>

-----------------------------------------------------------------------------
(* Time and failures.                                                      *)

LeaseExpires(t) ==
  /\ row[t].lease = "live"
  /\ row' = [row EXCEPT ![t].lease = "expired"]
  /\ UNCHANGED <<created, controls, hasFindings, run, environment>>

Crash(d) ==
  /\ run[d].pc # "down"
  /\ crashes < MaxCrashes
  /\ run' = [run EXCEPT ![d] = Idle("down")]
  /\ crashes' = crashes + 1
  /\ UNCHANGED <<tables, cancelling, requeues>>

Restart(d) ==
  /\ run[d].pc = "down"
  /\ run' = [run EXCEPT ![d] = Idle("recover")]
  /\ UNCHANGED <<tables, environment>>

-----------------------------------------------------------------------------
Check(d)     == ReadStatus(d) \/ ReadControl(d)
Halt(d)      == HonourStop(d) \/ HonourCancel(d) \/ FinishCancel(d)
Conclude(d)  == Plan(d) \/ ReviewDone(d) \/ WriteReport(d) \/ Fail(d)
Loop(d)      == RecoverStale(d) \/ NothingToClaim(d) \/ \E t \in Tasks : Claim(d, t)
Daemon(d)    == \/ Loop(d) \/ Check(d) \/ Halt(d) \/ Conclude(d)
                \/ Advance(d) \/ Poll(d) \/ PersistFinding(d)
                \/ SaveOutcome(d) \/ Crash(d) \/ Restart(d)
                \/ GitHangs(d) \/ SyncHangs(d)
Operator(t)  == \/ RequestStop(t) \/ RequestCancel(t) \/ ApplyCancel(t)
                \/ Requeue(t) \/ Acknowledge(t)

Next ==
  \/ \E d \in Daemons : Daemon(d)
  \/ \E t \in Tasks : Submit(t) \/ Operator(t) \/ LeaseExpires(t)

Spec == Init /\ [][Next]_vars

(* A daemon process that died is restarted by its supervisor, one that is  *)
(* not hanging keeps stepping, and time passes.  The turn and idle         *)
(* timeouts of OpenCodeTurn end the review stage.  A git command has no    *)
(* timeout: the daemon may hang at one instead of stepping on, and nothing *)
(* is assumed to end that.  Polling for a control takes the workflow away  *)
(* from its stage for a moment, hence strong fairness for its end.         *)
(* Nothing is assumed of operators, of submissions or of crashes.          *)
DaemonFairness(d) ==
  /\ WF_vars(Loop(d)) /\ WF_vars(Check(d)) /\ WF_vars(Halt(d))
  /\ WF_vars(SaveOutcome(d)) /\ WF_vars(Advance(d)) /\ WF_vars(Restart(d))
  /\ SF_vars(Conclude(d))

Fairness ==
  /\ \A d \in Daemons : DaemonFairness(d)
  /\ \A t \in Tasks : WF_vars(LeaseExpires(t))

FairSpec == Spec /\ Fairness

(* The queue without operators: submissions, daemons, time and crashes.    *)
QueueNext ==
  \/ \E d \in Daemons : Daemon(d)
  \/ \E t \in Tasks : Submit(t) \/ LeaseExpires(t)

QueueSpec == Init /\ [][QueueNext]_vars /\ Fairness

-----------------------------------------------------------------------------
(* Properties.                                                             *)

(* Every column, control and program counter holds a value of its kind.    *)
TypeOK ==
  /\ row \in [Tasks -> Row]
  /\ created \in [Tasks -> Nat]
  /\ controls \in [Tasks -> Controls]
  /\ hasFindings \subseteq Tasks
  /\ run \in [Daemons -> Run]
  /\ cancelling \subseteq Tasks
  /\ requeues \in [Tasks -> Nat]
  /\ crashes \in Nat

(* Recovery never hands a task out more often than max_task_attempts: each *)
(* further attempt was paid for by an operator's requeue.  The claim does  *)
(* not look at the attempts, so this rests on recover_stale_running_tasks  *)
(* alone, over any interleaving of late outcomes, cancels and claims.      *)
RetryBudget ==
  \A t \in Tasks : row[t].attempts <= MaxAttempts + requeues[t]

(* A running row always has a claim and a lease.  recover_stale looks at   *)
(* rows with a lease only: a running row without one would be lost.        *)
RunningIsRecoverable ==
  \A t \in Tasks :
    row[t].status = "running" => row[t].owner # NoDaemon /\ row[t].lease # "null"

(* What makes RetryBudget inductive: a queued task has a hand-out left.    *)
QueuedHasBudget ==
  \A t \in Tasks :
    row[t].status = "queued" => row[t].attempts < MaxAttempts + requeues[t]

(* What makes ClaimsAreReleased inductive: nobody owns a queued task.      *)
QueuedIsFree ==
  \A t \in Tasks : row[t].status = "queued" => row[t].owner = NoDaemon

(* A daemon names a task exactly while it executes a workflow.             *)
RunsNameTasks ==
  \A d \in Daemons : executing(d) <=> run[d].task # NoTask

(* Whoever is about to write a row names one that exists, and a task that  *)
(* does not exist yet was never handed out.                                *)
NamedTasksExist ==
  /\ \A t \in cancelling \cup hasFindings : row[t].status # "absent"
  /\ \A d \in Daemons : executing(d) => row[run[d].task].status # "absent"
  /\ \A t \in Tasks : row[t].status = "absent" => row[t].attempts = 0

(* The inductive invariant behind the theorems of TaskLifecycle_proofs.    *)
LifecycleInv ==
  /\ TypeOK /\ RetryBudget /\ QueuedHasBudget /\ RunningIsRecoverable
  /\ QueuedIsFree /\ RunsNameTasks /\ NamedTasksExist

(* A claim passes from one daemon to another only through a release that   *)
(* also takes the task out of running; no daemon takes a claim over.       *)
ClaimsAreReleased ==
  [][\A t \in Tasks :
       row[t].owner # NoDaemon /\ row'[t].owner # row[t].owner
         => row'[t].owner = NoDaemon /\ row'[t].status # "running"]_vars

(* A pending stop or cancel disappears only together with the task leaving *)
(* for cancelled or, on a requeue, for the queue.  No claim, outcome or    *)
(* recovery may swallow it.                                                *)
ControlsAreHonoured ==
  [][\A t \in Tasks :
       controls[t].latest # "none" /\ controls'[t].latest = "none"
         => row'[t].status \in {"cancelled", "queued"}]_vars

(* Left alone by operators, the queue is served oldest first: no task is   *)
(* handed out while one submitted in an earlier second still waits for its *)
(* first hand-out, not even after crashes and recoveries.                  *)
OldestFirst ==
  \A t, u \in Tasks :
    row[t].status = "queued" /\ row[t].attempts = 0 /\ created[t] < created[u]
      => row[u].attempts = 0

(* What makes OldestFirst inductive: a running task was handed out.        *)
RunningWasHandedOut ==
  \A t \in Tasks : row[t].status = "running" => row[t].attempts > 0

(* Every queued or running task comes to an end, whatever crashes and      *)
(* whichever git command hangs, unless every daemon hangs: the lease of a  *)
(* daemon that hangs or died runs out, and another one takes its task over *)
(* or gives it up.                                                         *)
EveryTaskSettles ==
  \A t \in Tasks :
    row[t].status \in Active
      ~> row[t].status \in Terminal \/ \A d \in Daemons : hanging(d)

(* Whatever the interleaving, the queue keeps the promises of TaskContract:*)
(* hand-outs from the queue only, at most one verdict per hand-out, ends   *)
(* by recovery, operators and acknowledgement as stated there.             *)
Contract == INSTANCE TaskContract WITH
  phase     <- [t \in Tasks |-> row[t].status],
  handouts  <- [t \in Tasks |-> row[t].attempts],
  executors <- [t \in Tasks |-> {d \in Daemons : run[d].task = t}],
  found     <- hasFindings

ImplementsContract == Contract!Spec
=============================================================================
