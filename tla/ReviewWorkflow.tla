--------------------------- MODULE ReviewWorkflow ---------------------------
(***************************************************************************)
(* One v2 review task under WorkflowRunner (review_v2/workflow.py), opened *)
(* up where TaskLifecycle has one stage: the plan, the reviewers' threads  *)
(* in their pool, the judge, the findings stored one by one, and the       *)
(* reviewer_runs rows they leave.  Every run of a task uses workflow wf1   *)
(* and attempt 1, so all runs of a task write the same rows.               *)
(*                                                                         *)
(* Daemons claim, crash and recover the task, operators stop, cancel and   *)
(* requeue it.  A control check is one step here, and so is a cancel;      *)
(* TaskLifecycle has their two transactions apart.                         *)
(***************************************************************************)
EXTENDS ReviewDB, ReviewRules, ReviewContext

CONSTANTS
  Changes,       \* the changes the task may be about, as sets of files
  Diffs,         \* the diffs a context may be prepared from
  Candidates,    \* the findings a judge may report
  MaxReported,   \* bound on the length of its report
  Concurrency,   \* Settings.review_v2_reviewer_concurrency
  MaxAttempts,   \* Settings.max_task_attempts
  MaxRequests,   \* bound on the operators' requests
  MaxCrashes     \* bound on daemon crashes

ASSUME WorkflowAssumption ==
  /\ MaxReported \in Nat /\ MaxRequests \in Nat /\ MaxCrashes \in Nat
  /\ Concurrency \in Nat \ {0} /\ MaxAttempts \in Nat \ {0}
  /\ \A files \in Changes :
       /\ IsFiniteSet(files)
       /\ \A f \in files : f.triggers \subseteq Specialists /\ f.lines \in Nat /\ f.bytes \in Nat
  /\ ContextMaxBytes \in Nat
  /\ \A c \in Candidates : c.rank \in Nat /\ c.confidence \in Nat
  /\ \A diff \in Diffs : by_git(diff)

VARIABLES
  change,     \* what the recorded commit changes
  context,    \* the context files prepared for the task
  row,        \* the task's cr_tasks row
  controls,   \* its unacknowledged task_controls rows
  plans,      \* the reviewers of its reviewer_plans rows
  runs,       \* reviewer_runs.status, by reviewer
  findings,   \* the finding_ids stored
  work,       \* what each daemon is doing
  requests, crashes

database == <<row, controls, plans, runs, findings>>
environment == <<change, requests, crashes>>
vars == <<database, context, work, environment>>

-----------------------------------------------------------------------------
(* A daemon's run and its reviewer threads.                                *)

Judge == "cr_judge"
Reviewers == {"correctness", "correctness_light", Judge} \cup Specialists
RunStatuses == {"absent", "queued", "running", "success", "failed", "cancelled"}

\* What a turn ended with: an answer of the required form, another answer,
\* no completed turn or no session, an exception.
Results == {"good", "invalid", "failed", "raised"}
\* What a reviewer thread returned or raised.
Returns == {"output", "failure"} \cup ControlActions
Threads == {"waiting", "checked", "turn", "collected"} \cup Results \cup Returns

Reports == UNION {[1 .. n -> Candidates] : n \in 0 .. MaxReported}

Pcs == {"idle", "prepare", "context", "plan", "fanout", "judge", "judging",
        "judged", "persist", "save", "halt"}

\* verb: control_request; failed: whether failures is not empty; todo: the
\* accepted findings not stored yet.
Work == [pc: Pcs, thread: Seq(Threads), verb: ControlActions \cup {"none"},
         failed: BOOLEAN, judge: Results, report: Reports,
         todo: SUBSET Candidates, gate: Gates]

Idle == [pc |-> "idle", thread |-> <<>>, verb |-> "none", failed |-> FALSE,
         judge |-> "failed", report |-> <<>>, todo |-> {}, gate |-> "null"]

plan == plan_reviewers(context)
at(d, pc) == work[d].pc = pc
thread(d, i) == work[d].thread[i]

Init ==
  /\ change \in Changes
  /\ context = prepare({})
  /\ row = create_task
  /\ controls = NoControl
  /\ plans = {}
  /\ runs = [r \in Reviewers |-> "absent"]
  /\ findings = {}
  /\ work = [d \in Daemons |-> Idle]
  /\ requests = 0 /\ crashes = 0

\* _raise_if_task_control_requested: the action it raises, or "none".
asked ==
  IF row.status = "cancelled"
  THEN IF row.gate = "stopped" THEN "stop" ELSE "cancel"
  ELSE controls.latest

halts_on(d, verb) == work' = [work EXCEPT ![d] = [Idle EXCEPT !.pc = "halt", !.verb = verb]]
halts(d) == halts_on(d, asked)
ends(d, gate) == work' = [work EXCEPT ![d].pc = "save", ![d].gate = gate, ![d].judge = "failed",
                                      ![d].report = <<>>, ![d].todo = {}]
goes(d, pc) == work' = [work EXCEPT ![d].pc = pc]

\* The next thing happens only if nobody asked to end the task.
Checked(d, Proceed) ==
  \/ asked # "none" /\ halts(d)
  \/ asked = "none" /\ Proceed

-----------------------------------------------------------------------------
(* The daemon's loop.                                                      *)

Claim(d) ==
  /\ at(d, "idle")
  /\ row.status = "queued"
  /\ row' = claim_task(row, d)
  /\ goes(d, "prepare")
  /\ UNCHANGED <<controls, plans, runs, findings, context, environment>>

RecoverStale(d) ==
  /\ at(d, "idle")
  /\ is_stale(row)
  /\ row' = recover_row(row, MaxAttempts)
  /\ UNCHANGED <<controls, plans, runs, findings, context, work, environment>>

LeaseExpires ==
  /\ row.status = "running" /\ row.lease = "live"
  /\ row' = [row EXCEPT !.lease = "expired"]
  /\ UNCHANGED <<controls, plans, runs, findings, context, work, environment>>

Crash(d) ==
  /\ ~at(d, "idle")
  /\ crashes < MaxCrashes
  /\ crashes' = crashes + 1
  /\ work' = [work EXCEPT ![d] = Idle]
  /\ UNCHANGED <<database, context, change, requests>>

-----------------------------------------------------------------------------
(* WorkflowRunner.run up to the guard.                                     *)

Prepare(d) ==
  /\ at(d, "prepare")
  /\ Checked(d, goes(d, "context") \/ ends(d, "incomplete"))
  /\ UNCHANGED <<database, context, environment>>

PrepareContext(d) ==
  /\ at(d, "context")
  /\ Checked(d, goes(d, "plan") \/ ends(d, "incomplete"))
  /\ context' = IF work'[d].pc = "plan" THEN prepare(change) ELSE context
  /\ UNCHANGED <<database, environment>>

Plan(d) ==
  /\ at(d, "plan")
  /\ Checked(d,
       LET guard == prepare_review_guard(context) IN
       IF guard = "review"
       THEN work' = [work EXCEPT ![d].pc = "fanout",
                       ![d].thread = [i \in DOMAIN plan |-> "waiting"]]
       ELSE ends(d, guard))
  /\ plans' = IF asked = "none" THEN plans \cup ToSet(plan) ELSE plans
  /\ UNCHANGED <<row, controls, runs, findings, context, environment>>

-----------------------------------------------------------------------------
(* _run_single_reviewer, in a pool of Concurrency threads.                 *)

becomes(d, i, state) == work' = [work EXCEPT ![d].thread[i] = state]

busy(d) == {i \in DOMAIN work[d].thread : thread(d, i) \in {"checked", "turn"} \cup Results}

BeginReviewer(d, i) ==
  /\ at(d, "fanout") /\ thread(d, i) = "waiting"
  /\ \A j \in 1 .. i - 1 : thread(d, j) # "waiting"
  /\ Cardinality(busy(d)) < Concurrency
  /\ becomes(d, i, IF asked = "none" THEN "checked" ELSE asked)
  /\ UNCHANGED <<database, context, environment>>

start_reviewer_run(r) == runs' = [runs EXCEPT ![r] = "running"]
finish_reviewer_run(r, status) == runs' = [runs EXCEPT ![r] = status]

StartReviewer(d, i) ==
  /\ at(d, "fanout") /\ thread(d, i) = "checked"
  /\ start_reviewer_run(plan[i])
  /\ becomes(d, i, "turn")
  /\ UNCHANGED <<row, controls, plans, findings, context, environment>>

\* A turn of which the output cannot be written leaves its row as it is.
TurnEnds(d, i) ==
  /\ at(d, "fanout") /\ thread(d, i) = "turn"
  /\ \/ asked # "none" /\ becomes(d, i, asked)
     \/ asked = "none" /\ \E r \in Results \cup {"failure"} : becomes(d, i, r)
  /\ UNCHANGED <<database, context, environment>>

\* What the thread makes of the result after its row is finished.
returned(result) ==
  CASE result = "good" -> "output"
    [] result = "failed" /\ asked # "none" -> asked
    [] OTHER -> "failure"

FinishReviewer(d, i) ==
  LET result == thread(d, i) IN
  /\ at(d, "fanout") /\ result \in Results
  /\ finish_reviewer_run(plan[i],
       IF result \in {"good", "invalid"} THEN "success" ELSE "failed")
  /\ becomes(d, i, returned(result))
  /\ UNCHANGED <<row, controls, plans, findings, context, environment>>

Collect_outputs_only(d, i) ==
  /\ at(d, "fanout") /\ thread(d, i) \in Returns
  /\ work' = [work EXCEPT
       ![d].thread[i] = "collected",
       ![d].verb = IF thread(d, i) \in ControlActions THEN thread(d, i) ELSE @]
  /\ UNCHANGED <<database, context, environment>>

\* as_completed, in any order: the last control request is the one kept.
Collect(d, i) ==
  /\ at(d, "fanout") /\ thread(d, i) \in Returns
  /\ work' = [work EXCEPT
       ![d].thread[i] = "collected",
       ![d].failed = @ \/ thread(d, i) = "failure",
       ![d].verb = IF thread(d, i) \in ControlActions THEN thread(d, i) ELSE @]
  /\ UNCHANGED <<database, context, environment>>

Join_failures_first(d) ==
  /\ at(d, "fanout")
  /\ \A i \in DOMAIN work[d].thread : thread(d, i) = "collected"
  /\ CASE work[d].failed -> ends(d, "incomplete")
       [] ~work[d].failed /\ work[d].verb # "none" -> halts_on(d, work[d].verb)
       [] OTHER -> Checked(d, goes(d, "judge"))
  /\ UNCHANGED <<database, context, environment>>

\* A control request a thread met wins over one that is still to be seen,
\* and both win over failures.
Join(d) ==
  /\ at(d, "fanout")
  /\ \A i \in DOMAIN work[d].thread : thread(d, i) = "collected"
  /\ IF work[d].verb # "none" THEN halts_on(d, work[d].verb)
     ELSE Checked(d, IF work[d].failed THEN ends(d, "incomplete")
                     ELSE goes(d, "judge"))
  /\ UNCHANGED <<database, context, environment>>

-----------------------------------------------------------------------------
(* _run_judge_session.                                                     *)

StartJudge(d) ==
  /\ at(d, "judge")
  /\ start_reviewer_run(Judge)
  /\ goes(d, "judging")
  /\ UNCHANGED <<row, controls, plans, findings, context, environment>>

JudgeTurnEnds(d) ==
  /\ at(d, "judging")
  /\ Checked(d, \/ \E r \in Results :
                     work' = [work EXCEPT ![d].pc = "judged", ![d].judge = r]
                \/ ends(d, "incomplete"))
  /\ UNCHANGED <<database, context, environment>>

JudgeFails(d) ==
  /\ at(d, "judged") /\ work[d].judge # "good"
  /\ finish_reviewer_run(Judge,
       IF work[d].judge = "invalid" THEN "success" ELSE "failed")
  /\ ends(d, "incomplete")
  /\ UNCHANGED <<row, controls, plans, findings, context, environment>>

JudgeAnswers(d) ==
  /\ at(d, "judged") /\ work[d].judge = "good"
  /\ finish_reviewer_run(Judge, "success")
  /\ \E report \in Reports :
       work' = [work EXCEPT ![d].pc = "persist", ![d].judge = "failed",
                            ![d].report = report, ![d].todo = normalize(report)]
  /\ UNCHANGED <<row, controls, plans, findings, context, environment>>

-----------------------------------------------------------------------------
(* The findings and the verdict.                                           *)

\* finding_id is the key of the table, over all runs: storing it twice raises.
create_finding(d) ==
  /\ at(d, "persist")
  /\ \E c \in work[d].todo :
       \/ asked # "none" /\ halts(d) /\ UNCHANGED findings
       \/ /\ asked = "none" /\ c.id \in findings
          /\ ends(d, "incomplete") /\ UNCHANGED findings
       \/ /\ asked = "none" /\ c.id \notin findings
          /\ findings' = findings \cup {c.id}
          /\ work' = [work EXCEPT ![d].todo = @ \ {c}]
  /\ UNCHANGED <<row, controls, plans, runs, context, environment>>

gate_of_the_report(d) == IF work[d].report = <<>> THEN "passed" ELSE "failed"

gate_status(d) == IF normalize(work[d].report) = {} THEN "passed" ELSE "failed"

Conclude(d) ==
  /\ at(d, "persist") /\ work[d].todo = {}
  /\ Checked(d, ends(d, gate_status(d)))
  /\ UNCHANGED <<database, context, environment>>

\* Without another look at the row or the controls.
SaveOutcome(d) ==
  LET gate == work[d].gate IN
  /\ at(d, "save")
  /\ row' = update_task_outcome(row, FALSE,
       IF gate \in ReviewGates THEN "success" ELSE "failed", gate)
  /\ work' = [work EXCEPT ![d] = Idle]
  /\ UNCHANGED <<controls, plans, runs, findings, context, environment>>

-----------------------------------------------------------------------------
(* Ends by request.                                                        *)

settled_if_running == [r \in Reviewers |->
  IF runs[r] = "queued" THEN "cancelled" ELSE runs[r]]

\* What a stop or a cancel makes of the rows.
settled == [r \in Reviewers |->
  IF runs[r] \in {"queued", "running"} THEN "cancelled" ELSE runs[r]]

mark_task_stopped ==
  /\ row' = stop_row(row)
  /\ runs' = settled
  /\ controls' = acknowledge_stops(controls)

cancel_task ==
  /\ row' = cancel_row(row)
  /\ runs' = settled
  /\ controls' = NoControl

Halt(d) ==
  /\ at(d, "halt")
  /\ IF work[d].verb = "cancel" THEN cancel_task ELSE mark_task_stopped
  /\ work' = [work EXCEPT ![d] = Idle]
  /\ UNCHANGED <<plans, findings, context, environment>>

Asks ==
  /\ requests < MaxRequests
  /\ requests' = requests + 1
  /\ UNCHANGED <<change, plans, findings, context, work, crashes>>

RequestStop ==
  /\ Asks
  /\ controls' = request_control(controls, "stop")
  /\ UNCHANGED <<row, runs>>

Cancel == Asks /\ cancel_task

Requeue ==
  /\ Asks
  /\ row' = requeue_row(row)
  /\ runs' = [r \in Reviewers |->
       IF runs[r] \in {"queued", "running", "failed", "cancelled"}
       THEN "queued" ELSE runs[r]]
  /\ controls' = NoControl

-----------------------------------------------------------------------------
Reviewer(d, i) ==
  \/ BeginReviewer(d, i) \/ StartReviewer(d, i) \/ TurnEnds(d, i)
  \/ FinishReviewer(d, i) \/ Collect(d, i)

Workflow(d) ==
  \/ Prepare(d) \/ PrepareContext(d) \/ Plan(d)
  \/ \E i \in DOMAIN work[d].thread : Reviewer(d, i)
  \/ Join(d)
  \/ StartJudge(d) \/ JudgeTurnEnds(d) \/ JudgeFails(d) \/ JudgeAnswers(d)
  \/ create_finding(d) \/ Conclude(d) \/ SaveOutcome(d) \/ Halt(d)

Next ==
  \/ \E d \in Daemons : Claim(d) \/ RecoverStale(d) \/ Workflow(d) \/ Crash(d)
  \/ LeaseExpires
  \/ RequestStop \/ Cancel \/ Requeue

Spec == Init /\ [][Next]_vars

-----------------------------------------------------------------------------
(* Properties.                                                             *)

(* Every row, program counter and thread holds a value of its kind.        *)
TypeOK ==
  /\ change \in Changes /\ context \in Context
  /\ row \in Row /\ controls \in Controls
  /\ plans \subseteq Reviewers
  /\ runs \in [Reviewers -> RunStatuses]
  /\ findings \subseteq {c.id : c \in Candidates}
  /\ work \in [Daemons -> Work]
  /\ requests \in 0 .. MaxRequests /\ crashes \in 0 .. MaxCrashes

(* A task reported as reviewed has a successful run of every planned       *)
(* reviewer, of every specialist a production file calls for and of the    *)
(* judge behind it, although all runs of the task, the crashed, halted and *)
(* requeued ones too, wrote the same rows.  This is what spec-cr-v2        *)
(* l.519-521 asks of a clean pass.  Needs a single daemon.                 *)
VerdictIsBacked ==
  row.status = "success" /\ row.gate \in {"passed", "failed"} =>
    LET called == UNION {f.triggers : f \in production_of(change)} IN
    \A r \in ToSet(plan) \cup called \cup {Judge} : runs[r] = "success"

(* Once the run of a task has met a stop or a cancel, in any of its        *)
(* threads and whatever the others failed with, it writes no outcome.      *)
ControlEndsTheRun ==
  \A d \in Daemons : at(d, "save") =>
    /\ work[d].verb = "none"
    /\ \A i \in DOMAIN work[d].thread : thread(d, i) \notin ControlActions

(* A stopped or cancelled task nobody works on shows no reviewer as still  *)
(* at work, whichever checks and turns the request met; a daemon that died *)
(* may have left one behind.                                               *)
StoppedIsSettled ==
  row.status = "cancelled" /\ (\A d \in Daemons : at(d, "idle")) /\ crashes = 0
    => \A r \in Reviewers : runs[r] \notin {"queued", "running"}

(* What is kept of a judge's report, by definition: for every key of an    *)
(* admissible finding exactly one, and none of that key is stronger.       *)
StrongestIsKept ==
  \A d \in Daemons : at(d, "persist") =>
    LET good == {c \in ToSet(work[d].report) : admissible(c)}
        kept == normalize(work[d].report) IN
    /\ kept \subseteq good
    /\ \A c \in good : Cardinality({k \in kept : k.key = c.key}) = 1
    /\ \A k \in kept, c \in good : c.key = k.key => ~stronger(c, k)

(* A task fails its gate only with a finding in the table: otherwise there *)
(* would be nothing to answer, and the task could never be passed.         *)
RejectionCanBeAnswered == row.gate = "failed" => findings # {}

\* A constant formula, which TLC evaluates once.
ordinaryDiffsAreRead ==
  \A diff \in Diffs : ordinary(diff) => _changed_lines(diff) = added_lines(diff)

(* The changed lines by which findings are judged are the lines the diff   *)
(* adds, by their numbers in the new file, as spec-cr-v2 l.384 has it: once *)
(* a context is prepared they are told rightly whatever files and hunks    *)
(* its diff has, unless a line of the diff looks like a header.            *)
ChangedLinesAreAdded == context # prepare({}) => ordinaryDiffsAreRead
=============================================================================
