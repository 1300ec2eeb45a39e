# Formal models of code-review-agent

TLA+ specifications of the review service in `src/src/cr_agent`, TLC instances that
check them, and TLAPS proofs about them. Paths below are relative to
`src/src/cr_agent` unless they start with `docs/`, `ops/` or `operation.md`.

    tlc -workers 2 -config TaskLifecycle_safety.cfg MCTaskLifecycle.tla
    tlapm TaskLifecycle_proofs.tla

`PROJECT.json` lists every run with its configuration, every theorem, the source
lines each definition stands for, the hazards of the code and the properties that
cover them, the disagreements between code and documents that the runs show, and,
for every property, a mutation of the code that makes it fail.

## 1. The system

The service reviews commits with language models. CI triggers a review over HTTP;
a *task* is queued, a *daemon* process claims it, checks the repository out, lets
several reviewer sessions and a judge session look at the diff, stores findings,
writes a report and tells CI the verdict. Users comment on findings; the model, or a
human decision, may resolve them; once all are resolved the task counts as passed
and CI is told again. Operators can stop, cancel and requeue tasks.

Two generations live side by side. **v2** (`review_v2/`) keeps everything in one
SQLite database shared by the API process and any number of daemon processes.
**Legacy** (`core/service.py`) runs worker threads over an in-memory queue and JSON
files. `review_v2_enabled` chooses which of the two a new task goes to.

### Inventory

| Component | State | Operations | Hard parts | What makes it correct |
|---|---|---|---|---|
| Task store `review_v2/storage.py` | `cr_tasks`, `task_controls`, `reviewer_runs`, `findings`, `feedback_sessions`, events | one `BEGIN IMMEDIATE` transaction per method | callers chain several transactions; outcome writes check neither status nor owner | retry budget, claims, controls are never lost |
| Daemon `review_v2/daemon.py`, `cli.py`, supervisor | a loop: recover, deliver callbacks, claim, run | `recover_stale`, `retry_callbacks`, `once` | crashes, restarts, several daemons, leases that nobody renews | every task settles; callbacks settle; budgets hold |
| Workflow `review_v2/workflow.py` | stage, accepted findings; reviewer threads | checks, plan, reviewers, judge, report, outcome | two-read control check; operators between two transactions; late outcomes | one verdict per hand-out; cancel and stop are honoured |
| Feedback `review_v2/feedback.py` | one thread and one session per comment; prompt files | start, turn, resolve, count, pass | threads race with each other and with the review; API restarts | the last resolution passes the task, only reviewed tasks are passed |
| Callback client `core/callback.py` | none | a round of posts | lost answers, duplicates | CI ends with the verdict that is in the row |
| Judge `review_v2/judge.py` | none | reject, deduplicate, pick the stronger | global finding ids derived from the finding only | the strongest admissible finding of each key is kept; a rejection can be answered |
| Context, risk, guard `context.py`, `review_rules.py`, `risk.py`, `guards.py` | files of a task | classify files, number changed lines, rank, plan | thresholds; lines of a diff that look like headers | every specialist a change calls for reviews it; changed lines are the added ones |
| OpenCode turns `opencode_process.py`, `opencode_stream.py`, `llm_session.py` | a process, two reader threads, timers | run a turn, fall back over models | three timeouts and a cancel race with the stream | a turn ends; a completed one lost nothing; a refusing provider is left |
| Routing `opencode_routing.py`, `opencode_config.py` | model health cache | candidates, probes | stale health | the next model is tried for a reason |
| Legacy service `core/service.py`, `core/storage.py` | queue, active / cancelled / deleted sets, JSON records | submit, run, recover, sweep, delete | queue limit, check-then-save, sweep against starting tasks | a deleted task stays deleted; no accepted task is forgotten; CI hears of a success |
| Legacy runner `core/opencode_runner.py` | one review's attempts and repairs | prompt, parse, repair, ask again | error events, timeouts, silent answers | errors become no verdict; silence is asked twice |
| Legacy feedback and fixes `core/feedback.py`, `core/service.py` | one JSON file per task | load, change, save | lost updates between four kinds of threads | what is pending is served; the record follows the file |
| Git client `core/git_client.py` | per-repository locks, checkouts | prepare, collect, push | lock scope, directories shared by name, hanging commands | a run's diff is that of its commit |
| API `api/routes.py` | none of its own | triggers, controls, comments | | |
| Prompts, profiles, views, costs, patterns | files, tables | text and sums | | |

### Interaction

API and daemons meet only in the database. Operators write `task_controls` and
`cr_tasks`; a running workflow polls both. Feedback threads of the API write
`findings` and finally `cr_tasks`. `update_task_outcome` schedules the callback by
setting columns which the next loop of any daemon picks up. No transaction spans
more than one method, so everything interesting happens *between* transactions.

The legacy service is one process. Its threads share a queue, the live objects of the
records, one checkout directory per repository name and one feedback file per task;
each save of a record or file writes the whole of it. Only the queue, a lock around
single store operations and the lock of a repository order what they do.

## 2. Modules

| Module | Models | Extends |
|---|---|---|
| `ReviewDB` | the transactions on a `cr_tasks` row and on the pending controls of a task, as operators from old row to new row | |
| `TaskLifecycle` | rows, controls, daemons with their workflows, operators, leases, crashes | `ReviewDB` |
| `TaskContract` | the abstract queue: phases, hand-outs, executors, verdicts | |
| `CallbackDelivery` | the callback of one task: listing, loading a snapshot, posting, recording, against everyone who writes the row | `ReviewDB` |
| `FindingFeedback` | comment threads, sessions, prompt files and findings of one task, against its review | `ReviewDB` |
| `ReviewContext` | production files, sizes, triggers and changed lines of a diff, as operators | |
| `ReviewRules` | risk, reviewer plan, guard; what becomes of a judge's report, as operators | |
| `ReviewWorkflow` | one review opened up: reviewer threads in a pool, judge, findings, `reviewer_runs` rows, against daemons and operators | `ReviewDB`, `ReviewRules`, `ReviewContext` |
| `OpenCodeTurn` | one turn: candidates, the process, its stream and timeouts, fallback | |
| `LegacyService` | records, queue, workers, orphan sweep, deletion, restart | |
| `GitCheckout` | the checkout directory of a repository name, its lock, the git commands of a run | |
| `OpencodeOutput` | what an output of the model parses to, as operators | |
| `LegacyReview` | a legacy run from its checkout to its verdict | `GitCheckout`, `OpencodeOutput` |
| `LegacyFeedback` | the feedback file of a task, everyone who writes it, record and callback | `OpencodeOutput` |
| `MC*` | what TLC needs on top: symmetry, values of constants, definitions for runs | the module named |
| `*_proofs` of all modules with a `Spec` but `TaskContract` | lemmas and theorems (section 4) | the module named, `TLAPS` |

### ReviewDB

`Row` holds the columns that decisions depend on: `status`, `gate` (`gate_status`),
`owner` (`claimed_by`), `lease` (`lease_expires_at`: null, live or expired),
`attempts`, and the callback columns. Times are reduced to the comparison the code
makes with them. A column the code leaves alone stays alone: a requeue keeps
`attempts` and the callback; an outcome keeps the claim. `Controls` keeps the
pending actions of a task and the newest of them, which is all that
`check_task_control` and the acknowledging updates can tell apart. Priorities are
left out, since `_submit_v2` gives every task the same one.

### TaskLifecycle and TaskContract

One action per transaction or per step between two of them. A daemon goes through
`recover`, `claim`, and for a claimed task through stages `prepare`, `context`,
`plan`, `review`, `finish`; before the work of each stage come the two reads of
`_raise_if_task_control_requested` (`ReadStatus`, `ReadControl`). `Plan` is the guard
(skip, refuse, review), `Poll` the cancellation checks of the turns, `PersistFinding`
one accepted finding, `Fail` any other exception, `SaveOutcome` the one transaction
that ends a run. `HonourStop`, `HonourCancel` and `FinishCancel` are the two handlers
of `TaskControlRequested`; cancelling takes two transactions both there and in the
API (`RequestCancel`, `ApplyCancel`). `LeaseExpires` may happen at any time to a live
lease. `Crash` loses everything a daemon knew, the supervisor's `Restart` begins
anew. `GitHangs` is a git command of the checkout or the diff that never ends,
`SyncHangs` one of the daily refresh of the feedback patterns in the loop; only a crash
takes a daemon out of them. The reviewer fan-out is folded into stage `review`.

`TaskContract` says what that machinery promises: hand-outs from the queue only, one
verdict per hand-out at most, recovery within `MaxAttempts`, and otherwise only
operators and acknowledgements. The refinement maps `phase` to the status column,
`handouts` to the attempts, `executors` to the daemons whose program counter names
the task. Two executors are allowed there: a lease may run out under a workflow.

### CallbackDelivery

One row, any number of daemons that either review or deliver. `Load` takes the
snapshot, `Acknowledged` / `Unacknowledged` are the posts of a round (a failed post may
or may not have reached CI), `Confirm` and `RecordFailure` write the result with the
snapshot's count. The other actions are everyone else who writes the row. A payload
is the gate it reports: the requeued row with its null gate reads as "issues found",
a skipped review as a clean one. CI keeps what it heard last. The daemon's
`run_forever` and the CLI command `retry-callbacks` are both daemons here. `Hang` is a
git command that never ends, in this task's review or in whatever else the daemon is
doing. That a write to the database fails is not modelled.

### FindingFeedback

A comment takes a thread through `StartFeedback`, `ReadPrompt`, the answer, `Resolve`,
`CountOpen` and `Pass`, or straight from `MarkHumanNonFix` to the count. The review
persists findings one by one, and inserting an id that exists ends it as incomplete
(the id is the primary key). The task has no callback target here. `early` is a
history variable: findings resolved while the review was still running.

### ReviewContext, ReviewRules and ReviewWorkflow

A change is a set of files; a file carries what the path patterns see in it
(`marks`, `triggers`) and its sizes. `prepare` gives the figures `classify_risk` goes
by. `_changed_lines` is the parser's loop as a fold over raw lines, next to
`added_lines`, the numbers of the added lines by definition. `ReviewRules` has tier,
plan and guard, and `normalize`: grouping by reviewer, rejection, merging.

`ReviewWorkflow` replaces the stage `review` of `TaskLifecycle` by its parts. A daemon
goes through `prepare`, `context`, `plan`, `fanout`, the judge's turn, `persist` and
`save`; in `fanout` each reviewer of the plan is a thread that waits for a place in
the pool, checks for a control, starts its row, runs its turn, finishes its row and is
collected in any order. A result is an answer of the required form, another answer, a
failed turn or an exception. The rows are keyed by reviewer alone, since every run
uses `wf1` and attempt 1: a run after a requeue or a recovery writes over those of its
predecessor. A control check is one step here; its two reads, and the two
transactions of a cancel, are apart in `TaskLifecycle`.

### OpenCodeTurn

`Select` and `Begin` choose candidates, `Launch` starts the process of the next one,
`Skip` leaves out those of a refused provider. The process writes events and an exit
code whenever it likes (`ReadEvent`, `ReadFailure`, exit); the loop's `Poll` sees a
cancel, a provider failure or a timeout, in that order, and `Close` makes a result of
what was read. Time is counted in polls up to `Active`. Which models are usable when
candidates are chosen, and whether the task is cancelled when the loop asks, are
choices: other turns, cooldowns and operators decide that.

### LegacyService

A thread's step is a change to the live record followed by a save; a save is the check
for a deletion (`Save`, of `_save_record`) and the write of what the record says by then
(`Write`). The checks before it (`Start`, `Finish`) are steps of their own, so a deletion
may fall between them and `Save`, or between `Save` and `Write`.
`Submit`, `Pick`, `Start`, `Checkout`, `Finish`, the callback, `fail` and the retry are
the worker's loop. The sweep reads the record (`SweepLook`), then asks in turn whether
the task is active (`SweepActive`), old enough (`SweepAge`) and out of attempts
(`SweepAttempts`), and gives it up or queues it (`SweepGivesUp`, `SweepRequeues`,
`SweepEnqueue`); workers move between any two of these. `Hang` is a git command or a
prompt that never ends; a deletion may free the thread (`Freed`), as it cancels git commands.
`FindRunning` and `Delete` are an admin's; a deleted record is `Gone` and not submitted
again, since ids are not given twice. `Restart` is the scan of the files. The queue is
the number of entries of each task, and any put may find it full. What the analysis ends
with is a choice here, and the subject of `LegacyReview`.

### GitCheckout, OpencodeOutput and LegacyReview

All runs meet in one directory; their URLs may differ, since the directory and the
lock carry only the repository's name. The steps from `Acquire` to
`collect_review_context` hold the lock, the model's turns do not. A git command may
fail, be cancelled, or hang for good. An attempt of the model reads the directory when
it answers, so it may see another run's commit. An output has a form (blank, one JSON
value, an array, lines of events, other text) and holds no error, an error event where
`_raise_for_opencode_error_output` looks for it, or one further inside. That function
looks at a single object and at events on lines of their own; an array with an error
event goes to the repair. `_parse_with_repair_loop`, the attempts and the repeat of a
suspicious empty answer are steps of `LegacyReview`, and `_normalize_result` its verdict.

A prompt is a shell with a pipeline. Its timeout and a cancel signal the shell, after
which `communicate()` waits without limit for whatever still holds the pipes
(`opencode_runner.py:508-523`): `PromptTimeout` and `Cancel` either end the run or leave
it `hung`. `PromptHangs` is the case of a shell that ended by itself. An attempt whose
process fails is made again without a look at its output (`PromptFails`); the output of
a repair that fails is looked at only in that the run ends as an error.
Histories: `failed` (an answer that was parsed was an error event or held one on a line
of its own, or a failed repair printed one), `silent` (a repaired empty result of an
announcement was returned) and `rounds` (attempts that answered with an announcement and
were given to a repair).

### LegacyFeedback

A writer loads the list it changes (`base`), changes one element in memory (`mine`),
reloads the other two lists and writes all three. Clients, the feedback and the
general thread and the fix threads all do so. Histories name what went wrong on the
way: `lost` (a stale write undid a change), `refused` (the queue was full after the
save), `stranded` (a restart emptied the queues), `unheard` (the callback failed).
The properties hold for everything outside them.

`TypeOK` of these modules states the kinds of their variables; it belongs to no
configuration, can be added to the INVARIANTS of any of them, and is a theorem
for most of them (section 4).

## 3. Runs

The run `callback_lost` checks a statement of a document that the code does not keep;
its counterexample is described in section 6. All others pass.

| Run | Question | Bounds |
|---|---|---|
| `lifecycle` | Do budget, claims and controls survive every interleaving of operators, crashes and lease expiry, and is the contract implemented? | 1 task, 2 daemons, 2 attempts, 1 requeue, 1 crash |
| `lifecycle_settles` | Does every task end, although daemons crash and git commands hang, unless all daemons hang? | 1 task, 2 daemons, 2 attempts, 1 crash, operators |
| `lifecycle_queue` | Are two tasks served in order when nobody interferes? | 2 tasks, 1 daemon, 2 attempts, 2 crashes |
| `callbacks_one` | With one daemon: is the budget kept, is the recorded digest true, and does a succeeded callback mean that CI heard the verdict in the row? | 2 requeues, 2 crashes, no acknowledgement, 3 rounds of 2 posts |
| `callbacks_two` | Do callbacks settle although two daemons overwrite each other's count, and one of them may hang? | 1 acknowledgement, 1 crash, 2 rounds of 1 post |
| `callback_lost` | Does CI hear of the pass although an acknowledgement meets a delivery? No. | 1 daemon, 1 acknowledgement, 2 rounds of 2 posts |
| `feedback` | Does the last of several concurrent resolutions pass the task, and does nothing reopen? | 2 findings, 3 comments, 1 requeue, 1 restart |
| `review_workflow` | Does a verdict have every reviewer it needs behind it, does a control end the run and settle its rows, are the strongest findings kept and can a rejection be answered; are changed lines the added ones? | 5 changes, one per tier and guard; pool of 2; reports of up to 3 of 3 findings; 1 daemon, 2 attempts, 2 requests, 1 crash; diffs of two files with up to 5 lines |
| `opencode_turn` | Does every turn end, complete only whole, leave a refusing provider and fall back for a reason? | 3 models, 2 of them of the proxy; timeouts of 2, 3 and 1 polls |
| `legacy_service` | Is every accepted task served, run as often as paid for, told, gone once deleted, and does it end? | 1 task, 2 workers, the sweep, 2 attempts, 1 restart |
| `legacy_review` | Is the diff that of the commit, is a blocking finding overruled only by the diff, does an answer with an error give no verdict, is silence asked twice, does every run end unless something hangs? | 2 runs, 2 URLs of one name, 1 branch with 1 push, 1 retry, 1 repair |
| `legacy_feedback` | Is what is pending served, does the record follow the file, does CI hear of a pass, does a closed session stay closed? | 1 finding, 1 item, 1 session, 1 client, 2 fix threads, 2 rounds, 3 requests, 1 restart |

### Properties

| Run | Property | What it says |
|---|---|---|
| `lifecycle` | `RetryBudget` | recovery hands a task out at most `max_task_attempts` times; what exceeds that was requeued by an operator |
| | `RunningIsRecoverable` | a running row has a claim and a lease, without which no recovery would look at it |
| | `ClaimsAreReleased` | no daemon takes over a claim that was not released first |
| | `ControlsAreHonoured` | a pending stop or cancel goes only when the task leaves for cancelled or the queue |
| | `ImplementsContract` | refinement: all of it is a behaviour of `TaskContract` |
| `lifecycle_settles` | `EveryTaskSettles` | every queued or running task ends, unless every daemon hangs at a git command |
| `lifecycle_queue` | `OldestFirst` | no task is handed out before one of an earlier second got its first turn |
| `callbacks_one` | `AttemptsBounded` | the retry budget of a callback is kept |
| | `DigestIsHeard` | the digest of a succeeded callback is what CI was told last |
| | `ReviewReachesCI` | a succeeded callback told CI the verdict in the row; `callback_lost` violates it |
| `callbacks_two` | `EveryCallbackSettles` | a scheduled callback is delivered or given up, unless every daemon hangs |
| `feedback` | `LastResolutionPasses` | some thread sees that it resolved the last finding and passes the task |
| | `NoFindingReopens` | a resolved finding stays resolved |
| `review_workflow` | `VerdictIsBacked` | a verdict has a successful run of every reviewer it needs and of the judge |
| | `ControlEndsTheRun` | a run that met a stop or cancel in any thread writes no outcome |
| | `StoppedIsSettled` | a stopped task shows no reviewer at work |
| | `StrongestIsKept` | of the findings with one key the strongest is kept, and one only |
| | `RejectionCanBeAnswered` | a task that fails its gate has a finding to answer |
| | `ChangedLinesAreAdded` | the lines findings may be anchored to are the added ones |
| `opencode_turn` | `CompletedIsWhole` | a completed turn lost none of its output |
| | `RefusedProviderIsLeft` | a provider that refused a connection is not asked again |
| | `FallbackIsEarned` | another model is asked only after a failure that warrants it |
| | `EveryTurnEnds` | a turn ends, whatever its process does |
| `legacy_service` | `QueuedIsServed` | a queued record is in the queue or on its way to or from it |
| | `RunsArePaid` | a task runs once per attempt, and again only by a mistake of the sweep |
| | `DeletedIsGone` | a deleted task comes back only by a save already past its check |
| | `SuccessIsTold` | a success was told to CI, crashes and double runs aside |
| | `EveryTaskEnds` | every accepted task ends, a full queue aside, and unless its own thread or all workers hang |
| `legacy_review` | `ContextIsOfItsCommit` | the diff reviewed is that of the commit reported |
| | `OverruledOnlyByTheDiff` | a blocking finding is passed over only for want of files in the diff |
| | `ErrorsGiveNoVerdict` | an answer that is or holds an error event ends the run without a verdict, as does one of a failed repair; failed attempts are not looked at |
| | `SilenceIsAskedTwice` | an announcement without a result passes only after two answered attempts, both of them announcements that were repaired |
| | `EveryRunEnds` | a run ends unless its own prompt, its git command, or that of the run whose lock it waits for, never ends |
| `legacy_feedback` | `PendingIsServed` | what the file says is processed is with a thread or queue |
| | `RecordFollowsFile` | the record and the file agree about the review |
| | `PassIsHeard` | CI hears of a pass by feedback |
| | `ClosedStaysClosed` | a closed session stays closed |

The exceptions of the legacy properties (a stale write, a full queue, a restart) are
conjuncts of the definitions, each recorded by a history variable that only the step in
question sets, or by a program counter (`hung`).

### Bounds

Why the bounds suffice for the questions: tasks interact only through the claim
order, hence one task for everything but `lifecycle_queue`. Two daemons are enough for
an old and a new executor of one task. Two attempts separate the recovery that
requeues from the one that gives up; one requeue reaches the row in every state; the
crash count only limits how often a daemon is lost. Three comments on two findings
are two threads racing on the last findings and a third that comes late. Timers,
sizes and identities are abstracted, so larger values of the settings change counts
and not cases. `MaxRequeues`, `MaxCrashes`, `MaxAcks` and `MaxRestarts` bound what the
environment does; `created` in `TaskLifecycle` needs no bound since it only grows by a
submission.

In `review_workflow` the pool of two is smaller than the plan of a full review, so a
reviewer waits while others fail or meet a control; two requests are a stop and a
requeue, or a requeue and a cancel, at any two places. Two attempts let a crashed run
be followed by one that finds its rows; the single daemon is a condition of
`VerdictIsBacked` (section 6). Three findings are two duplicates and one that is
rejected, in every order. Three models are enough for a refusing provider around
another one; the timeouts are distinct and small, since only their order is compared.
One task and two workers show every way in which the sweep, a retry and a restart meet,
since tasks meet in the queue alone and a full queue is a choice. Two runs share a
directory; a third would do what one of them does. One element per list of the feedback
file suffices since writers of one list and of different lists behave alike; two fix
threads are needed for two jobs of one session.

Deadlock is checked in the runs of `TaskLifecycle` (but `lifecycle_queue`, whose only
daemon may hang for good), `CallbackDelivery`, `FindingFeedback` and `OpenCodeTurn`. The
other systems may stop: all runs have ended or hang, no request is left, and the bounds
forbid more.

### Fairness

* Daemon steps are weakly fair, restarts included: `ops/supervisor/cr_agent_daemon.conf`
  restarts a process that exits.
* No git command has a timeout: `git_client.py:462-489` waits until the process exits (v2
  gives it no cancellation either), `review_v2/context.py:219` and
  `feedback_patterns.py:130,227,239` wait for theirs. So wherever a thread or daemon runs
  one, a step into `hung` or `stuck` competes with its fair steps, and no fairness leads
  out of it. The liveness properties say what they then claim: in v2 that everything
  settles unless *all* daemons hang, since another daemon recovers the task of one that does.
* The end of a stage (`Conclude`) is strongly fair, for stages that do not hang: a turn ends by
  its timeouts, which `OpenCodeTurn` shows (`EveryTurnEnds`), but polling for a control
  interrupts it again and again. A review in `CallbackDelivery` ends for the same reason.
* Time passes: leases expire, retry times come.
* A daemon delivering a callback is weakly fair at each of its steps; whether a post
  is acknowledged is not assumed.
* The loop of a turn is weakly fair: it polls with a timeout and never blocks. Nothing is
  assumed of the process, nor that anyone cancels.
* Legacy: worker threads, the recovery thread and the supervisor are weakly fair; the
  callback has a timeout (`core/callback.py`), the queue is first in, first out, hence each
  task's `Pick` is strongly fair. Neither a git command nor a prompt is sure to end, its
  kill included: `Hang` in `LegacyService`, `hung` in `LegacyReview` are absorbing, and
  `EveryTaskEnds` and `EveryRunEnds` name them.
* `ReviewWorkflow` and `LegacyFeedback` are checked for safety only.
* Nothing is assumed of operators, submissions, comments, acknowledgements, crashes.

## 4. Proofs

TLAPS checks the following for every value of the constants, under the assumptions
named in the modules. Most of those say that limits are natural numbers and that null
values, threads and elements are distinct. The ones that say more: `ServiceAssumption`
(finitely many workers, so that they can be counted), `RulesAssumption` (the reviewers of a
full review are distinct and the specialists are none of the base reviewers; both hold of
the tables of `risk.py`), `WorkflowAssumption` (a change has finitely many files and they
call for specialists only, and their figures are numbers; a diff names its file and its
hunk before an added line), `CheckoutAssumption` ("none", the absent remote, is no URL and
no branch). Every safety invariant and action property of the runs is a theorem.

Each proof rests on an inductive invariant, named below, of which TLC has found no
violation on the instance of the run.

* `TaskLifecycle_proofs`: `TypeCorrect`, `RetryBudgetCorrect`, `RunningCorrect`,
  `ClaimsReleased`, `ControlsHonoured`. `RetryBudget` alone is not inductive, since a
  claim counts an attempt without looking at the limit. `LifecycleInv` adds
  `QueuedHasBudget` (a queued task has a hand-out left: recovery queues only below the
  limit, a requeue pays for one), `QueuedIsFree`, and the ties between program
  counters and tasks that make the late writers land on rows that exist. The proof
  first reduces every step to what it can do to one row (`RowStep`), then treats each
  transaction once.
  `ContractImplemented` is the refinement: the initial state maps to the initial state
  of `TaskContract`, every step to one of its steps or to a stutter. It needs
  `NamedTasksExist`: whoever is about to write a row names one that was submitted, and a
  row not yet there was never handed out. `OldestFirstCorrect` is about `QueueSpec`, the
  system without operators; a running task was handed out (`RunningWasHandedOut`), so a
  recovered one does not count as new.
* `CallbackDelivery_proofs`: with one daemon, `TypeCorrect`, `AttemptsCorrect` and `DigestCorrect`;
  without acknowledgements also `ReviewReachesCICorrect`. The invariant says that a
  callback in hand is still scheduled and has budget left, and that a post that was
  answered is what CI heard last; `LoadedIsCurrent` adds that it reports the verdict
  of the row. Steps fall into four classes, each a lemma: those that leave the
  callback columns alone (`KeptStep`), those that schedule a new callback
  (`ScheduledStep`), posts (`PostStep`) and recordings (`RecordStep`). The restriction
  to one daemon is needed: with two, both post and the slower one's record wins.
* `FindingFeedback_proofs`: `TypeCorrect`, `LastResolutionCorrect`, `FindingsStayResolved`. The
  strengthening is that a thread about to resolve has a finding, that only a review
  under way has findings to persist, and that one which has persisted some, none of
  them resolved early, has left one open.
* `ReviewWorkflow_proofs`: `ControlCorrect`, `SettledCorrect` and `RejectionCorrect` for any
  number of daemons, from `WorkflowInv`: outside of the fan-out nobody remembers a
  control unless the run is ending on it, and a run about to fail the gate has
  stored a finding. `VerdictCorrect` is for one daemon (section 6 says why) and needs
  `VerdictInv`, which carries what a verdict rests on from the context through the pool
  to the row, and `PlanCoversCalled`, a lemma about `plan_reviewers`. These
  four leave open what `normalize` keeps of a report. `StrongestCorrect` and
  `ChangedLinesCorrect` are about what two loops compute, for inputs of any length. The
  loops are folds; `CollectUnfolds`, `NormalizeUnfolds` and `LinesUnfold` show that there is a
  function on sets of places that satisfies the fold's equation (`FoldExists`), and
  `PlacesInduction`, from the well-foundedness of the naturals, is induction on the places a
  loop has passed. The loop invariants are `KeepsStrongest` (of every key seen, one finding,
  and no stronger one was seen) and `Reads` (the file, the line of the new file and the added
  lines so far). `ReportsGiven` ties the first to the runs: whoever stores findings holds a
  report of the judge. `TypeCorrect` needs that the figures of a context are numbers
  (`SumExists`, `SumTyped`: a sum in an order of the library's choice, by induction on the
  number of files) and that what is kept of a report are candidates.
* `OpenCodeTurn_proofs`: `CompletedCorrect`, `RefusedCorrect`, `FallbackCorrect`, from
  `TurnInv`: all attempts before the present one failed in a way that warrants another
  model, the provider is left exactly if it refused one of them, and a loop that gives up
  on a stream has recorded why. What the selections keep of the chain is left open: `SelectSeq` has no
  definition for the prover, so `TypeOK` of this module is no theorem.
* `LegacyService_proofs`: `QueuedCorrect`, `PaidCorrect`, `DeletedCorrect`, `ToldCorrect`.
  The invariant has a part for each thread (`threadInv`) and one for each task
  (`taskInv`), and `StepAboutATask` shows that a step of one thread on one task has to keep
  only those. To count runs, the threads that hold a task and those whose work will cost
  it an attempt are sets (`holders`, `claimants`) that a step changes by one thread at most.
* `LegacyReview_proofs`: `ContextCorrect`, `OverruledCorrect`, `ErrorsCorrect`,
  `SilenceCorrect`. `GitInv` says that the commands under the lock prepare each other:
  what the holder has fetched and switched to is of its branch. `ReviewInv` ties the
  attempts to the git part: a run that goes on has met no error event in an answer, and an
  announcement under repair is the first of its kind, or the second after a repeat.
  `ErrorsCorrect` is about the answers the code parses, and the outputs of repairs; that of
  a failed attempt it never sees. `SilenceCorrect` counts answered attempts and so holds for
  every value of the two retry settings.
* `LegacyFeedback_proofs`: `TypeCorrect`, `PendingCorrect`, `RecordCorrect`, `PassCorrect`, `ClosedCorrect`.
  Nothing can be said of what the writers will put into the file, so `Inv` says what
  they hold: where each can be (`place`), how it has changed its element (`change`), and
  how that relates to what it loaded (`respect`). A write that undoes no change then
  alters one element, in a way that is allowed (`Written`).

The lemmas on the transactions of `ReviewDB` stand in each of the modules that need them.

Only model-checked:

* Liveness (`EveryTaskSettles`, `EveryCallbackSettles`, `EveryTaskEnds`, `EveryRunEnds`,
  `EveryTurnEnds`): the prover treats neither fairness nor ENABLED.

The abstraction of the code into actions is not proved but read; `PROJECT.json` gives
the lines.

## 5. Plan

Every component with a state of its own has its module, and every safety property of a run
that is within the prover's reach its theorem. What is left:

1. `ReviewRules`: lemmas about the tiers (which figures make a change `full` or `light`)
   and about the guard.
2. `TypeOK` of `OpenCodeTurn` as a theorem, with the selections written as folds, which
   the lemmas of `ReviewWorkflow_proofs` reach.
3. An abstract specification of the feedback file with a lock, which `LegacyFeedback`
   implements as long as nothing is lost.

## 6. What the runs found

* `callback_lost`: an acknowledgement during a delivery is overwritten by the record
  of the old verdict; CI never hears of the pass that `docs/design-cr-v2-cloudflare-reuse.md:814`
  promises.

Further divergences that the models show, most of them by a property one can add to a
configuration; no run is spent on them. *design* and *spec* are
`docs/design-cr-v2-cloudflare-reuse.md` and `docs/spec-cr-v2-cloudflare-reuse.md`.

Tasks and operators

* The lease is never renewed. A review longer than `review_v2_daemon_lease_seconds`
  (300 s by default) is recovered and claimed again while it still runs; spec `:514`
  excludes this. Both then write the rows of `wf1`, attempt 1, so with two daemons
  `VerdictIsBacked` (spec `:519-521`) fails too.
* A cancel between the last control check and the outcome is overwritten by the
  verdict; `operation.md:126` says a cancel acts at once.
* A requeue while a run is being halted is undone by the halt.
* Cancelled, stopped and given-up tasks never schedule a callback, contrary to design
  `:268` and `:783`.
* A requeue keeps the callback of the earlier verdict scheduled, so it may be sent
  while the task waits or runs again, as "not passed" (design `:1037`).
* The digest is compared only in a state a due callback is never in, so it prevents
  no duplicate (design `:1003`).
* Rounds of `callback_retry_times + 1` posts are themselves repeated
  `review_v2_callback_max_attempts` times; design `:1039` allows one such round.

Findings and feedback

* A finding persisted between a thread's count and its outcome leaves a passed task
  with an open finding (design `:814`).
* Resolving the findings of a cancelled or incomplete task makes it passed, which
  design `:816` rules out.
* Two comments on one finding share a prompt file; the session of the first may answer
  the second (design `:809`).
* `finding_id` is a primary key over all tasks: a rerun, or another task with the same
  finding, ends incomplete.

Rules

* `_changed_lines` takes a removed line that begins with `--` (a comment of SQL, for
  one) for a header and counts it as a line of the new file, so that later lines of
  the hunk are one off; it does the same with `\ No newline at end of file`, and leaves
  out added lines that begin with `++`. Spec `:384` says `changed_lines.json` holds
  the added or changed line numbers. A finding on such a line is rejected, one on a
  wrong line accepted. `ChangedLinesAreAdded` excludes these diffs (`ordinary`).
* git quotes paths with other than ASCII characters; their suffix then ends in a
  quotation mark, so the file counts as unsupported and is not reviewed, and its lines
  in the diff are counted for the file before it.
* Any specialist trigger makes the tier `full`, so a `standard` change never has the
  optional specialists of design `:292`; optional reviewers do not occur.
* An anchor in a file outside the diff is accepted (design `:318` rejects it as
  `needs_evidence`), and nothing checks that the judge accounted for every finding of
  a required reviewer.

Turns

* The last candidate is never marked unhealthy (`opencode_process.py:155`, design
  `:477`). The tokens of failed attempts are dropped and no history of the fallback is
  kept (design `:470`).
* A process that ended while a child of it holds its pipes is reported as a timeout.
* An I/O error between a reviewer's turn and its record leaves the row `running`.

* A git command that hangs takes its daemon away for good: a cancel does not reach it, the
  task is recovered by another daemon if there is one, and the supervisor sees a live process.

Legacy service

* A prompt that is killed by its timeout or a cancel may keep its thread for ever, with the
  task `running`: the signal reaches the shell, the wait after it has no limit. A hanging
  git command keeps the lock of the repository too, unless the run is cancelled.
* A non-zero exit of opencode is retried without a look at its output; an error event there,
  or in a JSON array, may be followed by a verdict.
* A task deleted between the end of its review and its save still sends its callback.
* A full queue leaves a record that says queued and is in no queue until the next
  restart; an identical request is answered with it.
* A task of which the sweep read an old record may run twice at once.
* A feedback file loses changes when two writers overlap; with a full queue, or after a
  restart, an element stays `processing` for good.
* Runs of two repositories of one name share a directory, and without an access token
  `origin` stays that of the first.

## 7. Not modelled

Text, pages, prompts, cost sums, static rule tables, the export of feedback patterns,
usage statistics, authentication, and the git and OpenCode programs themselves. SQLite
is taken at its word: transactions are atomic, isolated and do not fail. Heartbeats and
task events are written and never read by a decision. The feedback file is written in
one step, although a crash may tear it; a start of the legacy service that finds more
unfinished records than its queue holds raises, and is left out, as is a second service
built by two first requests at once (`dependencies.py`). The output of a legacy model is
read only after its process ended, so a long one blocks until its timeout: that is one
of the causes of `PromptTimeout`. Each v2 workflow has a `GitClient`, and hence a
repository lock, of its own; what two of them do to one checkout is not modelled. The
reasons for each component are in `PROJECT.json`.
