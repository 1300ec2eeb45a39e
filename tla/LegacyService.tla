--------------------------- MODULE LegacyService ---------------------------
(***************************************************************************)
(* The in-process task service of core/service.py: requests become records *)
(* in a TaskStore (core/storage.py), their ids go through one bounded      *)
(* queue to the worker threads, and a recovery thread looks for running    *)
(* records that no worker has marked as its own.                           *)
(*                                                                         *)
(* The store hands out the one live object of a record: a thread changes   *)
(* the object first, which everybody sees, and saves it afterwards.  A     *)
(* save looks whether the task was deleted and then writes what the object *)
(* says by then: three steps here, with others in between.                 *)
(*                                                                         *)
(* Task ids are fresh uuids.  All requests are for one branch without a    *)
(* commit, the case in which submissions compete.  Apart from that, tasks  *)
(* meet only in the queue, so it is kept as the number of entries of each  *)
(* task, and a put may find it full of other tasks' entries at any time.   *)
(***************************************************************************)
EXTENDS Naturals, FiniteSets

CONSTANTS Tasks, NoTask,
          Workers,       \* Settings.worker_threads
          Sweeper,       \* the recovery thread
          MaxAttempts,   \* Settings.max_task_attempts
          MaxRestarts    \* bound on crashes of the process

ASSUME ServiceAssumption ==
  /\ NoTask \notin Tasks
  /\ Sweeper \notin Workers /\ IsFiniteSet(Workers)
  /\ MaxAttempts \in Nat \ {0}
  /\ MaxRestarts \in Nat

VARIABLES
  record,   \* the live object of each task
  disk,     \* runtime/tasks/<task_id>.json
  queue,    \* TaskService._queue: the entries of each task
  active,   \* TaskService._active_tasks
  deleted,  \* TaskService._deleted_tasks (and _cancelled_tasks)
  thread,   \* what each worker and the recovery thread are doing
  deleting, \* tasks the admin API found running and is about to delete
  up,       \* the process runs
  restarts,
  heard,    \* the verdict CI heard last (environment)
  sweeps,   \* history: how often the sweep put a task back into the queue
  refused,  \* history: tasks a full queue turned away
  raced,    \* history: tasks deleted between the check and the write of a save
  untold    \* history: finished tasks whose callback a crash prevented

store == <<record, disk>>
process == <<queue, active, deleted, thread, deleting, up, restarts>>
history == <<sweeps, refused, raced, untold>>
vars == <<store, process, heard, history>>

Threads == Workers \cup {Sweeper}
Finished == {"success", "failed"}
InFlight == {"queued", "running"}
Verdicts == {"passed", "rejected"}

\* started_at is absent, or younger or older than orphan_task_timeout_seconds;
\* told is callback_payload_digest once callback_succeeded is set.  A record
\* that is gone was deleted: its id is not given again.
Record == [status: InFlight \cup Finished \cup {"absent", "gone"}, attempts: Nat,
           started: {"none", "recent", "long"}, resolved: BOOLEAN,
           told: Verdicts \cup {"none"}]

NoRecord == [status |-> "absent", attempts |-> 0, started |-> "none",
             resolved |-> FALSE, told |-> "none"]
Gone == [NoRecord EXCEPT !.status = "gone"]

\* What the recovery thread has found out about a record, and decided.
Sweeping == {"judge", "age", "recover", "give up", "requeue"}
Pcs == {"idle", "picked", "checkout", "analyse", "callback", "enqueue",
        "unmark", "hung", "dead"} \cup Sweeping

\* pc "save": the object is changed; "write": the check of the save is passed;
\* then: where the thread goes after it.
Thread == [pc: Pcs \cup {"save", "write"}, task: Tasks \cup {NoTask}, then: Pcs,
           verdict: Verdicts]

Idle == [pc |-> "idle", task |-> NoTask, then |-> "idle", verdict |-> "passed"]

listed(t) == disk[t].status \notin {"absent", "gone"}
mine(p) == thread[p].task

Init ==
  /\ record = [t \in Tasks |-> NoRecord]
  /\ disk = record
  /\ queue = [t \in Tasks |-> 0]
  /\ active = {} /\ deleted = {} /\ deleting = {}
  /\ thread = [p \in Threads |-> Idle]
  /\ up = TRUE
  /\ restarts = 0
  /\ heard = [t \in Tasks |-> "none"]
  /\ sweeps = [t \in Tasks |-> 0]
  /\ refused = {} /\ raced = {} /\ untold = {}

-----------------------------------------------------------------------------
(* Saving: check, then write.                                              *)

\* _save_record, called with the object changed; next is where p goes after it.
_save_record(p, next) ==
  thread' = [thread EXCEPT ![p].pc = "save", ![p].then = next]

\* A thread whose save is done, or dropped.
saved(v) == IF v.then = "idle" THEN Idle ELSE [v EXCEPT !.pc = v.then, !.then = "idle"]

Save_unchecked(p) ==
  /\ thread[p].pc = "save"
  /\ thread' = [thread EXCEPT ![p].pc = "write"]
  /\ UNCHANGED <<store, queue, active, deleted, deleting, up, restarts, heard, history>>

\* The save of a deleted task is dropped, and the thread goes on.
Save(p) ==
  /\ thread[p].pc = "save"
  /\ thread' = [thread EXCEPT ![p] = IF mine(p) \in deleted THEN saved(@)
                                     ELSE [@ EXCEPT !.pc = "write"]]
  /\ UNCHANGED <<store, queue, active, deleted, deleting, up, restarts, heard, history>>

Write(p) ==
  /\ thread[p].pc = "write"
  /\ disk' = [disk EXCEPT ![mine(p)] = record[mine(p)]]
  /\ thread' = [thread EXCEPT ![p] = saved(@)]
  /\ UNCHANGED <<record, queue, active, deleted, deleting, up, restarts,
                 heard, history>>

_enqueue_task_silently(t) ==
  \/ queue' = [queue EXCEPT ![t] = @ + 1] /\ UNCHANGED refused
  \/ UNCHANGED <<queue, refused>>

\* put_nowait, or the error that the queue is full.
_enqueue_task(t) ==
  \/ queue' = [queue EXCEPT ![t] = @ + 1] /\ UNCHANGED refused
  \/ UNCHANGED queue /\ refused' = refused \cup {t}

-----------------------------------------------------------------------------
(* Submission, under the submit lock.  A record counts as the same request *)
(* until a worker has resolved its commit, which changes its key.          *)

_find_inflight_duplicate(t) ==
  listed(t) /\ record[t].status \in InFlight /\ ~record[t].resolved

\* A full queue raises after the record was saved: the caller gets an error.
Submit(t) ==
  /\ up
  /\ record[t].status = "absent" /\ disk[t].status = "absent"
  /\ \A u \in Tasks : ~_find_inflight_duplicate(u)
  /\ record' = [record EXCEPT ![t] = [NoRecord EXCEPT !.status = "queued"]]
  /\ disk' = [disk EXCEPT ![t] = record'[t]]
  /\ _enqueue_task(t)
  /\ UNCHANGED <<active, deleted, thread, deleting, up, restarts, heard,
                 sweeps, raced, untold>>

-----------------------------------------------------------------------------
(* The worker threads.                                                     *)

Pick(w, t) ==
  /\ up
  /\ thread[w].pc = "idle"
  /\ queue[t] > 0
  /\ queue' = [queue EXCEPT ![t] = @ - 1]
  /\ active' = active \cup {t}
  /\ thread' = [thread EXCEPT ![w] = [Idle EXCEPT !.pc = "picked", !.task = t]]
  /\ UNCHANGED <<store, deleted, deleting, up, restarts, heard, history>>

Start(w) ==
  LET t == mine(w) IN
  /\ thread[w].pc = "picked"
  /\ IF listed(t) /\ t \notin deleted
     THEN /\ record' = [record EXCEPT ![t].status = "running",
                                      ![t].started = "recent",
                                      ![t].attempts = @ + 1]
          /\ _save_record(w, "checkout")
     ELSE /\ thread' = [thread EXCEPT ![w].pc = "unmark"]
          /\ UNCHANGED record
  /\ UNCHANGED <<disk, queue, active, deleted, deleting, up, restarts,
                 heard, history>>

\* The checkout resolves the commit of a request that names none.
Checkout(w) ==
  /\ thread[w].pc = "checkout"
  /\ record' = [record EXCEPT ![mine(w)].resolved = TRUE]
  /\ IF record[mine(w)].resolved
     THEN thread' = [thread EXCEPT ![w].pc = "analyse"]
     ELSE _save_record(w, "analyse")
  /\ UNCHANGED <<disk, queue, active, deleted, deleting, up, restarts,
                 heard, history>>

\* A finished analysis of a deleted task is dropped.  One that is deleted while
\* its report is written is not saved either, but its callback is sent.
Finish(w) ==
  /\ thread[w].pc = "analyse"
  /\ mine(w) \notin deleted
  /\ \E v \in Verdicts :
       /\ record' = [record EXCEPT ![mine(w)].status =
                       IF v = "passed" THEN "success" ELSE "failed"]
       /\ thread' = [thread EXCEPT ![w].pc = "save", ![w].then = "callback",
                                   ![w].verdict = v]
  /\ UNCHANGED <<disk, queue, active, deleted, deleting, up, restarts,
                 heard, history>>

-----------------------------------------------------------------------------
(* The callback after a run.  The digest stands for the verdict; another   *)
(* score or number of findings may change it too.                          *)

CallbackSkipped(w) ==
  /\ thread[w].pc = "callback"
  /\ record[mine(w)].told = thread[w].verdict
  /\ thread' = [thread EXCEPT ![w].pc = "unmark"]
  /\ UNCHANGED <<store, queue, active, deleted, deleting, up, restarts,
                 heard, history>>

CallbackAcknowledged(w) ==
  /\ thread[w].pc = "callback"
  /\ heard' = [heard EXCEPT ![mine(w)] = thread[w].verdict]
  /\ record' = [record EXCEPT ![mine(w)].told = thread[w].verdict]
  /\ _save_record(w, "unmark")
  /\ UNCHANGED <<disk, queue, active, deleted, deleting, up, restarts,
                 history>>

\* The exception handler of _run_task, for anything but an opencode timeout.
fail(w) ==
  IF mine(w) \in deleted
  THEN /\ thread' = [thread EXCEPT ![w].pc = "unmark"]
       /\ UNCHANGED record
  ELSE /\ record' = [record EXCEPT ![mine(w)].status = "failed"]
       /\ _save_record(w, "unmark")

CallbackFails_is_ignored(w) ==
  /\ thread[w].pc = "callback"
  /\ thread' = [thread EXCEPT ![w].pc = "unmark"]
  /\ UNCHANGED <<store, queue, active, deleted, deleting, up, restarts,
                 heard, history>>

\* Every post of the round failed, whether or not one of them reached CI, or
\* the request names no callback target.
CallbackFails(w) ==
  /\ thread[w].pc = "callback"
  /\ \E h \in {heard[mine(w)], thread[w].verdict} :
       heard' = [heard EXCEPT ![mine(w)] = h]
  /\ fail(w)
  /\ UNCHANGED <<disk, queue, active, deleted, deleting, up, restarts,
                 history>>

\* git, the model's output or the report failed; or the run was cancelled.
Fail(w) ==
  /\ thread[w].pc \in {"checkout", "analyse"}
  /\ fail(w)
  /\ UNCHANGED <<disk, queue, active, deleted, deleting, up, restarts,
                 heard, history>>

\* A git command or a prompt that never ends, or the wait for the lock of the
\* repository, which such a command holds.
Hang(w) ==
  /\ thread[w].pc \in {"checkout", "analyse"}
  /\ thread' = [thread EXCEPT ![w].pc = "hung"]
  /\ UNCHANGED <<store, queue, active, deleted, deleting, up, restarts, heard, history>>

\* The deletion of the task ends a git command, not a prompt whose pipes stay
\* open and not the wait for the lock.
Freed(w) ==
  /\ thread[w].pc = "hung" /\ mine(w) \in deleted
  /\ thread' = [thread EXCEPT ![w].pc = "unmark"]
  /\ UNCHANGED <<store, queue, active, deleted, deleting, up, restarts, heard, history>>

-----------------------------------------------------------------------------
(* Retries.                                                                *)

back_to_queue(r) == [r EXCEPT !.status = "queued", !.started = "none"]

\* An opencode timeout puts the task back, until its attempts are used up.
Timeout(w) ==
  LET t == mine(w) IN
  /\ thread[w].pc = "analyse"
  /\ t \notin deleted
  /\ record[t].attempts < MaxAttempts
  /\ record' = [record EXCEPT ![t] = back_to_queue(@)]
  /\ _save_record(w, "enqueue")
  /\ UNCHANGED <<disk, queue, active, deleted, deleting, up, restarts,
                 heard, history>>

\* The id is queued while the task still carries this worker's mark.
Enqueue(w) ==
  /\ thread[w].pc = "enqueue"
  /\ thread' = [thread EXCEPT ![w].pc = "unmark"]
  /\ _enqueue_task(mine(w))
  /\ UNCHANGED <<store, active, deleted, deleting, up, restarts, heard,
                 sweeps, raced, untold>>

\* _active_tasks is a set: this may take the mark of another worker away.
Unmark(w) ==
  /\ thread[w].pc = "unmark"
  /\ active' = active \ {mine(w)}
  /\ thread' = [thread EXCEPT ![w] = Idle]
  /\ UNCHANGED <<store, queue, deleted, deleting, up, restarts, heard,
                 history>>

-----------------------------------------------------------------------------
(* The recovery thread, one record of a pass: the status, whether the task *)
(* is marked, the age and the attempts are read one after the other, then  *)
(* the record is recovered, whatever a worker has made of it by then.      *)

SweepLook(t) ==
  /\ up
  /\ thread[Sweeper].pc = "idle"
  /\ listed(t) /\ record[t].status = "running"
  /\ thread' = [thread EXCEPT ![Sweeper].pc = "judge", ![Sweeper].task = t]
  /\ UNCHANGED <<store, queue, active, deleted, deleting, up, restarts, heard,
                 history>>

\* The recovery thread goes from one test to the next, or leaves the record.
judged(pc, next, leave) ==
  /\ thread[Sweeper].pc = pc
  /\ thread' = [thread EXCEPT ![Sweeper] = IF leave THEN Idle ELSE [@ EXCEPT !.pc = next]]
  /\ UNCHANGED <<store, queue, active, deleted, deleting, up, restarts, heard, history>>

SweepActive == judged("judge", "age", mine(Sweeper) \in active)
SweepAge == judged("age", "recover", record[mine(Sweeper)].started = "recent")
SweepAttempts ==
  judged("recover", IF record[mine(Sweeper)].attempts >= MaxAttempts THEN "give up" ELSE "requeue",
         FALSE)

SweepGivesUp ==
  /\ thread[Sweeper].pc = "give up"
  /\ record' = [record EXCEPT ![mine(Sweeper)].status = "failed"]
  /\ _save_record(Sweeper, "idle")
  /\ UNCHANGED <<disk, queue, active, deleted, deleting, up, restarts, heard, history>>

SweepRequeues ==
  LET t == mine(Sweeper) IN
  /\ thread[Sweeper].pc = "requeue"
  /\ record' = [record EXCEPT ![t] = back_to_queue(@)]
  /\ sweeps' = [sweeps EXCEPT ![t] = @ + 1]
  /\ _save_record(Sweeper, "enqueue")
  /\ UNCHANGED <<disk, queue, active, deleted, deleting, up, restarts,
                 heard, refused, raced, untold>>

\* Nothing catches the error of a full queue here: the thread ends.
SweepEnqueue ==
  /\ thread[Sweeper].pc = "enqueue"
  /\ _enqueue_task(mine(Sweeper))
  /\ thread' = [thread EXCEPT ![Sweeper] =
                  [Idle EXCEPT !.pc = IF queue' = queue THEN "dead" ELSE "idle"]]
  /\ UNCHANGED <<store, active, deleted, deleting, up, restarts, heard,
                 sweeps, raced, untold>>

-----------------------------------------------------------------------------
(* The admin API deletes the tasks it finds running.                       *)

list_running_tasks == {t \in Tasks : listed(t) /\ record[t].status = "running"}

FindRunning ==
  /\ up
  /\ deleting = {}
  /\ list_running_tasks # {}
  /\ deleting' = list_running_tasks
  /\ UNCHANGED <<store, queue, active, deleted, thread, up, restarts,
                 heard, history>>

Delete(t) ==
  /\ t \in deleting
  /\ deleting' = deleting \ {t}
  /\ deleted' = deleted \cup {t}
  /\ disk' = [disk EXCEPT ![t] = Gone]
  /\ raced' = IF \E p \in Threads : thread[p].pc = "write" /\ mine(p) = t
              THEN raced \cup {t} ELSE raced
  /\ UNCHANGED <<record, queue, active, thread, up, restarts, heard,
                 sweeps, refused, untold>>

-----------------------------------------------------------------------------
(* The process ends and starts again from the files.                       *)

Crash ==
  /\ up
  /\ restarts < MaxRestarts
  /\ restarts' = restarts + 1
  /\ up' = FALSE
  /\ record' = disk
  /\ queue' = [t \in Tasks |-> 0] /\ active' = {} /\ deleted' = {} /\ deleting' = {}
  /\ thread' = [p \in Threads |-> Idle]
  /\ untold' = untold \cup {mine(w) : w \in {v \in Workers :
                 thread[v].pc = "callback" \/ thread[v].then \in {"callback", "unmark"}}}
  /\ UNCHANGED <<disk, heard, sweeps, refused, raced>>

recovered_once_more(r) ==
  IF r.status # "running" THEN r
  ELSE IF r.attempts > MaxAttempts THEN [r EXCEPT !.status = "failed"]
  ELSE back_to_queue(r)

\* _recover_record at the start: nothing runs yet that could be asked.
recovered(r) ==
  IF r.status # "running" THEN r
  ELSE IF r.attempts >= MaxAttempts THEN [r EXCEPT !.status = "failed"]
  ELSE back_to_queue(r)

pending_ran(t) ==
  disk[t].status = "running" /\ recovered(disk[t]).status = "queued"

pending(t) == recovered(disk[t]).status = "queued"

\* The workers run before the scan ends, but each record is visited once.  A
\* start whose scan overflows the queue is left out.
Restart ==
  /\ ~up
  /\ up' = TRUE
  /\ disk' = [t \in Tasks |-> recovered(disk[t])]
  /\ record' = disk'
  /\ queue' = [t \in Tasks |-> IF pending(t) THEN 1 ELSE 0]
  /\ refused' = refused \ {t \in Tasks : pending(t)}
  /\ UNCHANGED <<active, deleted, thread, deleting, restarts, heard,
                 sweeps, raced, untold>>

\* A run takes longer than orphan_task_timeout_seconds.
RunGetsOld(t) ==
  /\ up /\ record[t].status = "running" /\ record[t].started = "recent"
  /\ record' = [record EXCEPT ![t].started = "long"]
  /\ UNCHANGED <<disk, process, heard, history>>

-----------------------------------------------------------------------------
Callback(w) == CallbackSkipped(w) \/ CallbackAcknowledged(w) \/ CallbackFails(w)
Conclude(w) == Finish(w) \/ Fail(w) \/ Timeout(w) \/ Hang(w)
Worker(w) == \/ Start(w) \/ Checkout(w) \/ Conclude(w)
             \/ Callback(w) \/ Enqueue(w) \/ Unmark(w) \/ Save(w) \/ Write(w)
Sweep == \/ SweepActive \/ SweepAge \/ SweepAttempts \/ SweepGivesUp \/ SweepRequeues
         \/ SweepEnqueue \/ Save(Sweeper) \/ Write(Sweeper)
         \/ \E t \in Tasks : SweepLook(t)

Next ==
  \/ \E w \in Workers : Worker(w) \/ Freed(w) \/ \E t \in Tasks : Pick(w, t)
  \/ Sweep
  \/ \E t \in Tasks : Submit(t) \/ Delete(t) \/ RunGetsOld(t)
  \/ FindRunning \/ Crash \/ Restart

Spec == Init /\ [][Next]_vars

(* A worker thread keeps going: the callback has a timeout, and git, the    *)
(* lock or the model may take the step into "hung", out of which nothing is *)
(* assumed to come.  The recovery thread goes through with what it began,   *)
(* and the process is restarted.  The queue is first in, first out, hence   *)
(* strong fairness for each pick.  Nothing is assumed of callers and admins.*)
FairSpec == Spec /\ WF_vars(Restart) /\ WF_vars(Sweep) /\
  \A w \in Workers : WF_vars(Worker(w)) /\ \A t \in Tasks : SF_vars(Pick(w, t))

-----------------------------------------------------------------------------
(* Properties.                                                             *)

(* Every record, thread and history variable holds a value of its kind.    *)
TypeOK ==
  /\ record \in [Tasks -> Record] /\ disk \in [Tasks -> Record]
  /\ queue \in [Tasks -> Nat]
  /\ active \subseteq Tasks /\ deleted \subseteq Tasks
  /\ thread \in [Threads -> Thread]
  /\ deleting \subseteq Tasks
  /\ up \in BOOLEAN /\ restarts \in Nat
  /\ heard \in [Tasks -> Verdicts \cup {"none"}]
  /\ sweeps \in [Tasks -> Nat]
  /\ refused \subseteq Tasks /\ raced \subseteq Tasks /\ untold \subseteq Tasks

\* Threads that will put t into the queue, and those that run it or will.
enqueuers(t) == {p \in Threads : mine(p) = t /\ "enqueue" \in {thread[p].pc, thread[p].then}}
picked(t) == {w \in Workers : mine(w) = t /\ thread[w].pc = "picked"}
running(t) == {w \in Workers : mine(w) = t /\
  ("unmark" \notin {thread[w].pc, thread[w].then} /\ thread[w].pc # "callback")}

idle(t) == queue[t] = 0 /\ enqueuers(t) = {} /\ \A w \in Workers : mine(w) # t

(* A queued record is in the queue, or in the hands of a thread that will  *)
(* put it there or has just taken it out, unless the queue was full or the *)
(* task deleted: no retry, sweep or restart forgets one.                   *)
QueuedIsServed ==
  up => \A t \in Tasks \ (deleted \cup refused) :
    listed(t) /\ record[t].status = "queued" =>
      queue[t] > 0 \/ enqueuers(t) \cup picked(t) # {}

tickets(t) == queue[t] + Cardinality(enqueuers(t)) + Cardinality(picked(t))

(* A task is run by one thread and max_task_attempts times, and beyond     *)
(* that only once for each time the sweep mistook it for an orphan.        *)
(* Nothing looks at the attempts or the status when a worker starts.       *)
RunsArePaid ==
  \A t \in Tasks :
    /\ queue[t] + Cardinality(running(t) \cup enqueuers(t)) <= 1 + sweeps[t]
    /\ record[t].attempts + tickets(t) <= MaxAttempts + sweeps[t]

(* A deleted task is gone from the disk while the process lives, unless a  *)
(* save had passed its check when the deletion came.                       *)
DeletedIsGone == \A t \in deleted \ raced : ~listed(t)

(* A task that ended as a success and is not worked on has told CI that it *)
(* passed, unless a crash came between its last save and its callback or   *)
(* the sweep made two threads run it.                                      *)
SuccessIsTold ==
  \A t \in Tasks \ (untold \cup deleted \cup raced) :
    listed(t) /\ record[t].status = "success" /\ idle(t) /\ sweeps[t] = 0
      => heard[t] = "passed"

\* A worker hangs with t, or all do and nobody serves the queue.
stuck(t) == \/ \E w \in Workers : mine(w) = t /\ thread[w].pc = "hung"
            \/ \A w \in Workers : thread[w].pc = "hung"

(* Every accepted task ends or is deleted, unless a full queue turned it   *)
(* away: then it stays queued until the next restart; or a worker hangs    *)
(* with it, or every worker with some task: then it waits for a restart.   *)
EveryTaskEnds ==
  \A t \in Tasks :
    (listed(t) /\ record[t].status \in InFlight)
      ~> (\/ ~listed(t) \/ t \in deleted \cup refused
          \/ record[t].status \in Finished \/ stuck(t))
=============================================================================
