------------------------ MODULE TaskLifecycle_proofs ------------------------
(* Theorems on TaskLifecycle for every set of tasks and daemons and every  *)
(* bound.  LifecycleInv is inductive; the retry budget, the recoverability *)
(* of running rows and the release of claims follow from it.               *)
EXTENDS TaskLifecycle, TLAPS

USE LifecycleAssumption, NoDaemonAssumption

(* A new row is well typed.                                                *)
LEMMA CreateTyped == NoRow \in Row /\ create_task \in Row
BY DEF NoRow, create_task, Row, Statuses, Active, Terminal, Gates, ReviewGates,
       FailedGates, CallbackStates

(* A claimed row is well typed.                                            *)
LEMMA ClaimTyped ==
  ASSUME NEW r \in Row, NEW d \in Daemons
  PROVE  claim_task(r, d) \in Row
<1>1. r.attempts + 1 \in Nat
  BY DEF Row
<1>2. "running" \in Statuses
  BY DEF Statuses, Active
<1>3. QED
  BY <1>1, <1>2, Zenon DEF claim_task, Row

(* A row with an outcome is well typed, whatever the outcome was.          *)
LEMMA OutcomeTyped ==
  ASSUME NEW r \in Row, NEW notify \in BOOLEAN, NEW status \in Terminal,
         NEW gate \in Gates
  PROVE  update_task_outcome(r, notify, status, gate) \in Row
BY DEF update_task_outcome, Row, Statuses, CallbackStates

(* Operators and control requests leave well-typed rows.                   *)
LEMMA OperatorTyped ==
  ASSUME NEW r \in Row
  PROVE  cancel_row(r) \in Row /\ stop_row(r) \in Row /\ requeue_row(r) \in Row
<1>1. {"cancelled", "queued"} \subseteq Statuses /\ {"cancelled", "stopped", "null"} \subseteq Gates
  BY DEF Statuses, Active, Terminal, Gates
<1>2. cancel_row(r) \in Row
  BY <1>1 DEF cancel_row, Row
<1>3. stop_row(r) \in Row
  BY <1>1 DEF stop_row, Row
<1>4. requeue_row(r) \in Row
  BY <1>1 DEF requeue_row, Row
<1>5. QED
  BY <1>2, <1>3, <1>4

(* A recovered row is well typed.                                          *)
LEMMA RecoverTyped ==
  ASSUME NEW r \in Row, NEW max \in Nat
  PROVE  recover_row(r, max) \in Row
<1>1. {"failed", "queued"} \subseteq Statuses /\ "incomplete" \in Gates
  BY DEF Statuses, Active, Terminal, Gates, FailedGates
<1>2. CASE r.attempts >= max
  BY <1>1, <1>2 DEF recover_row, Row
<1>3. CASE ~(r.attempts >= max)
  BY <1>1, <1>3 DEF recover_row, Row
<1>4. QED
  BY <1>2, <1>3

(* Requests and acknowledgements keep the controls of a task well typed.   *)
LEMMA ControlTyped ==
  /\ NoControl \in Controls
  /\ \A c \in Controls : /\ acknowledge_stops(c) \in Controls
                         /\ \A a \in ControlActions : request_control(c, a) \in Controls
BY DEF NoControl, Controls, ControlActions, acknowledge_stops, request_control

(* The initial state satisfies the inductive invariant.                    *)
LEMMA InitInv == Init => LifecycleInv
<1> SUFFICES ASSUME Init PROVE LifecycleInv
  OBVIOUS
<1>1. TypeOK
  BY CreateTyped, ControlTyped DEF Init, TypeOK, Idle, Run, IdlePcs, RunPcs, Stages,
     Gates, ControlActions
<1>2. RetryBudget /\ QueuedHasBudget /\ RunningIsRecoverable /\ QueuedIsFree
  BY DEF Init, RetryBudget, QueuedHasBudget, RunningIsRecoverable, QueuedIsFree, NoRow
<1>3. RunsNameTasks /\ NamedTasksExist
  BY DEF Init, RunsNameTasks, executing, Idle, RunPcs, NamedTasksExist, NoRow
<1>4. QED
  BY <1>1, <1>2, <1>3 DEF LifecycleInv

(* A daemon that goes idle is well typed and names no task.                *)
LEMMA IdleTyped ==
  ASSUME NEW pc \in IdlePcs
  PROVE  Idle(pc) \in Run /\ Idle(pc).pc \notin RunPcs /\ Idle(pc).task = NoTask
BY DEF Idle, Run, IdlePcs, RunPcs, Stages, Gates, ControlActions

(* What a step does to the tables it writes.  Every action below reduces   *)
(* to one of these facts.                                                  *)
LEMMA RunKept ==
  ASSUME LifecycleInv, NEW d \in Daemons, executing(d)
  PROVE  run[d] \in Run /\ run[d].task \in Tasks /\ row[run[d].task] \in Row
<1>1. run[d] \in Run /\ run[d].task # NoTask
  BY DEF LifecycleInv, TypeOK, RunsNameTasks
<1>2. run[d].task \in Tasks
  BY <1>1 DEF Run
<1>3. QED
  BY <1>1, <1>2 DEF LifecycleInv, TypeOK

(* The outcome of a control check keeps the runs well typed.               *)
LEMMA CheckTyped ==
  ASSUME TypeOK, NEW d \in Daemons, NEW pc \in RunPcs,
         NEW verb \in ControlActions \cup {"none"},
         run' = [run EXCEPT ![d].pc = pc, ![d].verb = verb]
  PROVE  run' \in [Daemons -> Run]
<1>1. run[d] \in Run
  BY DEF TypeOK
<1>s. [run[d] EXCEPT !.pc = pc, !.verb = verb] \in Run
  BY <1>1, Zenon DEF Run
<1>2. run' = [run EXCEPT ![d] = [run[d] EXCEPT !.pc = pc, !.verb = verb]]
  BY DEF TypeOK
<1>3. QED
  BY <1>s, <1>2 DEF TypeOK

(* A step that moves a workflow: its program counter, and with it the      *)
(* stage it is at or the gate it is about to report.                       *)
Moved(d) ==
  \E pc \in RunPcs, stage \in Stages, gate \in Gates :
    \/ run' = [run EXCEPT ![d].pc = pc]
    \/ run' = [run EXCEPT ![d].pc = pc, ![d].stage = stage]
    \/ run' = [run EXCEPT ![d].pc = pc, ![d].gate = gate]
    \/ run' = [run EXCEPT ![d].pc = pc, ![d].stage = stage, ![d].gate = gate]

(* A workflow that moves stays well typed and keeps its task.              *)
LEMMA MoveTyped ==
  ASSUME TypeOK, NEW d \in Daemons, Moved(d)
  PROVE  run' \in [Daemons -> Run] /\ \A e \in Daemons : run'[e].task = run[e].task
<1>1. run \in [Daemons -> Run] /\ run[d] \in Run
  BY DEF TypeOK
<1>2. ASSUME NEW s \in Run, s.task = run[d].task, run' = [run EXCEPT ![d] = s]
      PROVE  run' \in [Daemons -> Run] /\ \A e \in Daemons : run'[e].task = run[e].task
  BY <1>1, <1>2
<1>3. PICK pc \in RunPcs, stage \in Stages, gate \in Gates :
        \/ run' = [run EXCEPT ![d].pc = pc]
        \/ run' = [run EXCEPT ![d].pc = pc, ![d].stage = stage]
        \/ run' = [run EXCEPT ![d].pc = pc, ![d].gate = gate]
        \/ run' = [run EXCEPT ![d].pc = pc, ![d].stage = stage, ![d].gate = gate]
  BY DEF Moved
<1>4. CASE run' = [run EXCEPT ![d].pc = pc]
  <2>1. [run[d] EXCEPT !.pc = pc] \in Run /\ [run[d] EXCEPT !.pc = pc].task = run[d].task
    BY <1>1, Zenon DEF Run
  <2>2. run' = [run EXCEPT ![d] = [run[d] EXCEPT !.pc = pc]]
    BY <1>1, <1>4
  <2>3. QED
    BY <1>2, <2>1, <2>2
<1>5. CASE run' = [run EXCEPT ![d].pc = pc, ![d].stage = stage]
  <2> DEFINE s == [run[d] EXCEPT !.pc = pc, !.stage = stage]
  <2>1. s \in Run /\ s.task = run[d].task
    BY <1>1, Zenon DEF Run
  <2>2. run' = [run EXCEPT ![d] = s]
    BY <1>1, <1>5
  <2>3. QED
    BY <1>2, <2>1, <2>2
<1>6. CASE run' = [run EXCEPT ![d].pc = pc, ![d].gate = gate]
  <2> DEFINE s == [run[d] EXCEPT !.pc = pc, !.gate = gate]
  <2>1. s \in Run /\ s.task = run[d].task
    BY <1>1, Zenon DEF Run
  <2>2. run' = [run EXCEPT ![d] = s]
    BY <1>1, <1>6
  <2>3. QED
    BY <1>2, <2>1, <2>2
<1>7. CASE run' = [run EXCEPT ![d].pc = pc, ![d].stage = stage, ![d].gate = gate]
  <2> DEFINE s == [run[d] EXCEPT !.pc = pc, !.stage = stage, !.gate = gate]
  <2>1. s \in Run /\ s.task = run[d].task
    BY <1>1, Zenon DEF Run
  <2>2. run' = [run EXCEPT ![d] = s]
    BY <1>1, <1>7
  <2>3. QED
    BY <1>2, <2>1, <2>2
<1>8. QED
  BY <1>3, <1>4, <1>5, <1>6, <1>7

(* The stages of a workflow, its findings and its ends move it.            *)
LEMMA StageMoves ==
  ASSUME TypeOK, NEW d \in Daemons,
         Advance(d) \/ Poll(d) \/ GitHangs(d) \/ PersistFinding(d) \/ Conclude(d)
  PROVE  Moved(d)
<1>1. "status" \in RunPcs /\ "save" \in RunPcs /\ "plan" \in Stages
  BY DEF RunPcs, Stages
<1>2. {"context", "plan", "review", "finish"} \subseteq Stages
  BY DEF Stages
<1>3. {"skipped", "context_too_large", "incomplete", "failed", "passed"} \subseteq Gates
  BY DEF Gates, ReviewGates, FailedGates
<1>4. CASE Advance(d)
  <2> DEFINE next == [prepare |-> "context", context |-> "plan"]
  <2>s. run[d].stage \in {"prepare", "context"}
    BY <1>4 DEF Advance
  <2>n. next[run[d].stage] \in Stages
    BY <1>2, <2>s
  <2>a. run' = [run EXCEPT ![d].pc = "status", ![d].stage = next[run[d].stage]]
    BY <1>4 DEF Advance
  <2> HIDE DEF next
  <2>1. PICK stage \in Stages : run' = [run EXCEPT ![d].pc = "status", ![d].stage = stage]
    BY <2>n, <2>a
  <2>2. QED
    BY <1>1, <1>3, <2>1 DEF Moved
<1>5. CASE Poll(d)
  BY <1>1, <1>3, <1>5 DEF Poll, Moved
<1>12. CASE GitHangs(d)
  <2>1. "hung" \in RunPcs
    BY DEF RunPcs
  <2>2. QED
    BY <1>2, <1>3, <1>12, <2>1 DEF GitHangs, Moved
<1>6. CASE PersistFinding(d)
  BY <1>1, <1>3, <1>6 DEF PersistFinding, Moved
<1>7. CASE Plan(d)
  <2>1. ASSUME NEW gate \in {"skipped", "context_too_large"},
               run' = [run EXCEPT ![d].pc = "save", ![d].gate = gate]
        PROVE  Moved(d)
    BY <1>1, <1>3, <2>1 DEF Moved
  <2>2. ASSUME run' = [run EXCEPT ![d].pc = "status", ![d].stage = "review"]
        PROVE  Moved(d)
    BY <1>1, <1>2, <1>3, <2>2 DEF Moved
  <2>3. QED
    BY <1>7, <2>1, <2>2 DEF Plan
<1>8. CASE ReviewDone(d)
  <2>1. PICK gate \in Gates :
          run' = [run EXCEPT ![d].pc = "status", ![d].stage = "finish", ![d].gate = gate]
    BY <1>3, <1>8 DEF ReviewDone
  <2>2. QED
    BY <1>1, <1>2, <2>1 DEF Moved
<1>9. CASE WriteReport(d)
  BY <1>1, <1>3, <1>9 DEF WriteReport, Moved
<1>10. CASE Fail(d)
  BY <1>1, <1>3, <1>10 DEF Fail, Moved
<1>11. QED
  BY <1>4, <1>5, <1>6, <1>7, <1>8, <1>9, <1>10, <1>12 DEF Conclude

(* A workflow at work keeps its task, and nobody else moves.               *)
LEMMA WorkKeepsTask ==
  ASSUME TypeOK, NEW d \in Daemons,
         \/ Check(d) \/ Advance(d) \/ Poll(d) \/ GitHangs(d)
         \/ PersistFinding(d) \/ Conclude(d) \/ HonourCancel(d)
  PROVE  /\ run[d].pc \in RunPcs /\ run'[d].pc \in RunPcs
         /\ \A e \in Daemons : run'[e].task = run[e].task /\ (e # d => run'[e] = run[e])
<1>1. run \in [Daemons -> Run] /\ run[d] \in Run
  BY DEF TypeOK
<1>2. run[d].pc \in RunPcs
  BY DEF Check, ReadStatus, ReadControl, Advance, Poll, GitHangs, PersistFinding, Conclude, Plan,
     ReviewDone, WriteReport, Fail, HonourCancel, RunPcs
<1>3. CASE Advance(d) \/ Poll(d) \/ GitHangs(d) \/ PersistFinding(d) \/ Conclude(d)
  <2>1. Moved(d)
    BY <1>3, StageMoves
  <2>2. run'[d].pc \in RunPcs /\ \A e \in Daemons \ {d} : run'[e] = run[e]
    BY <1>1, <2>1 DEF Moved, Run
  <2>3. QED
    BY <1>2, <2>1, <2>2, MoveTyped
<1>4. CASE ReadStatus(d)
  <2>1. PICK pc \in {"halt", "control"}, verb \in {"none", "stop", "cancel"} :
          run' = [run EXCEPT ![d].pc = pc, ![d].verb = verb]
    BY <1>4 DEF ReadStatus
  <2>2. QED
    BY <1>1, <1>2, <2>1 DEF Run, RunPcs
<1>5. CASE ReadControl(d)
  <2>1. PICK pc \in {"halt", "work"} :
          run' = [run EXCEPT ![d].pc = pc, ![d].verb = controls[run[d].task].latest]
    BY <1>5 DEF ReadControl
  <2>2. QED
    BY <1>1, <1>2, <2>1 DEF Run, RunPcs
<1>6. CASE HonourCancel(d)
  <2>1. run' = [run EXCEPT ![d].pc = "cancel"]
    BY <1>6 DEF HonourCancel
  <2>2. QED
    BY <1>1, <1>2, <2>1 DEF Run, RunPcs
<1>7. QED
  BY <1>3, <1>4, <1>5, <1>6 DEF Check

(* Every step keeps every variable well typed.                             *)
LEMMA StepTyped == LifecycleInv /\ [Next]_vars => TypeOK'
<1> SUFFICES ASSUME LifecycleInv, [Next]_vars PROVE TypeOK'
  OBVIOUS
<1> USE IdleTyped, RunKept DEF executing
<1>1. TypeOK
  BY DEF LifecycleInv
<1>2. CASE UNCHANGED vars
  BY <1>1, <1>2 DEF vars, TypeOK
<1>3. ASSUME NEW d \in Daemons, Daemon(d) PROVE TypeOK'
  <2>1. CASE RecoverStale(d)
    <3>1. row' \in [Tasks -> Row]
      BY <1>1, <2>1, RecoverTyped DEF RecoverStale, TypeOK
    <3>2. run' \in [Daemons -> Run]
      BY <1>1, <2>1 DEF RecoverStale, TypeOK, IdlePcs
    <3>3. QED
      BY <1>1, <2>1, <3>1, <3>2 DEF RecoverStale, TypeOK, environment
  <2>2. ASSUME NEW t \in Tasks, Claim(d, t) PROVE TypeOK'
    <3>1. row' \in [Tasks -> Row]
      BY <1>1, <2>2, ClaimTyped DEF Claim, TypeOK
    <3>2. run' \in [Daemons -> Run]
      BY <1>1, <2>2 DEF Claim, TypeOK, Idle, Run, RunPcs, Stages, Gates, ControlActions
    <3>3. QED
      BY <1>1, <2>2, <3>1, <3>2 DEF Claim, TypeOK, environment
  <2>3. CASE NothingToClaim(d) \/ SyncHangs(d) \/ Restart(d)
    BY <1>1, <2>3 DEF NothingToClaim, SyncHangs, Restart, TypeOK, tables, environment, IdlePcs
  <2>4. CASE Check(d)
    <3>1. ASSUME ReadStatus(d) PROVE run' \in [Daemons -> Run]
      <4> DEFINE r == row[run[d].task]
                 pc == IF r.status = "cancelled" THEN "halt" ELSE "control"
                 verb == IF r.status # "cancelled" THEN "none"
                         ELSE IF r.gate = "stopped" THEN "stop" ELSE "cancel"
      <4>1. pc \in RunPcs /\ verb \in ControlActions \cup {"none"}
        BY DEF RunPcs, ControlActions
      <4>2. run' = [run EXCEPT ![d].pc = pc, ![d].verb = verb]
        BY <3>1 DEF ReadStatus
      <4> HIDE DEF pc, verb
      <4>3. QED
        BY <1>1, <4>1, <4>2, CheckTyped
    <3>2. ASSUME ReadControl(d) PROVE run' \in [Daemons -> Run]
      <4>1. executing(d)
        BY <3>2 DEF ReadControl, RunPcs
      <4>2. controls[run[d].task].latest \in ControlActions \cup {"none"}
        BY <1>1, <4>1 DEF TypeOK, Controls
      <4> DEFINE latest == controls[run[d].task].latest
                 pc == IF latest = "none" THEN "work" ELSE "halt"
      <4>3. pc \in RunPcs
        BY DEF RunPcs
      <4>4. run' = [run EXCEPT ![d].pc = pc, ![d].verb = latest]
        BY <3>2 DEF ReadControl
      <4> HIDE DEF pc, latest
      <4>5. QED
        BY <1>1, <4>2, <4>3, <4>4, CheckTyped DEF latest
    <3>3. QED
      BY <1>1, <2>4, <3>1, <3>2 DEF Check, ReadStatus, ReadControl, TypeOK, tables, environment
  <2>5. CASE Advance(d) \/ Poll(d) \/ GitHangs(d) \/ Conclude(d)
    <3>1. Moved(d)
      BY <1>1, <2>5, StageMoves
    <3>2. UNCHANGED <<tables, environment>>
      BY <2>5 DEF Advance, Poll, GitHangs, Conclude, Plan, ReviewDone, WriteReport, Fail
    <3>3. QED
      BY <1>1, <3>1, <3>2, MoveTyped DEF TypeOK, tables, environment
  <2>6. CASE PersistFinding(d)
    <3>1. run[d].task \in Tasks
      BY <2>6 DEF PersistFinding, RunPcs
    <3>2. run' \in [Daemons -> Run]
      BY <1>1, <2>6, StageMoves, MoveTyped
    <3>3. QED
      BY <1>1, <2>6, <3>1, <3>2 DEF PersistFinding, TypeOK, environment
  <2>7. CASE SaveOutcome(d)
    <3> DEFINE t == run[d].task
               gate == run[d].gate
               status == IF gate \in ReviewGates THEN "success" ELSE "failed"
    <3>1. executing(d)
      BY <2>7 DEF SaveOutcome, RunPcs
    <3>2. t \in Tasks /\ row[t] \in Row /\ gate \in Gates
      BY <3>1 DEF Run
    <3>3. status \in Terminal /\ (t \in Notified) \in BOOLEAN
      BY DEF Terminal
    <3>4. update_task_outcome(row[t], t \in Notified, status, gate) \in Row
      BY <3>2, <3>3, OutcomeTyped, Zenon
    <3>5. row' \in [Tasks -> Row]
      BY <1>1, <2>7, <3>4 DEF SaveOutcome, TypeOK
    <3>6. QED
      BY <1>1, <2>7, <3>5 DEF SaveOutcome, TypeOK, environment, IdlePcs
  <2>8. CASE Halt(d)
    <3>1. row' \in [Tasks -> Row]
      BY <1>1, <2>8, OperatorTyped DEF Halt, HonourStop, HonourCancel, FinishCancel,
         cancel_task, TypeOK, RunPcs
    <3>2. controls' \in [Tasks -> Controls]
      BY <1>1, <2>8, ControlTyped DEF Halt, HonourStop, HonourCancel, FinishCancel,
         cancel_task, TypeOK, RunPcs, ControlActions
    <3>3. run' \in [Daemons -> Run]
      BY <1>1, <2>8 DEF Halt, HonourStop, HonourCancel, FinishCancel, TypeOK, Run,
         RunPcs, IdlePcs
    <3>4. QED
      BY <1>1, <2>8, <3>1, <3>2, <3>3 DEF Halt, HonourStop, HonourCancel, FinishCancel,
         TypeOK, environment
  <2>9. CASE Crash(d)
    BY <1>1, <2>9 DEF Crash, TypeOK, tables, IdlePcs
  <2>10. QED
    BY <1>3, <2>1, <2>2, <2>3, <2>4, <2>5, <2>6, <2>7, <2>8, <2>9 DEF Daemon, Loop
<1>4. ASSUME NEW t \in Tasks, Submit(t) \/ Operator(t) \/ LeaseExpires(t) PROVE TypeOK'
  <2>1. CASE Submit(t)
    <3>1. row' \in [Tasks -> Row] /\ created' \in [Tasks -> Nat]
      BY <1>1, <2>1, CreateTyped DEF Submit, TypeOK
    <3>2. QED
      BY <1>1, <2>1, <3>1 DEF Submit, TypeOK, environment
  <2>2. CASE RequestStop(t) \/ RequestCancel(t)
    <3>1. controls' \in [Tasks -> Controls]
      BY <1>1, <2>2, ControlTyped DEF RequestStop, RequestCancel, TypeOK, ControlActions
    <3>2. QED
      BY <1>1, <2>2, <3>1 DEF RequestStop, RequestCancel, TypeOK, environment
  <2>3. CASE ApplyCancel(t) \/ Requeue(t)
    <3>1. row' \in [Tasks -> Row] /\ controls' \in [Tasks -> Controls]
      BY <1>1, <2>3, OperatorTyped, ControlTyped
         DEF ApplyCancel, Requeue, cancel_task, TypeOK
    <3>2. QED
      BY <1>1, <2>3, <3>1 DEF ApplyCancel, Requeue, TypeOK
  <2>4. CASE Acknowledge(t)
    <3>1. "success" \in Terminal /\ "passed" \in Gates /\ (t \in Notified) \in BOOLEAN
      BY DEF Terminal, Gates, ReviewGates
    <3>2. update_task_outcome(row[t], t \in Notified, "success", "passed") \in Row
      BY <1>1, <3>1, OutcomeTyped, Zenon DEF TypeOK
    <3>3. row' \in [Tasks -> Row]
      BY <1>1, <2>4, <3>2 DEF Acknowledge, TypeOK
    <3>4. QED
      BY <1>1, <2>4, <3>3 DEF Acknowledge, TypeOK, environment
  <2>5. CASE LeaseExpires(t)
    <3>1. [row[t] EXCEPT !.lease = "expired"] \in Row
      BY <1>1 DEF TypeOK, Row
    <3>2. row' \in [Tasks -> Row]
      BY <1>1, <2>5, <3>1 DEF LeaseExpires, TypeOK
    <3>3. QED
      BY <1>1, <2>5, <3>2 DEF LeaseExpires, TypeOK, environment
  <2>6. QED
    BY <1>4, <2>1, <2>2, <2>3, <2>4, <2>5 DEF Operator
<1>5. QED
  BY <1>2, <1>3, <1>4 DEF Next

(* A daemon names a task from its claim to the end of its workflow.        *)
LEMMA StepRuns == LifecycleInv /\ [Next]_vars => RunsNameTasks'
<1> SUFFICES ASSUME LifecycleInv, [Next]_vars, NEW e \in Daemons
             PROVE  (executing(e) <=> run[e].task # NoTask)'
  BY DEF RunsNameTasks
<1>1. run \in [Daemons -> Run] /\ (executing(e) <=> run[e].task # NoTask)
  BY DEF LifecycleInv, TypeOK, RunsNameTasks
<1>2. CASE UNCHANGED run
  BY <1>1, <1>2 DEF executing
<1>3. ASSUME NEW d \in Daemons, Daemon(d), run'[e] # run[e]
      PROVE  (executing(e) <=> run[e].task # NoTask)'
  <2>1. CASE \E pc \in IdlePcs : run' = [run EXCEPT ![d] = Idle(pc)]
    BY <1>1, <1>3, <2>1, IdleTyped DEF executing
  <2>2. ASSUME NEW t \in Tasks, Claim(d, t)
        PROVE  (executing(e) <=> run[e].task # NoTask)'
    BY <1>1, <1>3, <2>2 DEF Claim, Idle, executing, RunPcs
  <2>3. CASE \/ Check(d) \/ Advance(d) \/ Poll(d) \/ GitHangs(d) \/ PersistFinding(d)
             \/ Conclude(d) \/ HonourCancel(d)
    <3>1. d = e
      BY <1>3, <2>3, WorkKeepsTask DEF LifecycleInv
    <3>2. run[d].pc \in RunPcs /\ run'[d].pc \in RunPcs /\ run'[d].task = run[d].task
      BY <2>3, WorkKeepsTask DEF LifecycleInv
    <3>3. QED
      BY <1>1, <3>1, <3>2 DEF executing
  <2>4. QED
    BY <1>3, <2>1, <2>2, <2>3 DEF Daemon, Loop, Halt, RecoverStale, NothingToClaim,
       HonourStop, FinishCancel, SaveOutcome, Crash, SyncHangs, Restart, IdlePcs
<1>4. ASSUME NEW t \in Tasks, Submit(t) \/ Operator(t) \/ LeaseExpires(t)
      PROVE  UNCHANGED run
  BY <1>4 DEF Submit, Operator, RequestStop, RequestCancel, ApplyCancel, Requeue,
     Acknowledge, LeaseExpires
<1>5. CASE \E d \in Daemons : Daemon(d)
  BY <1>1, <1>3, <1>5 DEF executing
<1>6. QED
  BY <1>2, <1>4, <1>5 DEF Next, vars

-----------------------------------------------------------------------------
(* What one step may do to the row of a task: nothing, or one transaction. *)
RowStep(t) ==
  \/ row'[t] = row[t]
  \/ row'[t] = create_task
  \/ row[t].status = "queued" /\ \E d \in Daemons : row'[t] = claim_task(row[t], d)
  \/ is_stale(row[t]) /\ row'[t] = recover_row(row[t], MaxAttempts)
  \/ \E notify \in BOOLEAN, status \in {"success", "failed"}, gate \in Gates :
       row'[t] = update_task_outcome(row[t], notify, status, gate)
  \/ row'[t] = cancel_row(row[t])
  \/ row'[t] = stop_row(row[t])
  \/ row'[t] = requeue_row(row[t]) /\ requeues'[t] = requeues[t] + 1
  \/ row[t].lease = "live" /\ row'[t] = [row[t] EXCEPT !.lease = "expired"]

(* Every step does at most one transaction to a row, and only a requeue    *)
(* counts as one.                                                          *)
LEMMA RowSteps ==
  ASSUME LifecycleInv, [Next]_vars, NEW t \in Tasks
  PROVE  RowStep(t) /\ (requeues'[t] = requeues[t] \/ requeues'[t] = requeues[t] + 1)
<1>1. row \in [Tasks -> Row] /\ requeues \in [Tasks -> Nat] /\ run \in [Daemons -> Run]
  BY DEF LifecycleInv, TypeOK
<1>2. CASE UNCHANGED vars
  BY <1>2 DEF vars, RowStep
<1>3. ASSUME NEW d \in Daemons, Daemon(d)
      PROVE  RowStep(t) /\ UNCHANGED requeues
  <2>1. CASE RecoverStale(d)
    BY <2>1 DEF RecoverStale, RowStep, environment
  <2>2. ASSUME NEW u \in Tasks, Claim(d, u)
        PROVE  RowStep(t) /\ UNCHANGED requeues
    BY <1>1, <2>2 DEF Claim, Claimable, RowStep, environment
  <2>3. CASE SaveOutcome(d)
    <3> DEFINE u == run[d].task
               gate == run[d].gate
               status == IF gate \in ReviewGates THEN "success" ELSE "failed"
    <3>1. gate \in Gates /\ status \in {"success", "failed"} /\ (u \in Notified) \in BOOLEAN
      BY <1>1 DEF Run
    <3>2. row'[t] = row[t] \/ row'[t] = update_task_outcome(row[t], u \in Notified, status, gate)
      BY <1>1, <2>3 DEF SaveOutcome
    <3> HIDE DEF gate, status
    <3>3. RowStep(t)
      BY <3>1, <3>2, Zenon DEF RowStep
    <3>4. QED
      BY <2>3, <3>3 DEF SaveOutcome, environment
  <2>4. CASE HonourStop(d) \/ FinishCancel(d)
    BY <1>1, <2>4 DEF HonourStop, FinishCancel, cancel_task, RowStep, environment
  <2>5. QED
    BY <1>3, <2>1, <2>2, <2>3, <2>4 DEF Daemon, Loop, Check, Halt, Conclude,
       NothingToClaim, ReadStatus, ReadControl, Advance, Plan, Poll, GitHangs, PersistFinding,
       ReviewDone, WriteReport, Fail, HonourCancel, Crash, SyncHangs, Restart, RowStep, tables,
       environment
<1>4. ASSUME NEW u \in Tasks, Submit(u) \/ Operator(u) \/ LeaseExpires(u)
      PROVE  RowStep(t) /\ (requeues'[t] = requeues[t] \/ requeues'[t] = requeues[t] + 1)
  <2>1. CASE Submit(u) \/ ApplyCancel(u) \/ LeaseExpires(u)
    BY <1>1, <2>1 DEF Submit, ApplyCancel, cancel_task, LeaseExpires, RowStep, environment
  <2>2. CASE RequestStop(u) \/ RequestCancel(u)
    BY <2>2 DEF RequestStop, RequestCancel, RowStep, environment
  <2>3. CASE Requeue(u)
    BY <1>1, <2>3 DEF Requeue, RowStep
  <2>4. CASE Acknowledge(u)
    <3>1. "passed" \in Gates /\ (u \in Notified) \in BOOLEAN
      BY DEF Gates, ReviewGates
    <3>2. row'[t] = row[t] \/ row'[t] = update_task_outcome(row[t], u \in Notified, "success", "passed")
      BY <1>1, <2>4 DEF Acknowledge
    <3>3. RowStep(t)
      BY <3>1, <3>2, Zenon DEF RowStep
    <3>4. QED
      BY <2>4, <3>3 DEF Acknowledge, environment
  <2>5. QED
    BY <1>4, <2>1, <2>2, <2>3, <2>4 DEF Operator
<1>5. QED
  BY <1>2, <1>3, <1>4 DEF Next

(* The retry budget, the recoverability of running rows and the freedom of *)
(* queued ones survive every transaction on a row.                         *)
LEMMA StepBudget ==
  LifecycleInv /\ [Next]_vars
    => (RetryBudget /\ QueuedHasBudget /\ RunningIsRecoverable /\ QueuedIsFree)'
<1> SUFFICES ASSUME LifecycleInv, [Next]_vars, NEW t \in Tasks
             PROVE  /\ row'[t].attempts <= MaxAttempts + requeues'[t]
                    /\ row'[t].status = "queued" =>
                         /\ row'[t].attempts < MaxAttempts + requeues'[t]
                         /\ row'[t].owner = NoDaemon
                    /\ row'[t].status = "running" =>
                         row'[t].owner # NoDaemon /\ row'[t].lease # "null"
  BY DEF RetryBudget, QueuedHasBudget, RunningIsRecoverable, QueuedIsFree
<1> DEFINE r == row[t]
           s == row'[t]
           budget == MaxAttempts + requeues[t]
<1>1. r \in Row /\ budget \in Nat /\ requeues[t] \in Nat /\ r.attempts \in Nat
  BY DEF LifecycleInv, TypeOK, Row
<1>2. /\ r.attempts <= budget
      /\ r.status = "queued" => r.attempts < budget /\ r.owner = NoDaemon
      /\ r.status = "running" => r.owner # NoDaemon /\ r.lease # "null"
  BY DEF LifecycleInv, RetryBudget, QueuedHasBudget, RunningIsRecoverable, QueuedIsFree
<1>3. RowStep(t) /\ (requeues'[t] = requeues[t] \/ requeues'[t] = requeues[t] + 1)
  BY RowSteps
<1>4. CASE s = r
  BY <1>1, <1>2, <1>3, <1>4
<1>5. CASE s = create_task
  BY <1>1, <1>3, <1>5 DEF create_task, NoRow
<1>6. ASSUME r.status = "queued", NEW d \in Daemons, s = claim_task(r, d)
      PROVE  /\ s.attempts = r.attempts + 1 /\ r.attempts < budget
             /\ s.status = "running" /\ s.owner = d /\ s.lease = "live"
  BY <1>1, <1>2, <1>6 DEF claim_task, Row
<1>7. CASE is_stale(r) /\ s = recover_row(r, MaxAttempts)
  <2>1. /\ s.attempts = r.attempts /\ s.status # "running" /\ s.owner = NoDaemon
        /\ s.status = "queued" => r.attempts < MaxAttempts
    BY <1>1, <1>7 DEF recover_row, Row
  <2>2. QED
    BY <1>1, <1>2, <1>3, <2>1
<1>8. CASE \/ s = cancel_row(r) \/ s = stop_row(r)
           \/ \E notify \in BOOLEAN, status \in {"success", "failed"}, gate \in Gates :
                s = update_task_outcome(r, notify, status, gate)
  <2>1. s.attempts = r.attempts /\ s.status \notin Active
    BY <1>1, <1>8 DEF cancel_row, stop_row, update_task_outcome, Row, Active
  <2>2. QED
    BY <1>1, <1>2, <1>3, <2>1 DEF Active
<1>9. CASE s = requeue_row(r) /\ requeues'[t] = requeues[t] + 1
  <2>1. s.attempts = r.attempts /\ s.status = "queued" /\ s.owner = NoDaemon
    BY <1>1, <1>9 DEF requeue_row, Row
  <2>2. QED
    BY <1>1, <1>2, <1>9, <2>1
<1>10. CASE r.lease = "live" /\ s = [r EXCEPT !.lease = "expired"]
  <2>1. /\ s.attempts = r.attempts /\ s.status = r.status
        /\ s.owner = r.owner /\ s.lease = "expired"
    BY <1>1, <1>10 DEF Row
  <2>2. QED
    BY <1>1, <1>2, <1>3, <2>1
<1>11. QED
  BY <1>1, <1>3, <1>4, <1>5, <1>6, <1>7, <1>8, <1>9, <1>10 DEF RowStep

(* Rows are never deleted, and a new one has no attempts.                  *)
LEMMA RowsStay ==
  ASSUME LifecycleInv, [Next]_vars, NEW t \in Tasks
  PROVE  /\ row[t].status # "absent" => row'[t].status # "absent"
         /\ row'[t].status = "absent" => row'[t].attempts = row[t].attempts
<1>1. row[t] \in Row
  BY DEF LifecycleInv, TypeOK
<1>2. RowStep(t)
  BY RowSteps
<1> DEFINE r == row[t]
           s == row'[t]
<1>3. CASE s = r
  BY <1>3
<1>4. CASE s = create_task
  BY <1>4 DEF create_task, NoRow
<1>5. CASE \E d \in Daemons : s = claim_task(r, d)
  BY <1>1, <1>5 DEF claim_task, Row
<1>6. CASE s = recover_row(r, MaxAttempts)
  BY <1>1, <1>6 DEF recover_row, Row
<1>7. CASE s = cancel_row(r) \/ s = stop_row(r) \/ s = requeue_row(r)
  BY <1>1, <1>7 DEF cancel_row, stop_row, requeue_row, Row
<1>8. CASE \E notify \in BOOLEAN, status \in {"success", "failed"}, gate \in Gates :
             s = update_task_outcome(r, notify, status, gate)
  BY <1>1, <1>8 DEF update_task_outcome, Row
<1>9. CASE s = [r EXCEPT !.lease = "expired"]
  BY <1>1, <1>9 DEF Row
<1>10. QED
  BY <1>2, <1>3, <1>4, <1>5, <1>6, <1>7, <1>8, <1>9 DEF RowStep

(* A daemon keeps its task, drops it, or claims one that is queued.        *)
LEMMA RunTasks ==
  ASSUME LifecycleInv, [Next]_vars, NEW e \in Daemons
  PROVE  \/ run'[e].task \in {run[e].task, NoTask}
         \/ run'[e].task \in Tasks /\ row'[run'[e].task].status = "running"
<1>1. run \in [Daemons -> Run] /\ row \in [Tasks -> Row]
  BY DEF LifecycleInv, TypeOK
<1>2. ASSUME NEW d \in Daemons, Daemon(d)
      PROVE  \/ run'[e].task \in {run[e].task, NoTask}
             \/ run'[e].task \in Tasks /\ row'[run'[e].task].status = "running"
  <2>1. ASSUME NEW t \in Tasks, Claim(d, t)
        PROVE  \/ run'[e].task = run[e].task
               \/ run'[e].task \in Tasks /\ row'[run'[e].task].status = "running"
    <3>1. row'[t].status = "running"
      BY <1>1, <2>1 DEF Claim, claim_task, Row
    <3>2. run'[e].task = IF e = d THEN t ELSE run[e].task
      BY <1>1, <2>1 DEF Claim, Idle
    <3>3. QED
      BY <3>1, <3>2
  <2>2. CASE \E pc \in IdlePcs : run' = [run EXCEPT ![d] = Idle(pc)]
    BY <1>1, <2>2 DEF Idle
  <2>3. CASE \/ Check(d) \/ Advance(d) \/ Poll(d) \/ GitHangs(d) \/ PersistFinding(d)
             \/ Conclude(d) \/ HonourCancel(d)
    BY <1>1, <2>3, WorkKeepsTask DEF LifecycleInv
  <2>4. QED
    BY <1>2, <2>1, <2>2, <2>3 DEF Daemon, Loop, Halt, RecoverStale, NothingToClaim,
       HonourStop, FinishCancel, SaveOutcome, Crash, SyncHangs, Restart, IdlePcs
<1>3. CASE UNCHANGED run
  BY <1>3
<1>4. ASSUME NEW t \in Tasks, Submit(t) \/ Operator(t) \/ LeaseExpires(t)
      PROVE  UNCHANGED run
  BY <1>4 DEF Submit, Operator, RequestStop, RequestCancel, ApplyCancel, Requeue,
     Acknowledge, LeaseExpires
<1>5. QED
  BY <1>2, <1>3, <1>4 DEF Next, vars

(* Whoever is about to write a row names one that exists.                  *)
LEMMA StepNames == LifecycleInv /\ [Next]_vars => NamedTasksExist'
<1> SUFFICES ASSUME LifecycleInv, [Next]_vars PROVE NamedTasksExist'
  OBVIOUS
<1>1. NamedTasksExist /\ TypeOK /\ TypeOK' /\ RunsNameTasks /\ RunsNameTasks'
  BY StepTyped, StepRuns DEF LifecycleInv
<1>2. ASSUME NEW t \in cancelling' \cup hasFindings'
      PROVE  row'[t].status # "absent"
  <2>1. t \in Tasks
    BY <1>1, <1>2 DEF TypeOK
  <2>2. CASE t \in cancelling \cup hasFindings
    BY <1>1, <2>1, <2>2, RowsStay DEF NamedTasksExist
  <2>3. CASE t \notin cancelling \cup hasFindings
    <3>1. \/ \E u \in Tasks : RequestCancel(u)
          \/ \E d \in Daemons : PersistFinding(d)
      BY <1>2, <2>3 DEF Next, vars, Daemon, Loop, Check, Halt, Conclude, RecoverStale,
         Claim, NothingToClaim, ReadStatus, ReadControl, Advance, Plan, Poll,
         GitHangs, ReviewDone, WriteReport, Fail, SaveOutcome, HonourStop, HonourCancel, FinishCancel,
         Crash, SyncHangs, Restart, Submit, Operator, RequestStop, ApplyCancel, Requeue, Acknowledge,
         LeaseExpires, tables, environment
    <3>2. row[t].status # "absent"
      BY <1>1, <1>2, <2>3, <3>1 DEF RequestCancel, PersistFinding, NamedTasksExist,
         executing, RunPcs, environment
    <3>3. QED
      BY <2>1, <3>2, RowsStay
  <2>4. QED
    BY <2>2, <2>3
<1>3. ASSUME NEW d \in Daemons, executing(d)'
      PROVE  row'[run'[d].task].status # "absent"
  <2>1. run'[d].task # NoTask
    BY <1>1, <1>3 DEF RunsNameTasks
  <2>2. CASE run'[d].task = run[d].task
    <3>1. executing(d) /\ run[d].task \in Tasks
      BY <1>1, <2>1, <2>2 DEF RunsNameTasks, TypeOK, Run
    <3>2. QED
      BY <1>1, <2>2, <3>1, RowsStay DEF NamedTasksExist
  <2>3. QED
    BY <2>1, <2>2, RunTasks
<1>4. ASSUME NEW t \in Tasks, row'[t].status = "absent"
      PROVE  row'[t].attempts = 0
  BY <1>1, <1>4, RowsStay DEF NamedTasksExist
<1>5. QED
  BY <1>2, <1>3, <1>4 DEF NamedTasksExist, executing

(* LifecycleInv holds in every reachable state.                            *)
THEOREM InvCorrect == Spec => []LifecycleInv
<1>1. LifecycleInv /\ [Next]_vars => LifecycleInv'
  BY StepTyped, StepRuns, StepBudget, StepNames DEF LifecycleInv
<1>2. QED
  BY InitInv, <1>1, PTL DEF Spec

(* Columns, controls and program counters keep their kinds.                *)
THEOREM TypeCorrect == Spec => []TypeOK
<1>1. LifecycleInv => TypeOK
  BY DEF LifecycleInv
<1>2. QED
  BY InvCorrect, <1>1, PTL

(* Recovery keeps the retry budget for every number of tasks, daemons,     *)
(* attempts, requeues and crashes.                                         *)
THEOREM RetryBudgetCorrect == Spec => []RetryBudget
<1>1. LifecycleInv => RetryBudget
  BY DEF LifecycleInv
<1>2. QED
  BY InvCorrect, <1>1, PTL

(* No running row is out of reach of recover_stale_running_tasks.          *)
THEOREM RunningCorrect == Spec => []RunningIsRecoverable
<1>1. LifecycleInv => RunningIsRecoverable
  BY DEF LifecycleInv
<1>2. QED
  BY InvCorrect, <1>1, PTL

(* A claim passes on through a release only: the one transaction that      *)
(* writes an owner starts from a queued row, which has none.               *)
THEOREM ClaimsReleased == Spec => ClaimsAreReleased
<1>1. ASSUME LifecycleInv, [Next]_vars, NEW t \in Tasks,
             row[t].owner # NoDaemon, row'[t].owner # row[t].owner
      PROVE  row'[t].owner = NoDaemon /\ row'[t].status # "running"
  <2>1. row[t] \in Row /\ row[t].status # "queued"
    BY <1>1 DEF LifecycleInv, TypeOK, QueuedIsFree
  <2>2. RowStep(t)
    BY <1>1, RowSteps
  <2>3. QED
    BY <1>1, <2>1, <2>2 DEF RowStep, create_task, NoRow, recover_row, cancel_row, stop_row,
       requeue_row, update_task_outcome, Row
<1>2. LifecycleInv /\ [Next]_vars
        => [\A t \in Tasks :
              row[t].owner # NoDaemon /\ row'[t].owner # row[t].owner
                => row'[t].owner = NoDaemon /\ row'[t].status # "running"]_vars
  BY <1>1
<1>3. QED
  BY InvCorrect, <1>2, PTL DEF Spec, ClaimsAreReleased

(* A control request disappears only when its task is cancelled, stopped   *)
(* or requeued in the same step.                                           *)
THEOREM ControlsHonoured == Spec => ControlsAreHonoured
<1>1. ASSUME LifecycleInv, [Next]_vars, NEW t \in Tasks,
             controls[t].latest # "none", controls'[t].latest = "none"
      PROVE  row'[t].status \in {"cancelled", "queued"}
  <2>1. TypeOK /\ row[t] \in Row
    BY <1>1 DEF LifecycleInv, TypeOK
  <2>2. controls'[t] # controls[t]
    BY <1>1
  <2>3. ASSUME NEW d \in Daemons, HonourStop(d) \/ FinishCancel(d)
        PROVE  row'[t].status \in {"cancelled", "queued"}
    <3>1. t = run[d].task
      BY <2>1, <2>2, <2>3 DEF TypeOK, HonourStop, FinishCancel, cancel_task
    <3>2. row'[t] = stop_row(row[t]) \/ row'[t] = cancel_row(row[t])
      BY <2>1, <2>3, <3>1 DEF TypeOK, HonourStop, FinishCancel, cancel_task
    <3>3. QED
      BY <2>1, <3>2 DEF stop_row, cancel_row, Row
  <2>4. ASSUME NEW u \in Tasks, ApplyCancel(u) \/ Requeue(u)
        PROVE  row'[t].status \in {"cancelled", "queued"}
    <3>1. t = u
      BY <2>1, <2>2, <2>4 DEF TypeOK, ApplyCancel, Requeue, cancel_task
    <3>2. row'[t] = cancel_row(row[t]) \/ row'[t] = requeue_row(row[t])
      BY <2>1, <2>4, <3>1 DEF TypeOK, ApplyCancel, Requeue, cancel_task
    <3>3. QED
      BY <2>1, <3>2 DEF cancel_row, requeue_row, Row
  <2>5. ASSUME NEW u \in Tasks, NEW a \in ControlActions,
               controls' = [controls EXCEPT ![u] = request_control(@, a)]
        PROVE  FALSE
    BY <1>1, <2>1, <2>5 DEF TypeOK, request_control, ControlActions
  <2>6. ASSUME NEW d \in Daemons, HonourCancel(d)
        PROVE  FALSE
    <3>1. run[d].task \in Tasks
      BY <1>1, <2>6, RunKept DEF HonourCancel, executing, RunPcs
    <3>2. QED
      BY <2>5, <2>6, <3>1 DEF HonourCancel, ControlActions
  <2>7. ASSUME NEW u \in Tasks, RequestStop(u) \/ RequestCancel(u)
        PROVE  FALSE
    BY <2>5, <2>7 DEF RequestStop, RequestCancel, ControlActions
  <2>8. QED
    BY <1>1, <2>2, <2>3, <2>4, <2>6, <2>7 DEF Next, vars, Daemon, Loop, Check, Halt,
       Conclude, RecoverStale, Claim, NothingToClaim, ReadStatus, ReadControl, Advance,
       Plan, Poll, GitHangs, PersistFinding, ReviewDone, WriteReport, Fail,
       SaveOutcome, Crash, SyncHangs, Restart, Submit, Operator, Acknowledge, LeaseExpires, tables
<1>2. LifecycleInv /\ [Next]_vars
        => [\A t \in Tasks :
              controls[t].latest # "none" /\ controls'[t].latest = "none"
                => row'[t].status \in {"cancelled", "queued"}]_vars
  BY <1>1
<1>3. QED
  BY InvCorrect, <1>2, PTL DEF Spec, ControlsAreHonoured

-----------------------------------------------------------------------------
(* The refinement of TaskContract.                                         *)

Phase     == [t \in Tasks |-> row[t].status]
Handouts  == [t \in Tasks |-> row[t].attempts]
Executors == [t \in Tasks |-> {d \in Daemons : run[d].task = t}]

(* What a transaction on one row is to the contract.                       *)
LEMMA RowToPhase ==
  ASSUME TypeOK, NEW t \in Tasks, NEW r, row' = [row EXCEPT ![t] = r]
  PROVE  /\ Phase' = [Phase EXCEPT ![t] = r.status]
         /\ Handouts' = [Handouts EXCEPT ![t] = r.attempts]
         /\ r.attempts = row[t].attempts => Handouts' = Handouts
BY DEF TypeOK, Phase, Handouts

(* A step that leaves every daemon its task leaves the executors alone.    *)
LEMMA SameExecutors ==
  ASSUME \A d \in Daemons : run'[d].task = run[d].task
  PROVE  Executors' = Executors
<1>1. ASSUME NEW t \in Tasks
      PROVE  {d \in Daemons : run'[d].task = t} = {d \in Daemons : run[d].task = t}
  OBVIOUS
<1>2. QED
  BY <1>1 DEF Executors

(* A daemon that takes a task becomes one of its executors.                *)
LEMMA TaskTaken ==
  ASSUME TypeOK, NEW d \in Daemons, NEW t \in Tasks, NEW s,
         run[d].task = NoTask, run' = [run EXCEPT ![d] = s], s.task = t
  PROVE  Executors' = [Executors EXCEPT ![t] = @ \cup {d}]
<1>1. ASSUME NEW u \in Tasks
      PROVE  {e \in Daemons : run'[e].task = u}
               = {e \in Daemons : run[e].task = u} \cup (IF u = t THEN {d} ELSE {})
  BY DEF TypeOK
<1>2. \A u \in Tasks : Executors'[u] = Executors[u] \cup (IF u = t THEN {d} ELSE {})
  BY <1>1 DEF Executors
<1>3. Executors' = [u \in Tasks |-> Executors[u] \cup (IF u = t THEN {d} ELSE {})]
  BY <1>2 DEF Executors
<1>4. DOMAIN Executors = Tasks /\ \A u \in Tasks : u # t => Executors[u] \cup {} = Executors[u]
  BY DEF Executors
<1>5. QED
  BY <1>3, <1>4, Zenon

(* A daemon that drops its task leaves the executors of that task.         *)
LEMMA TaskDropped ==
  ASSUME TypeOK, NEW d \in Daemons, NEW t \in Tasks, NEW s,
         run[d].task = t, run' = [run EXCEPT ![d] = s], s.task = NoTask
  PROVE  d \in Executors[t] /\ Executors' = [Executors EXCEPT ![t] = @ \ {d}]
<1>1. ASSUME NEW u \in Tasks
      PROVE  {e \in Daemons : run'[e].task = u}
               = {e \in Daemons : run[e].task = u} \ (IF u = t THEN {d} ELSE {})
  BY DEF TypeOK
<1>2. d \in Executors[t]
  BY DEF Executors
<1>3. \A u \in Tasks : Executors'[u] = Executors[u] \ (IF u = t THEN {d} ELSE {})
  BY <1>1 DEF Executors
<1>4. Executors' = [u \in Tasks |-> Executors[u] \ (IF u = t THEN {d} ELSE {})]
  BY <1>3 DEF Executors
<1>5. DOMAIN Executors = Tasks
  BY DEF Executors
<1>6. QED
  BY <1>2, <1>4, <1>5

(* A step of a workflow that only moves its program counter.               *)
LEMMA SameTask ==
  ASSUME LifecycleInv, NEW d \in Daemons,
         \/ Check(d) \/ Advance(d) \/ Poll(d) \/ GitHangs(d)
         \/ PersistFinding(d) \/ Conclude(d) \/ HonourCancel(d)
         \/ NothingToClaim(d) \/ SyncHangs(d) \/ Restart(d) \/ RecoverStale(d)
  PROVE  Executors' = Executors
<1>1. run \in [Daemons -> Run] /\ RunsNameTasks
  BY DEF LifecycleInv, TypeOK
<1>2. CASE NothingToClaim(d) \/ SyncHangs(d) \/ Restart(d) \/ RecoverStale(d)
  <2>1. PICK pc \in IdlePcs : run[d].pc \notin RunPcs /\ run' = [run EXCEPT ![d] = Idle(pc)]
    BY <1>2 DEF NothingToClaim, SyncHangs, Restart, RecoverStale, IdlePcs, RunPcs
  <2>2. run[d].task = NoTask
    BY <1>1, <2>1 DEF RunsNameTasks, executing
  <2>3. run'[d].task = NoTask /\ \A e \in Daemons : e # d => run'[e] = run[e]
    BY <1>1, <2>1 DEF Idle
  <2>4. QED
    BY <2>2, <2>3, SameExecutors
<1>3. CASE \/ Check(d) \/ Advance(d) \/ Poll(d) \/ GitHangs(d)
           \/ PersistFinding(d) \/ Conclude(d) \/ HonourCancel(d)
  BY <1>3, WorkKeepsTask, SameExecutors DEF LifecycleInv
<1>4. QED
  BY <1>2, <1>3

(* The initial state maps to an initial state.                             *)
LEMMA ContractInit == Init => Contract!Init
<1> SUFFICES ASSUME Init PROVE Contract!Init
  OBVIOUS
<1>1. Phase = [t \in Tasks |-> "absent"] /\ Handouts = [t \in Tasks |-> 0]
  BY DEF Init, NoRow, Phase, Handouts
<1>2. Executors = [t \in Tasks |-> {}]
  BY DEF Init, Idle, Executors
<1>3. QED
  BY <1>1, <1>2 DEF Init, Contract!Init, Phase, Handouts, Executors

(* The end of a run: one transaction writes the row, and the daemon drops  *)
(* the task.  To the contract this is a verdict or a halt.                 *)
LEMMA RunEnds ==
  ASSUME LifecycleInv, NEW d \in Daemons, NEW t \in Tasks, NEW r, NEW s,
         run[d].task = t, run' = [run EXCEPT ![d] = s], s.task = NoTask,
         row' = [row EXCEPT ![t] = r], r.attempts = row[t].attempts,
         r.status \in {"success", "failed", "cancelled"}, hasFindings' = hasFindings
  PROVE  Contract!Execute(t, d)
<1>1. TypeOK
  BY DEF LifecycleInv
<1>2. Phase' = [Phase EXCEPT ![t] = r.status] /\ Handouts' = Handouts
  BY <1>1, RowToPhase
<1>3. d \in Executors[t] /\ Executors' = [Executors EXCEPT ![t] = @ \ {d}]
  BY <1>1, TaskDropped
<1>4. Contract!Release(t, d) /\ Contract!Become(t, r.status)
  BY <1>2, <1>3 DEF Contract!Release, Contract!Become, Phase, Executors
<1>5. CASE r.status = "cancelled"
  BY <1>2, <1>4, <1>5 DEF Contract!Execute, Contract!Halt, Handouts
<1>6. CASE r.status \in {"success", "failed"}
  BY <1>2, <1>4, <1>6 DEF Contract!Execute, Contract!Verdict, Handouts
<1>7. QED
  BY <1>5, <1>6

(* Every step of a daemon is a step of the contract or stutters.           *)
LEMMA DaemonRefines ==
  ASSUME LifecycleInv, NEW d \in Daemons, Daemon(d)
  PROVE  [Contract!Next]_Contract!vars
<1>1. TypeOK /\ RunsNameTasks
  BY DEF LifecycleInv
<1>2. CASE UNCHANGED <<Phase, Handouts, Executors, hasFindings>>
  BY <1>2 DEF Contract!vars, Phase, Handouts, Executors
<1>3. ASSUME NEW t \in Tasks, Contract!Execute(t, d)
      PROVE  Contract!Next
  BY <1>3 DEF Contract!Next
<1>4. CASE RecoverStale(d)
  <2>1. PICK S \in SUBSET Tasks : S = {t \in Tasks : is_stale(row[t])}
    OBVIOUS
  <2>2. Executors' = Executors /\ hasFindings' = hasFindings
    BY <1>4, SameTask DEF RecoverStale
  <2>3. \A t \in Tasks : /\ row'[t].attempts = row[t].attempts
                         /\ row'[t].status = IF t \notin S THEN row[t].status
                                             ELSE IF row[t].attempts >= MaxAttempts
                                             THEN "failed" ELSE "queued"
    <3> TAKE t \in Tasks
    <3>1. row[t] \in Row
      BY <1>1 DEF TypeOK
    <3>2. row'[t] = IF t \in S THEN recover_row(row[t], MaxAttempts) ELSE row[t]
      BY <1>4, <2>1 DEF RecoverStale
    <3>3. CASE t \notin S
      BY <3>2, <3>3
    <3>4. CASE t \in S /\ row[t].attempts >= MaxAttempts
      BY <3>1, <3>2, <3>4 DEF recover_row, Row
    <3>5. CASE t \in S /\ ~(row[t].attempts >= MaxAttempts)
      BY <3>1, <3>2, <3>5 DEF recover_row, Row
    <3>6. QED
      BY <3>3, <3>4, <3>5
  <2>4. \A t \in S : row[t].status = "running"
    BY <2>1 DEF is_stale
  <2>5. /\ Handouts' = Handouts
        /\ Phase' = [t \in Tasks |-> IF t \notin S THEN Phase[t]
                                     ELSE IF Handouts[t] >= MaxAttempts THEN "failed"
                                     ELSE "queued"]
    BY <2>3 DEF Phase, Handouts
  <2>6. Contract!Recover(S)
    BY <2>2, <2>4, <2>5 DEF Contract!Recover, Phase, Handouts, Executors
  <2>7. QED
    BY <2>6 DEF Contract!Next
<1>5. ASSUME NEW t \in Tasks, Claim(d, t)
      PROVE  Contract!HandOut(t, d)
  <2>1. run[d].task = NoTask /\ \A u \in Tasks : d \notin {e \in Daemons : run[e].task = u}
    BY <1>1, <1>5, LifecycleAssumption DEF Claim, RunsNameTasks, executing, RunPcs
  <2> DEFINE s == [Idle("status") EXCEPT !.task = t]
             r == claim_task(row[t], d)
  <2>2. run' = [run EXCEPT ![d] = s] /\ s.task = t
    BY <1>5 DEF Claim, Idle
  <2>3. row' = [row EXCEPT ![t] = r]
    BY <1>5 DEF Claim
  <2>4. r.status = "running" /\ r.attempts = row[t].attempts + 1
    BY <1>1 DEF claim_task, TypeOK, Row
  <2> HIDE DEF s, r
  <2>5. Executors' = [Executors EXCEPT ![t] = @ \cup {d}]
    BY <1>1, <2>1, <2>2, TaskTaken
  <2>6. /\ Phase' = [Phase EXCEPT ![t] = r.status]
        /\ Handouts' = [Handouts EXCEPT ![t] = r.attempts]
    BY <1>1, <2>3, RowToPhase
  <2>7. Handouts' = [Handouts EXCEPT ![t] = @ + 1]
    BY <2>4, <2>6 DEF Handouts
  <2>8. row[t].status = "queued" /\ hasFindings' = hasFindings
    BY <1>5 DEF Claim, Claimable
  <2>9. QED
    BY <2>1, <2>4, <2>5, <2>6, <2>7, <2>8 DEF Contract!HandOut, Contract!Become, Phase,
       Handouts, Executors
<1>6. CASE PersistFinding(d)
  <2>1. PICK t \in Tasks : t = run[d].task
    BY <1>1, <1>6, RunKept DEF PersistFinding, executing, RunPcs
  <2>2. Executors' = Executors /\ row' = row /\ hasFindings' = hasFindings \cup {t}
    BY <1>6, <2>1, SameTask DEF PersistFinding
  <2>3. Contract!Find(t, d)
    BY <2>1, <2>2 DEF Contract!Find, Executors
  <2>4. QED
    BY <1>3, <2>3 DEF Contract!Execute
<1>7. CASE SaveOutcome(d) \/ HonourStop(d) \/ FinishCancel(d)
  <2>1. PICK t \in Tasks : t = run[d].task
    BY <1>1, <1>7, RunKept DEF SaveOutcome, HonourStop, FinishCancel, executing, RunPcs
  <2>2. row[t] \in Row
    BY <1>1 DEF TypeOK
  <2> DEFINE gate == run[d].gate
             status == IF gate \in ReviewGates THEN "success" ELSE "failed"
             r == IF SaveOutcome(d)
                  THEN update_task_outcome(row[t], t \in Notified, status, gate)
                  ELSE IF HonourStop(d) THEN stop_row(row[t]) ELSE cancel_row(row[t])
             s == Idle("recover")
  <2>3. row' = [row EXCEPT ![t] = r]
    BY <1>7, <2>1 DEF SaveOutcome, HonourStop, FinishCancel, cancel_task
  <2>4. status \in {"success", "failed"}
    OBVIOUS
  <2> HIDE DEF status
  <2>5. /\ r.attempts = row[t].attempts
        /\ r.status \in {"success", "failed", "cancelled"}
    BY <2>2, <2>4 DEF update_task_outcome, stop_row, cancel_row, Row
  <2>6. run' = [run EXCEPT ![d] = s] /\ s.task = NoTask /\ hasFindings' = hasFindings
    BY <1>7 DEF SaveOutcome, HonourStop, FinishCancel, Idle
  <2> HIDE DEF r, s
  <2>7. QED
    BY <1>3, <2>1, <2>3, <2>5, <2>6, RunEnds
<1>8. CASE Crash(d)
  <2>1. row' = row /\ hasFindings' = hasFindings
    BY <1>8 DEF Crash, tables
  <2> DEFINE s == Idle("down")
  <2>2. run' = [run EXCEPT ![d] = s] /\ s.task = NoTask
    BY <1>8 DEF Crash, Idle
  <2> HIDE DEF s
  <2>3. Phase' = Phase /\ Handouts' = Handouts
    BY <2>1 DEF Phase, Handouts
  <2>4. CASE run[d].task = NoTask
    <3>1. \A e \in Daemons : run'[e].task = run[e].task
      BY <1>1, <2>2, <2>4 DEF TypeOK
    <3>2. QED
      BY <1>2, <2>1, <2>3, <3>1, SameExecutors
  <2>5. ASSUME NEW t \in Tasks, run[d].task = t
        PROVE  [Contract!Next]_Contract!vars
    <3>1. d \in Executors[t] /\ Executors' = [Executors EXCEPT ![t] = @ \ {d}]
      BY <1>1, <2>2, <2>5, TaskDropped
    <3>2. Contract!Abandon(t, d)
      BY <2>1, <2>3, <3>1 DEF Contract!Abandon, Contract!Release, Phase, Handouts, Executors
    <3>3. QED
      BY <1>3, <3>2 DEF Contract!Execute
  <2>6. QED
    BY <1>1, <2>4, <2>5 DEF TypeOK, Run
<1>9. CASE \/ Check(d) \/ Advance(d) \/ Poll(d) \/ GitHangs(d) \/ Conclude(d)
           \/ HonourCancel(d) \/ NothingToClaim(d) \/ SyncHangs(d) \/ Restart(d)
  <2>1. row' = row /\ hasFindings' = hasFindings
    BY <1>9 DEF Check, ReadStatus, ReadControl, Advance, Poll, GitHangs, Conclude, Plan, ReviewDone,
       WriteReport, Fail, HonourCancel, NothingToClaim, SyncHangs, Restart, tables
  <2>2. Executors' = Executors
    BY <1>9, SameTask
  <2>3. Phase' = Phase /\ Handouts' = Handouts
    BY <2>1 DEF Phase, Handouts
  <2>4. QED
    BY <1>2, <2>1, <2>2, <2>3
<1>10. CASE \E t \in Tasks : Claim(d, t)
  BY <1>5, <1>10 DEF Contract!Next
<1>11. QED
  BY <1>4, <1>6, <1>7, <1>8, <1>9, <1>10 DEF Daemon, Loop, Halt

(* Every step of an operator, of a submission or of time is a step of the  *)
(* contract or stutters.                                                   *)
LEMMA OutsiderRefines ==
  ASSUME LifecycleInv, NEW t \in Tasks, Submit(t) \/ Operator(t) \/ LeaseExpires(t)
  PROVE  [Contract!Next]_Contract!vars
<1>1. TypeOK /\ NamedTasksExist /\ row[t] \in Row
  BY DEF LifecycleInv, TypeOK
<1>2. run' = run /\ hasFindings' = hasFindings
  BY DEF Submit, Operator, RequestStop, RequestCancel, ApplyCancel, Requeue, Acknowledge,
     LeaseExpires
<1>3. Executors' = Executors
  BY <1>2, SameExecutors
<1>4. CASE Submit(t)
  <2>1. row' = [row EXCEPT ![t] = create_task]
    BY <1>4 DEF Submit
  <2>2. create_task.status = "queued" /\ create_task.attempts = row[t].attempts
    BY <1>1, <1>4 DEF Submit, create_task, NoRow, NamedTasksExist
  <2>3. Phase' = [Phase EXCEPT ![t] = create_task.status] /\ Handouts' = Handouts
    BY <1>1, <2>1, <2>2, RowToPhase
  <2>4. Contract!Submit(t)
    BY <1>2, <1>3, <1>4, <2>2, <2>3 DEF Submit, Contract!Submit, Contract!Exists, Contract!Become,
       Phase, Handouts, Executors
  <2>5. QED
    BY <2>4 DEF Contract!Next
<1>5. CASE ApplyCancel(t) \/ Requeue(t)
  <2>1. row[t].status # "absent"
    BY <1>1, <1>5 DEF ApplyCancel, Requeue, NamedTasksExist
  <2>2. PICK r \in {cancel_row(row[t]), requeue_row(row[t])} : row' = [row EXCEPT ![t] = r]
    BY <1>5 DEF ApplyCancel, Requeue, cancel_task
  <2>3. r.status \in {"queued", "cancelled"} /\ r.attempts = row[t].attempts
    BY <1>1 DEF cancel_row, requeue_row, Row
  <2>4. Phase' = [Phase EXCEPT ![t] = r.status] /\ Handouts' = Handouts
    BY <1>1, <2>2, <2>3, RowToPhase
  <2>5. Contract!Operate(t)
    BY <1>2, <1>3, <2>1, <2>3, <2>4 DEF Contract!Operate, Contract!Exists, Contract!Become,
       Phase, Handouts, Executors
  <2>6. QED
    BY <2>5 DEF Contract!Next
<1>6. CASE Acknowledge(t)
  <2> DEFINE r == update_task_outcome(row[t], t \in Notified, "success", "passed")
  <2>1. r.status = "success" /\ r.attempts = row[t].attempts
    BY <1>1 DEF update_task_outcome, Row
  <2>2. row' = [row EXCEPT ![t] = r]
    BY <1>6 DEF Acknowledge
  <2> HIDE DEF r
  <2>3. Phase' = [Phase EXCEPT ![t] = r.status] /\ Handouts' = Handouts
    BY <1>1, <2>1, <2>2, RowToPhase
  <2>4. Contract!Acknowledge(t)
    BY <1>2, <1>3, <1>6, <2>1, <2>3 DEF Acknowledge, Contract!Acknowledge, Contract!Become,
       Phase, Handouts, Executors
  <2>5. QED
    BY <2>4 DEF Contract!Next
<1>7. CASE RequestStop(t) \/ RequestCancel(t)
  BY <1>2, <1>3, <1>7 DEF RequestStop, RequestCancel, Contract!vars, Executors
<1>8. CASE LeaseExpires(t)
  <2> DEFINE r == [row[t] EXCEPT !.lease = "expired"]
  <2>1. r.status = row[t].status /\ r.attempts = row[t].attempts
    BY <1>1 DEF Row
  <2>2. row' = [row EXCEPT ![t] = r]
    BY <1>1, <1>8 DEF LeaseExpires, TypeOK
  <2> HIDE DEF r
  <2>3. Phase' = [Phase EXCEPT ![t] = r.status] /\ Handouts' = Handouts
    BY <1>1, <2>1, <2>2, RowToPhase
  <2>4. QED
    BY <1>2, <1>3, <2>1, <2>3 DEF Contract!vars, Phase, Handouts, Executors
<1>9. QED
  BY <1>4, <1>5, <1>6, <1>7, <1>8 DEF Operator

(* The queue keeps the promises of TaskContract for every set of tasks and *)
(* daemons: hand-outs from the queue only, at most one verdict per         *)
(* hand-out, ends by recovery, operators and acknowledgement as stated     *)
(* there.  A transaction is at most one step of the contract, since no two *)
(* of its promises are about different tables.                             *)
THEOREM ContractImplemented == Spec => ImplementsContract
<1>1. Init => Contract!Init
  BY ContractInit
<1>2. LifecycleInv /\ [Next]_vars => [Contract!Next]_Contract!vars
  <2> SUFFICES ASSUME LifecycleInv, [Next]_vars PROVE [Contract!Next]_Contract!vars
    OBVIOUS
  <2>1. CASE UNCHANGED vars
    BY <2>1 DEF vars, Contract!vars
  <2>2. QED
    BY <2>1, DaemonRefines, OutsiderRefines DEF Next
<1>3. QED
  BY <1>1, <1>2, InvCorrect, PTL DEF Spec, ImplementsContract, Contract!Spec

-----------------------------------------------------------------------------
(* The queue without operators.                                            *)

(* Attempts are counted by claims only.                                    *)
LEMMA QueueAttempts ==
  ASSUME LifecycleInv, [QueueNext]_vars, NEW t \in Tasks,
         ~ \E d \in Daemons : Claim(d, t)
  PROVE  /\ row'[t].attempts = row[t].attempts
         /\ row'[t].status = "running" => row[t].status = "running"
         /\ row'[t].status = "queued" =>
              \/ row[t].status \in {"queued", "running"}
              \/ Submit(t)
<1>1. row \in [Tasks -> Row] /\ row[t] \in Row /\ NamedTasksExist
  BY DEF LifecycleInv, TypeOK
<1>2. CASE UNCHANGED vars
  BY <1>2 DEF vars
<1>3. ASSUME NEW u \in Tasks, Submit(u)
      PROVE  \/ row'[t] = row[t]
             \/ Submit(t) /\ row[t].attempts = 0 /\ row'[t] = create_task
  <2>1. CASE u = t
    BY <1>1, <1>3, <2>1 DEF Submit, NamedTasksExist
  <2>2. CASE u # t
    BY <1>1, <1>3, <2>2 DEF Submit
  <2>3. QED
    BY <2>1, <2>2
<1>4. ASSUME NEW u \in Tasks, LeaseExpires(u)
      PROVE  row'[t].attempts = row[t].attempts /\ row'[t].status = row[t].status
  BY <1>1, <1>4 DEF LeaseExpires, Row
<1>5. ASSUME NEW d \in Daemons, Daemon(d)
      PROVE  \/ row'[t] = row[t]
             \/ is_stale(row[t]) /\ row'[t] = recover_row(row[t], MaxAttempts)
             \/ /\ row'[t].attempts = row[t].attempts
                /\ row'[t].status \in {"success", "failed", "cancelled"}
  <2>1. CASE RecoverStale(d)
    BY <2>1 DEF RecoverStale
  <2>2. ASSUME NEW u \in Tasks, Claim(d, u) PROVE row'[t] = row[t]
    BY <1>1, <2>2 DEF Claim
  <2>3. CASE SaveOutcome(d) \/ HonourStop(d) \/ FinishCancel(d)
    <3>1. CASE t # run[d].task
      BY <1>1, <2>3, <3>1 DEF SaveOutcome, HonourStop, FinishCancel, cancel_task
    <3>2. CASE t = run[d].task /\ SaveOutcome(d)
      <4> DEFINE gate == run[d].gate
                 status == IF gate \in ReviewGates THEN "success" ELSE "failed"
      <4>1. row'[t] = update_task_outcome(row[t], t \in Notified, status, gate)
        BY <1>1, <3>2 DEF SaveOutcome
      <4>2. status \in {"success", "failed"}
        OBVIOUS
      <4> HIDE DEF status
      <4>3. QED
        BY <1>1, <4>1, <4>2 DEF update_task_outcome, Row
    <3>3. CASE t = run[d].task /\ HonourStop(d)
      BY <1>1, <3>3 DEF HonourStop, stop_row, Row
    <3>4. CASE t = run[d].task /\ FinishCancel(d)
      BY <1>1, <3>4 DEF FinishCancel, cancel_task, cancel_row, Row
    <3>5. QED
      BY <2>3, <3>1, <3>2, <3>3, <3>4
  <2>4. QED
    BY <1>5, <2>1, <2>2, <2>3 DEF Daemon, Loop, Check, Halt, Conclude, NothingToClaim,
       ReadStatus, ReadControl, Advance, Plan, Poll, GitHangs, PersistFinding, ReviewDone,
       WriteReport, Fail, HonourCancel, Crash, SyncHangs, Restart, tables
<1>6. QED
  BY <1>1, <1>2, <1>3, <1>4, <1>5 DEF QueueNext, create_task, NoRow, recover_row,
     is_stale, Row

(* Creation times are written by submissions only.                         *)
LEMMA QueueCreated ==
  ASSUME LifecycleInv, [QueueNext]_vars, created' # created
  PROVE  \E t \in Tasks : Submit(t)
BY DEF QueueNext, vars, Daemon, Loop, Check, Halt, Conclude, RecoverStale, Claim,
   NothingToClaim, ReadStatus, ReadControl, Advance, Plan, Poll, GitHangs, PersistFinding,
   ReviewDone, WriteReport, Fail, SaveOutcome, HonourStop, HonourCancel, FinishCancel,
   Crash, SyncHangs, Restart, LeaseExpires, tables

(* With no operator about, no step hands a task out before an older one.   *)
LEMMA QueueStep ==
  LifecycleInv /\ OldestFirst /\ RunningWasHandedOut /\ [QueueNext]_vars
    => OldestFirst' /\ RunningWasHandedOut'
<1> SUFFICES ASSUME LifecycleInv, OldestFirst, RunningWasHandedOut, [QueueNext]_vars
             PROVE  OldestFirst' /\ RunningWasHandedOut'
  OBVIOUS
<1>1. TypeOK /\ NamedTasksExist
  BY DEF LifecycleInv
<1>2. ASSUME NEW t \in Tasks, NEW d \in Daemons, Claim(d, t)
      PROVE  /\ row[t].status = "queued" /\ created' = created
             /\ row'[t].status = "running" /\ row'[t].attempts > 0
             /\ \A u \in Tasks : /\ u # t => row'[u] = row[u]
                                 /\ row[u].status = "queued" => created[t] <= created[u]
  BY <1>1, <1>2 DEF Claim, Claimable, claim_task, TypeOK, Row
<1>3. RunningWasHandedOut'
  BY <1>1, <1>2, QueueAttempts DEF RunningWasHandedOut
<1>4. ASSUME NEW t \in Tasks, NEW u \in Tasks, row'[t].status = "queued",
             row'[t].attempts = 0, created'[t] < created'[u]
      PROVE  row'[u].attempts = 0
  <2>1. created \in [Tasks -> Nat] /\ row[t].attempts \in Nat /\ row[u].attempts \in Nat
    BY <1>1 DEF TypeOK, Row
  <2>2. /\ row[t].attempts = 0
        /\ row[t].status = "queued" \/ Submit(t)
    BY <1>2, <1>4, <2>1, QueueAttempts DEF RunningWasHandedOut
  <2>3. CASE \E d \in Daemons : Claim(d, u)
    <3>1. row[t].status = "queued" /\ created[u] <= created[t] /\ created' = created
      BY <1>2, <1>4, <2>3
    <3>2. QED
      BY <1>4, <2>1, <3>1
  <2>4. CASE Submit(u)
    BY <1>1, <2>4 DEF Submit, create_task, NoRow, TypeOK
  <2>5. CASE Submit(t) /\ u # t
    <3>1. created'[u] <= created'[t]
      BY <1>1, <2>1, <2>5 DEF Submit
    <3>2. QED
      BY <1>4, <2>1, <2>5, <3>1 DEF Submit
  <2>6. CASE ~Submit(t) /\ ~Submit(u) /\ ~ \E d \in Daemons : Claim(d, u)
    <3>1. created'[t] = created[t] /\ created'[u] = created[u]
      BY <2>1, <2>6, QueueCreated DEF Submit
    <3>2. row[u].attempts = 0
      BY <1>4, <2>2, <2>6, <3>1 DEF OldestFirst
    <3>3. QED
      BY <2>6, <3>2, QueueAttempts
  <2>7. QED
    BY <1>4, <2>1, <2>3, <2>4, <2>5, <2>6
<1>5. QED
  BY <1>3, <1>4 DEF OldestFirst

(* Without operators the queue is served oldest first, for every number of *)
(* tasks, daemons and crashes.                                             *)
THEOREM OldestFirstCorrect == QueueSpec => []OldestFirst
<1>1. Init => OldestFirst /\ RunningWasHandedOut
  BY DEF Init, NoRow, OldestFirst, RunningWasHandedOut
<1>2. [QueueNext]_vars => [Next]_vars
  BY DEF QueueNext, Next
<1>3. LifecycleInv /\ [Next]_vars => LifecycleInv'
  BY StepTyped, StepRuns, StepBudget, StepNames DEF LifecycleInv
<1>4. QED
  BY <1>1, <1>2, <1>3, InitInv, QueueStep, PTL DEF QueueSpec
=============================================================================
