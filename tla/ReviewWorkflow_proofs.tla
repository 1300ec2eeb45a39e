----------------------- MODULE ReviewWorkflow_proofs -----------------------
(***************************************************************************)
(* Theorems about ReviewWorkflow, for every change, judge's report, list   *)
(* of specialists, size of the reviewer pool and number of daemons, except *)
(* VerdictIsBacked, which holds for one daemon only.  Until the section on *)
(* the judge's report, what normalize keeps of one is left open.           *)
(***************************************************************************)
EXTENDS ReviewWorkflow, FiniteSetTheorems, WellFoundedInduction, TLAPS

OneDaemon == \A d, e \in Daemons : d = e

(* Requests and acknowledgements keep the controls of a task well typed.   *)
LEMMA ControlTyped ==
  /\ NoControl \in Controls
  /\ \A c \in Controls : /\ acknowledge_stops(c) \in Controls
                         /\ \A a \in ControlActions : request_control(c, a) \in Controls
BY DEF NoControl, Controls, ControlActions, acknowledge_stops, request_control

-----------------------------------------------------------------------------
(* The inductive invariants.                                               *)

Fields == {"pc", "thread", "verb", "failed", "judge", "report", "todo", "gate"}

IsFunction(f) == f = [x \in DOMAIN f |-> f[x]]

(* The shapes the proofs need of a daemon's work and of the tables.        *)
Shape(w) ==
  /\ DOMAIN w = Fields /\ IsFunction(w) /\ IsFunction(w.thread)
  /\ w.pc \in Pcs /\ w.failed \in BOOLEAN

Shaped ==
  /\ DOMAIN work = Daemons /\ IsFunction(work) /\ \A d \in Daemons : Shape(work[d])
  /\ DOMAIN row = DOMAIN NoRow /\ DOMAIN runs = Reviewers /\ IsFunction(runs)
  /\ crashes \in Nat /\ controls \in Controls

(* Outside of the fan-out no thread and no run remembers a control request *)
(* unless it is ending on it.                                              *)
ControlMet(w) ==
  w.pc \notin {"fanout", "halt"} =>
    /\ w.verb = "none"
    /\ \A i \in DOMAIN w.thread : w.thread[i] \notin ControlActions

(* A run about to fail the gate has stored a finding, and one that has     *)
(* findings to store has some left or has stored one.                      *)
FindingsAreStored(w) ==
  /\ w.pc = "save" /\ w.gate = "failed" => findings # {}
  /\ w.pc = "persist" /\ normalize(w.report) # {} => w.todo # {} \/ findings # {}

WorkflowInv ==
  /\ Shaped
  /\ \A d \in Daemons : ControlMet(work[d]) /\ FindingsAreStored(work[d])
  /\ StoppedIsSettled /\ RejectionCanBeAnswered

(* A run that has judged the change, or will write a verdict on it.        *)
Verdicts == {"passed", "failed"}
concluding(w) == w.pc = "save" /\ w.gate \in Verdicts
reviewed(w) == w.pc \in {"judge", "judging", "judged", "persist"} \/ concluding(w)
judged(w) == w.pc = "persist" \/ concluding(w)
reported == row.status = "success" /\ row.gate \in Verdicts

Planned == prepare_review_guard(context) = "review"
PlanSucceeded == \A i \in DOMAIN plan : runs[plan[i]] = "success"

(* A reviewer whose output was collected has a successful run.             *)
ThreadsSucceeded(w) ==
  w.pc = "fanout" =>
    /\ DOMAIN w.thread = DOMAIN plan
    /\ \A i \in DOMAIN plan :
         w.thread[i] = "output" \/ (w.thread[i] = "collected" /\ ~w.failed /\ w.verb = "none")
           => runs[plan[i]] = "success"

(* What a verdict rests on while it is worked out, from the context to the *)
(* judge, and once it is in the row.                                       *)
RunIsBacked(w) ==
  /\ w.pc \in {"plan", "fanout"} \/ reviewed(w) => context = prepare(change)
  /\ w.pc = "fanout" \/ reviewed(w) => Planned
  /\ ThreadsSucceeded(w)
  /\ reviewed(w) => PlanSucceeded
  /\ judged(w) => runs[Judge] = "success"

ReportIsBacked ==
  reported => /\ context = prepare(change) /\ Planned
              /\ PlanSucceeded /\ runs[Judge] = "success"

SuccessIsIdle == row.status = "success" => \A d \in Daemons : at(d, "idle")

VerdictInv ==
  /\ change \in Changes /\ ReportIsBacked /\ SuccessIsIdle
  /\ \A d \in Daemons : RunIsBacked(work[d])

-----------------------------------------------------------------------------
(* What a step does to the work of a daemon.                               *)

Others(d) == DOMAIN work' = Daemons /\ IsFunction(work')
             /\ \A e \in Daemons : e # d => work'[e] = work[e]

(* A field of a daemon's work is written, or all of it.                    *)
LEMMA Written ==
  ASSUME Shaped, NEW d \in Daemons, NEW w, work' = [work EXCEPT ![d] = w]
  PROVE  Others(d) /\ work'[d] = w
BY DEF Shaped, Others, IsFunction

(* A run goes on to pc with what it has.                                   *)
LEMMA Goes ==
  ASSUME Shaped, NEW d \in Daemons, NEW pc \in Pcs, goes(d, pc)
  PROVE  /\ Others(d) /\ work'[d] = [work[d] EXCEPT !.pc = pc]
         /\ Shape(work'[d]) /\ work'[d].pc = pc
         /\ \A f \in Fields \ {"pc"} : work'[d][f] = work[d][f]
BY DEF Shaped, Shape, Others, IsFunction, goes, Fields

(* A run has a gate to save.                                               *)
LEMMA Ends ==
  ASSUME Shaped, NEW d \in Daemons, NEW gate, ends(d, gate)
  PROVE  /\ Others(d) /\ Shape(work'[d]) /\ work'[d].pc = "save" /\ work'[d].gate = gate
         /\ work'[d].thread = work[d].thread /\ work'[d].verb = work[d].verb
<1>1. DOMAIN work = Daemons /\ DOMAIN work[d] = Fields /\ Shape(work[d])
  BY DEF Shaped, Shape
<1>2. Others(d)
  BY <1>1 DEF Others, IsFunction, ends
<1>3. /\ DOMAIN work'[d] = Fields /\ IsFunction(work'[d])
      /\ work'[d].pc = "save" /\ work'[d].gate = gate
      /\ work'[d].thread = work[d].thread /\ work'[d].verb = work[d].verb
      /\ work'[d].failed = work[d].failed
  BY <1>1 DEF IsFunction, ends, Fields
<1>4. QED
  BY <1>1, <1>2, <1>3 DEF Shape, Pcs

(* A daemon without a run, and one that halts, have nothing in hand.       *)
LEMMA IdleShape ==
  /\ Shape(Idle) /\ Idle.pc = "idle" /\ Idle.verb = "none" /\ DOMAIN Idle.thread = {}
  /\ \A verb : LET w == [Idle EXCEPT !.pc = "halt", !.verb = verb] IN
       Shape(w) /\ w.pc = "halt" /\ w.verb = verb /\ DOMAIN w.thread = {}
<1>1. DOMAIN Idle = Fields /\ Idle.pc = "idle" /\ Idle.verb = "none" /\ Idle.thread = <<>>
      /\ Idle.failed = FALSE
  BY DEF Idle, Fields
<1>2. IsFunction(<<>>) /\ DOMAIN <<>> = {}
  BY DEF IsFunction
<1>3. IsFunction(Idle)
  BY DEF Idle, IsFunction
<1>4. ASSUME NEW verb
      PROVE  LET w == [Idle EXCEPT !.pc = "halt", !.verb = verb] IN
             /\ DOMAIN w = Fields /\ IsFunction(w) /\ w.thread = <<>> /\ w.failed = FALSE
             /\ w.pc = "halt" /\ w.verb = verb
  BY <1>1, <1>3 DEF IsFunction, Fields
<1>5. QED
  BY <1>1, <1>2, <1>3, <1>4 DEF Shape, Pcs

(* A run halts.                                                            *)
LEMMA Halts ==
  ASSUME Shaped, NEW d \in Daemons, NEW verb, halts_on(d, verb)
  PROVE  Others(d) /\ Shape(work'[d]) /\ work'[d].pc = "halt"
<1> DEFINE w == [Idle EXCEPT !.pc = "halt", !.verb = verb]
<1>1. work' = [work EXCEPT ![d] = w]
  BY DEF halts_on
<1>2. Shape(w) /\ w.pc = "halt"
  BY IdleShape
<1> HIDE DEF w
<1>3. QED
  BY <1>1, <1>2, Written

(* One thread of the pool goes on, the others stay where they are.         *)
LEMMA Becomes ==
  ASSUME Shaped, NEW d \in Daemons, NEW i \in DOMAIN work[d].thread, NEW state,
         becomes(d, i, state)
  PROVE  /\ Others(d) /\ Shape(work'[d])
         /\ \A f \in Fields \ {"thread"} : work'[d][f] = work[d][f]
         /\ DOMAIN work'[d].thread = DOMAIN work[d].thread /\ work'[d].thread[i] = state
         /\ \A j \in DOMAIN work[d].thread : j # i => work'[d].thread[j] = work[d].thread[j]
BY DEF Shaped, Shape, Others, IsFunction, becomes, Fields

(* A thread's result is collected.                                         *)
LEMMA Collected ==
  ASSUME Shaped, NEW d \in Daemons, NEW i \in DOMAIN work[d].thread, Collect(d, i)
  PROVE  /\ Others(d) /\ Shape(work'[d]) /\ work'[d].pc = "fanout"
         /\ DOMAIN work'[d].thread = DOMAIN work[d].thread
         /\ work'[d].thread[i] = "collected"
         /\ \A j \in DOMAIN work[d].thread : j # i => work'[d].thread[j] = work[d].thread[j]
         /\ work'[d].failed = (work[d].failed \/ work[d].thread[i] = "failure")
         /\ work'[d].verb = IF work[d].thread[i] \in ControlActions THEN work[d].thread[i]
                            ELSE work[d].verb
<1>1. DOMAIN work = Daemons /\ Shape(work[d]) /\ work[d].pc = "fanout"
  BY DEF Shaped, Collect, at
<1> DEFINE failed == work[d].failed \/ work[d].thread[i] = "failure"
           verb == IF work[d].thread[i] \in ControlActions THEN work[d].thread[i]
                   ELSE work[d].verb
<1>2. work' = [work EXCEPT ![d].thread[i] = "collected", ![d].failed = failed, ![d].verb = verb]
  BY <1>1 DEF Collect, thread, Shape, Fields
<1>3. failed \in BOOLEAN
  BY <1>1 DEF Shape
<1> HIDE DEF failed, verb
<1>4. Others(d)
  BY <1>1, <1>2 DEF Others, IsFunction
<1>5. /\ DOMAIN work'[d] = Fields /\ IsFunction(work'[d]) /\ work'[d].pc = "fanout"
      /\ work'[d].failed = failed /\ work'[d].verb = verb
      /\ work'[d].thread = [work[d].thread EXCEPT ![i] = "collected"]
  BY <1>1, <1>2 DEF Shape, IsFunction, Fields
<1>6. QED
  BY <1>1, <1>3, <1>4, <1>5 DEF Shape, IsFunction, Pcs, failed, verb

(* The fan-out starts with every planned reviewer waiting.                 *)
LEMMA FanOut ==
  ASSUME Shaped, NEW d \in Daemons,
         work' = [work EXCEPT ![d].pc = "fanout", ![d].thread = [i \in DOMAIN plan |-> "waiting"]]
  PROVE  /\ Others(d) /\ Shape(work'[d]) /\ work'[d].pc = "fanout"
         /\ work'[d].thread = [i \in DOMAIN plan |-> "waiting"]
<1> DEFINE threads == [i \in DOMAIN plan |-> "waiting"]
<1>1. DOMAIN work = Daemons /\ Shape(work[d]) /\ IsFunction(threads)
  BY DEF Shaped, IsFunction
<1> HIDE DEF threads
<1>2. Others(d)
  BY <1>1 DEF Others, IsFunction
<1>3. /\ DOMAIN work'[d] = Fields /\ IsFunction(work'[d]) /\ work'[d].pc = "fanout"
      /\ work'[d].failed = work[d].failed /\ work'[d].thread = threads
  BY <1>1 DEF Shape, IsFunction, Fields, threads
<1>4. QED
  BY <1>1, <1>2, <1>3 DEF Shape, Pcs, threads

(* The judge has answered: its findings are the ones to store.             *)
LEMMA Answers ==
  ASSUME Shaped, NEW d \in Daemons, JudgeAnswers(d)
  PROVE  /\ Others(d) /\ Shape(work'[d]) /\ work'[d].pc = "persist"
         /\ work'[d].report \in Reports /\ work'[d].todo = normalize(work'[d].report)
         /\ work'[d].thread = work[d].thread /\ work'[d].verb = work[d].verb
<1>1. DOMAIN work = Daemons /\ Shape(work[d])
  BY DEF Shaped
<1>2. PICK report \in Reports :
        work' = [work EXCEPT ![d].pc = "persist", ![d].judge = "failed",
                             ![d].report = report, ![d].todo = normalize(report)]
  BY DEF JudgeAnswers
<1>3. Others(d)
  BY <1>1, <1>2 DEF Others, IsFunction
<1>4. /\ DOMAIN work'[d] = Fields /\ IsFunction(work'[d]) /\ work'[d].pc = "persist"
      /\ work'[d].failed = work[d].failed /\ work'[d].report = report
      /\ work'[d].todo = normalize(report)
      /\ work'[d].thread = work[d].thread /\ work'[d].verb = work[d].verb
  BY <1>1, <1>2 DEF Shape, IsFunction, Fields
<1>5. QED
  BY <1>1, <1>3, <1>4 DEF Shape, Pcs

(* A finding is stored, or the run ends instead.                           *)
LEMMA Stores ==
  ASSUME Shaped, NEW d \in Daemons, create_finding(d)
  PROVE  \/ halts(d) /\ findings' = findings
         \/ ends(d, "incomplete") /\ findings' = findings
         \/ /\ Others(d) /\ Shape(work'[d]) /\ findings' # {}
            /\ work'[d].pc = "persist" /\ work'[d].report = work[d].report
            /\ work'[d].thread = work[d].thread /\ work'[d].verb = work[d].verb
<1>1. DOMAIN work = Daemons /\ Shape(work[d]) /\ work[d].pc = "persist"
  BY DEF Shaped, create_finding, at
<1>2. SUFFICES ASSUME NEW c \in work[d].todo, findings' = findings \cup {c.id},
                      work' = [work EXCEPT ![d].todo = @ \ {c}]
               PROVE  /\ Others(d) /\ Shape(work'[d]) /\ findings' # {}
                      /\ work'[d].pc = "persist" /\ work'[d].report = work[d].report
                      /\ work'[d].thread = work[d].thread /\ work'[d].verb = work[d].verb
  BY DEF create_finding
<1>3. Others(d) /\ findings' # {}
  BY <1>1, <1>2 DEF Others, IsFunction
<1>4. /\ DOMAIN work'[d] = Fields /\ IsFunction(work'[d]) /\ work'[d].pc = "persist"
      /\ work'[d].failed = work[d].failed /\ work'[d].report = work[d].report
      /\ work'[d].thread = work[d].thread /\ work'[d].verb = work[d].verb
  BY <1>1, <1>2 DEF Shape, IsFunction, Fields
<1>5. QED
  BY <1>1, <1>3, <1>4 DEF Shape

-----------------------------------------------------------------------------
(* Control requests, findings and the rows of the reviewers, for any       *)
(* number of daemons.                                                      *)

(* What a step of a daemon makes of its own work.                          *)
Leaves(d) == SaveOutcome(d) \/ Halt(d) \/ Crash(d)

OwnWork(d) ==
  /\ Others(d) /\ Shape(work'[d]) /\ ControlMet(work'[d])
  /\ FindingsAreStored(work[d])'
  /\ work'[d].pc = "idle" => Leaves(d)

(* A daemon that leaves its run satisfies the invariant.                   *)
LEMMA IdleOwn ==
  ASSUME Shaped, NEW d \in Daemons, Leaves(d)
  PROVE  OwnWork(d)
<1>1. work' = [work EXCEPT ![d] = Idle]
  BY DEF Leaves, SaveOutcome, Halt, Crash
<1>2. QED
  BY <1>1, Written, IdleShape DEF OwnWork, ControlMet, FindingsAreStored

(* So does one that halts it,                                              *)
LEMMA HaltOwn ==
  ASSUME Shaped, NEW d \in Daemons, NEW verb, halts_on(d, verb)
  PROVE  OwnWork(d)
BY Halts DEF OwnWork, ControlMet, FindingsAreStored

(* one that ends it without a verdict after no control was met,            *)
LEMMA EndOwn ==
  ASSUME Shaped, NEW d \in Daemons, NEW gate, ends(d, gate), gate # "failed",
         \/ ControlMet(work[d]) /\ work[d].pc \notin {"fanout", "halt"}
         \/ work[d].verb = "none"
            /\ \A i \in DOMAIN work[d].thread : work[d].thread[i] \notin ControlActions
  PROVE  OwnWork(d)
BY Ends DEF OwnWork, ControlMet, FindingsAreStored

(* one that goes on after no control was met,                              *)
LEMMA GoOwn ==
  ASSUME Shaped, NEW d \in Daemons, NEW pc \in Pcs \ {"save", "persist", "idle"}, goes(d, pc),
         \/ ControlMet(work[d]) /\ work[d].pc \notin {"fanout", "halt"}
         \/ work[d].verb = "none"
            /\ \A i \in DOMAIN work[d].thread : work[d].thread[i] \notin ControlActions
  PROVE  OwnWork(d)
<1>1. work'[d].verb = work[d].verb /\ work'[d].thread = work[d].thread
  BY Goes DEF Fields
<1>2. QED
  BY <1>1, Goes DEF OwnWork, ControlMet, FindingsAreStored

(* and one of which a thread goes on.                                      *)
LEMMA BecomeOwn ==
  ASSUME Shaped, NEW d \in Daemons, NEW i \in DOMAIN work[d].thread, NEW state,
         becomes(d, i, state), work[d].pc = "fanout"
  PROVE  OwnWork(d)
<1>1. work'[d].pc = "fanout"
  BY Becomes DEF Fields
<1>2. QED
  BY <1>1, Becomes DEF OwnWork, ControlMet, FindingsAreStored

(* Every step of a daemon keeps what the invariant says of its own work.   *)
LEMMA StepOwn ==
  ASSUME WorkflowInv, NEW d \in Daemons, Claim(d) \/ Workflow(d) \/ Crash(d)
  PROVE  OwnWork(d)
<1>1. Shaped /\ ControlMet(work[d]) /\ FindingsAreStored(work[d])
  BY DEF WorkflowInv
<1>2. CASE Crash(d) \/ SaveOutcome(d) \/ Halt(d)
  BY <1>1, <1>2, IdleOwn DEF Leaves
<1>3. CASE Claim(d)
  BY <1>1, <1>3, GoOwn DEF Claim, at, Pcs
<1>4. CASE Prepare(d) \/ PrepareContext(d)
  BY <1>1, <1>4, GoOwn, HaltOwn, EndOwn DEF Prepare, PrepareContext, Checked, halts, at, Pcs
<1>5. CASE Plan(d)
  <2>1. \/ halts(d) \/ ends(d, "skipped") \/ ends(d, "context_too_large")
        \/ work' = [work EXCEPT ![d].pc = "fanout",
                      ![d].thread = [i \in DOMAIN plan |-> "waiting"]]
    BY <1>5 DEF Plan, Checked, prepare_review_guard
  <2>2. CASE work' = [work EXCEPT ![d].pc = "fanout",
                        ![d].thread = [i \in DOMAIN plan |-> "waiting"]]
    BY <1>1, <2>2, FanOut DEF OwnWork, ControlMet, FindingsAreStored
  <2>3. QED
    BY <1>1, <1>5, <2>1, <2>2, HaltOwn, EndOwn DEF Plan, halts, at
<1>6. ASSUME NEW i \in DOMAIN work[d].thread, Reviewer(d, i)
      PROVE  OwnWork(d)
  <2>1. CASE Collect(d, i)
    BY <1>1, <2>1, Collected DEF OwnWork, ControlMet, FindingsAreStored
  <2>2. CASE BeginReviewer(d, i) \/ StartReviewer(d, i) \/ TurnEnds(d, i) \/ FinishReviewer(d, i)
    BY <1>1, <2>2, BecomeOwn DEF BeginReviewer, StartReviewer, TurnEnds, FinishReviewer, at
  <2>3. QED
    BY <1>6, <2>1, <2>2 DEF Reviewer
<1>7. CASE Join(d)
  <2>1. \A i \in DOMAIN work[d].thread : work[d].thread[i] \notin ControlActions
    BY <1>7 DEF Join, thread, ControlActions
  <2>2. QED
    BY <1>1, <1>7, <2>1, GoOwn, HaltOwn, EndOwn DEF Join, Checked, halts, Pcs
<1>8. CASE StartJudge(d) \/ JudgeFails(d)
  BY <1>1, <1>8, GoOwn, EndOwn DEF StartJudge, JudgeFails, at, Pcs
<1>9. CASE JudgeTurnEnds(d)
  <2>1. ASSUME NEW r \in Results, work' = [work EXCEPT ![d].pc = "judged", ![d].judge = r]
        PROVE  OwnWork(d)
    <3>1. DOMAIN work = Daemons /\ Shape(work[d]) /\ work[d].pc = "judging"
      BY <1>1, <1>9 DEF Shaped, JudgeTurnEnds, at
    <3>2. Others(d)
      BY <2>1, <3>1 DEF Others, IsFunction
    <3>3. /\ DOMAIN work'[d] = Fields /\ IsFunction(work'[d]) /\ work'[d].pc = "judged"
          /\ work'[d].failed = work[d].failed
          /\ work'[d].thread = work[d].thread /\ work'[d].verb = work[d].verb
      BY <2>1, <3>1 DEF Shape, IsFunction, Fields
    <3>4. QED
      BY <1>1, <3>1, <3>2, <3>3 DEF Shape, Pcs, OwnWork, ControlMet, FindingsAreStored
  <2>2. QED
    BY <1>1, <1>9, <2>1, HaltOwn, EndOwn DEF JudgeTurnEnds, Checked, halts, at
<1>10. CASE JudgeAnswers(d)
  BY <1>1, <1>10, Answers DEF JudgeAnswers, at, OwnWork, ControlMet, FindingsAreStored
<1>11. CASE create_finding(d)
  <2>1. work[d].pc = "persist"
    BY <1>11 DEF create_finding, at
  <2>2. CASE halts(d) \/ ends(d, "incomplete")
    BY <1>1, <2>1, <2>2, HaltOwn, EndOwn DEF halts
  <2>3. CASE /\ Others(d) /\ Shape(work'[d]) /\ findings' # {}
             /\ work'[d].pc = "persist"
             /\ work'[d].thread = work[d].thread /\ work'[d].verb = work[d].verb
    BY <1>1, <2>1, <2>3 DEF OwnWork, ControlMet, FindingsAreStored
  <2>4. QED
    BY <1>1, <1>11, <2>2, <2>3, Stores
<1>12. CASE Conclude(d)
  <2>1. work[d].pc = "persist" /\ work[d].todo = {} /\ findings' = findings
    BY <1>12 DEF Conclude, at, database
  <2>2. CASE halts(d)
    BY <1>1, <2>2, HaltOwn DEF halts
  <2>3. CASE ends(d, gate_status(d))
    <3>1. gate_status(d) = "failed" => findings' # {}
      BY <1>1, <2>1 DEF gate_status, FindingsAreStored
    <3>2. QED
      BY <1>1, <2>1, <2>3, <3>1, Ends DEF OwnWork, ControlMet, FindingsAreStored
  <2>4. QED
    BY <1>12, <2>2, <2>3 DEF Conclude, Checked
<1>13. QED
  BY <1>2, <1>3, <1>4, <1>5, <1>6, <1>7, <1>8, <1>9, <1>10, <1>11, <1>12 DEF Workflow

(* What the transactions on the task's row do to the two columns at stake. *)
LEMMA RowColumns ==
  ASSUME DOMAIN row = DOMAIN NoRow, NEW d
  PROVE  /\ LET r == claim_task(row, d) IN
              DOMAIN r = DOMAIN row /\ r.status = "running" /\ r.gate = row.gate
         /\ LET r == recover_row(row, MaxAttempts) IN
              /\ DOMAIN r = DOMAIN row /\ r.status \in {"queued", "failed"}
              /\ r.gate \in {row.gate, "incomplete"}
         /\ LET r == [row EXCEPT !.lease = "expired"] IN
              DOMAIN r = DOMAIN row /\ r.status = row.status /\ r.gate = row.gate
         /\ DOMAIN cancel_row(row) = DOMAIN row /\ DOMAIN stop_row(row) = DOMAIN row
         /\ DOMAIN requeue_row(row) = DOMAIN row
         /\ cancel_row(row).status = "cancelled" /\ cancel_row(row).gate = "cancelled"
         /\ stop_row(row).status = "cancelled" /\ stop_row(row).gate = "stopped"
         /\ requeue_row(row).status = "queued" /\ requeue_row(row).gate = "null"
<1>1. DOMAIN row = {"status", "gate", "owner", "lease", "attempts", "callback",
                    "callbackAttempts", "callbackDue", "digest"}
  BY DEF NoRow
<1>2. QED
  BY <1>1 DEF claim_task, recover_row, cancel_row, stop_row, requeue_row

(* An outcome writes the status and the gate.                              *)
LEMMA RowOutcome ==
  ASSUME DOMAIN row = DOMAIN NoRow, NEW status, NEW gate,
         row' = update_task_outcome(row, FALSE, status, gate)
  PROVE  DOMAIN row' = DOMAIN row /\ row'.status = status /\ row'.gate = gate
BY DEF NoRow, update_task_outcome

(* What every step but that of SaveOutcome is: it leaves the gate alone or *)
(* takes a verdict back, and loses no finding.                             *)
Modest ==
  /\ DOMAIN row' = DOMAIN row
  /\ row'.gate = row.gate \/ row'.gate \in {"cancelled", "stopped", "null", "incomplete"}
  /\ findings \subseteq findings'

(* Only SaveOutcome writes a verdict.                                      *)
LEMMA StepRow ==
  ASSUME WorkflowInv, [Next]_vars
  PROVE  \/ Modest
         \/ \E d \in Daemons : SaveOutcome(d)
<1>1. Shaped
  BY DEF WorkflowInv
<1>2. ASSUME row' = row, findings \subseteq findings'
      PROVE  Modest
  BY <1>2 DEF Modest
<1>3. CASE UNCHANGED vars
  BY <1>2, <1>3 DEF vars, database
<1>4. CASE LeaseExpires
  BY <1>1, <1>4, RowColumns DEF Shaped, LeaseExpires, Modest
<1>5. CASE RequestStop \/ Cancel \/ Requeue
  BY <1>1, <1>5, RowColumns DEF Shaped, RequestStop, Cancel, Requeue, Asks, cancel_task, Modest
<1>6. ASSUME NEW d \in Daemons, Claim(d) \/ RecoverStale(d) \/ Halt(d)
      PROVE  Modest
  <2>1. CASE Claim(d)
    BY <1>1, <2>1, RowColumns DEF Shaped, Claim, Modest
  <2>2. CASE RecoverStale(d)
    BY <1>1, <2>2, RowColumns DEF Shaped, RecoverStale, Modest
  <2>3. CASE Halt(d)
    BY <1>1, <2>3, RowColumns DEF Shaped, Halt, cancel_task, mark_task_stopped, Modest
  <2>4. QED
    BY <1>6, <2>1, <2>2, <2>3
<1>7. ASSUME NEW d \in Daemons, Workflow(d) \/ Crash(d), ~Halt(d), ~SaveOutcome(d)
      PROVE  Modest
  <2>1. row' = row /\ findings \subseteq findings'
    BY <1>7 DEF Workflow, Crash, Prepare, PrepareContext, Plan, Reviewer, BeginReviewer,
       StartReviewer, TurnEnds, FinishReviewer, Collect, Join, StartJudge, JudgeTurnEnds,
       JudgeFails, JudgeAnswers, create_finding, Conclude, database
  <2>2. QED
    BY <1>2, <2>1
<1>8. QED
  BY <1>3, <1>4, <1>5, <1>6, <1>7 DEF Next

(* The rows of the reviewers are written by their threads, by the judge's  *)
(* turn, and by whoever ends or requeues the task.                         *)
LEMMA StepRuns ==
  ASSUME WorkflowInv, [Next]_vars
  PROVE  /\ DOMAIN runs' = Reviewers /\ IsFunction(runs')
         /\ \/ runs' = runs /\ (row' = row \/ row'.status # "cancelled")
            \/ runs' = settled
            \/ row'.status = "queued"
            \/ \E d \in Daemons : ~at(d, "idle") /\ work'[d].pc # "idle" /\ row' = row
<1>1. Shaped /\ DOMAIN row = DOMAIN NoRow /\ DOMAIN runs = Reviewers /\ IsFunction(runs)
  BY DEF WorkflowInv, Shaped
<1>2. CASE UNCHANGED vars
  BY <1>1, <1>2 DEF vars, database
<1>3. CASE LeaseExpires \/ RequestStop \/ Cancel \/ Requeue
  BY <1>1, <1>3, RowColumns DEF LeaseExpires, RequestStop, Cancel, Requeue, Asks, cancel_task,
     settled, IsFunction
<1>4. ASSUME NEW d \in Daemons, Claim(d) \/ RecoverStale(d) \/ Halt(d) \/ SaveOutcome(d)
      PROVE  /\ DOMAIN runs' = Reviewers /\ IsFunction(runs')
             /\ \/ runs' = runs /\ (row' = row \/ row'.status # "cancelled")
                \/ runs' = settled
  <2>1. CASE Claim(d)
    BY <1>1, <2>1, RowColumns DEF Claim
  <2>2. CASE RecoverStale(d)
    BY <1>1, <2>2, RowColumns DEF RecoverStale
  <2>3. CASE SaveOutcome(d)
    <3>1. PICK status \in {"success", "failed"} :
            \E gate : row' = update_task_outcome(row, FALSE, status, gate)
      BY <2>3 DEF SaveOutcome
    <3>2. row'.status = status
      BY <1>1, <3>1, RowOutcome
    <3>3. QED
      BY <1>1, <2>3, <3>2 DEF SaveOutcome
  <2>4. CASE Halt(d)
    BY <1>1, <2>4 DEF Halt, cancel_task, mark_task_stopped, settled, IsFunction
  <2>5. QED
    BY <1>4, <2>1, <2>2, <2>3, <2>4
<1>5. ASSUME NEW d \in Daemons, NEW i \in DOMAIN work[d].thread,
             StartReviewer(d, i) \/ FinishReviewer(d, i)
      PROVE  /\ DOMAIN runs' = Reviewers /\ IsFunction(runs') /\ row' = row
             /\ ~at(d, "idle") /\ work'[d].pc # "idle"
  <2>1. work[d].pc = "fanout" /\ work'[d].pc = "fanout"
    BY <1>1, <1>5, Becomes DEF StartReviewer, FinishReviewer, at, Fields
  <2>2. QED
    BY <1>1, <1>5, <2>1 DEF StartReviewer, FinishReviewer, start_reviewer_run,
       finish_reviewer_run, at, IsFunction
<1>6. ASSUME NEW d \in Daemons, StartJudge(d) \/ JudgeFails(d) \/ JudgeAnswers(d)
      PROVE  /\ DOMAIN runs' = Reviewers /\ IsFunction(runs') /\ row' = row
             /\ ~at(d, "idle") /\ work'[d].pc # "idle"
  <2>1. work[d].pc # "idle" /\ work'[d].pc # "idle"
    BY <1>1, <1>6, Goes, Ends, Answers DEF StartJudge, JudgeFails, JudgeAnswers, at, Pcs
  <2>2. QED
    BY <1>1, <1>6, <2>1 DEF StartJudge, JudgeFails, JudgeAnswers, start_reviewer_run,
       finish_reviewer_run, at, IsFunction
<1>7. ASSUME NEW d \in Daemons,
             \/ Prepare(d) \/ PrepareContext(d) \/ Plan(d) \/ Join(d) \/ JudgeTurnEnds(d)
             \/ create_finding(d) \/ Conclude(d) \/ Crash(d)
             \/ \E i \in DOMAIN work[d].thread :
                  BeginReviewer(d, i) \/ TurnEnds(d, i) \/ Collect(d, i)
      PROVE  runs' = runs /\ row' = row
  BY <1>7 DEF Prepare, PrepareContext, Plan, Join, JudgeTurnEnds, create_finding, Conclude,
     Crash, BeginReviewer, TurnEnds, Collect, database
<1>8. QED
  BY <1>1, <1>2, <1>3, <1>4, <1>5, <1>6, <1>7 DEF Next, Workflow, Reviewer

(* The initial state satisfies the inductive invariant.                    *)
LEMMA InitWorkflow == Init => WorkflowInv
<1> SUFFICES ASSUME Init PROVE WorkflowInv
  OBVIOUS
<1>1. work = [d \in Daemons |-> Idle] /\ DOMAIN work = Daemons /\ IsFunction(work)
  BY DEF Init, IsFunction
<1>2. \A d \in Daemons : Shape(work[d]) /\ ControlMet(work[d]) /\ FindingsAreStored(work[d])
  BY <1>1, IdleShape DEF ControlMet, FindingsAreStored
<1>3. DOMAIN row = DOMAIN NoRow /\ row.status = "queued" /\ row.gate = "null"
  BY DEF Init, create_task, NoRow
<1>4. DOMAIN runs = Reviewers /\ IsFunction(runs) /\ crashes \in Nat /\ controls \in Controls
  BY ControlTyped DEF Init, IsFunction
<1>5. QED
  BY <1>1, <1>2, <1>3, <1>4 DEF WorkflowInv, Shaped, StoppedIsSettled, RejectionCanBeAnswered

(* Every step keeps the inductive invariant.                               *)
LEMMA StepWorkflow == WorkflowInv /\ [Next]_vars => WorkflowInv'
<1> SUFFICES ASSUME WorkflowInv, [Next]_vars PROVE WorkflowInv'
  OBVIOUS
<1>1. Shaped
  BY DEF WorkflowInv
<1>2. /\ \A d \in Daemons : ControlMet(work[d]) /\ FindingsAreStored(work[d])
      /\ StoppedIsSettled /\ RejectionCanBeAnswered
  BY DEF WorkflowInv
<1>3. \/ work' = work /\ crashes' = crashes
      \/ \E d \in Daemons : OwnWork(d)
  <2>1. \/ work' = work /\ crashes' = crashes
        \/ \E d \in Daemons : Claim(d) \/ Workflow(d) \/ Crash(d)
    BY DEF Next, vars, RecoverStale, LeaseExpires, RequestStop, Cancel, Requeue, Asks,
       cancel_task, environment, database
  <2>2. QED
    BY <2>1, StepOwn
<1>4. /\ DOMAIN row' = DOMAIN NoRow /\ findings \subseteq findings'
      /\ row'.gate = "failed" => findings' # {}
  <2>1. CASE Modest
    BY <1>1, <1>2, <2>1 DEF Shaped, Modest, RejectionCanBeAnswered
  <2>2. ASSUME NEW d \in Daemons, SaveOutcome(d)
        PROVE  /\ DOMAIN row' = DOMAIN NoRow /\ findings' = findings
               /\ row'.gate = work[d].gate /\ work[d].pc = "save"
    <3> DEFINE gate == work[d].gate
               status == IF gate \in ReviewGates THEN "success" ELSE "failed"
    <3>1. /\ row' = update_task_outcome(row, FALSE, status, gate)
          /\ findings' = findings /\ work[d].pc = "save"
      BY <2>2 DEF SaveOutcome, at
    <3> HIDE DEF status, gate
    <3>2. QED
      BY <1>1, <3>1, RowOutcome DEF Shaped, gate
  <2>3. QED
    BY <1>2, <2>1, <2>2, StepRow DEF FindingsAreStored
<1>5. crashes' \in Nat /\ (crashes' = 0 => crashes = 0 /\ \A d \in Daemons : ~Crash(d))
  <2>1. \/ crashes' = crashes
        \/ crashes' = crashes + 1
    <3>1. ASSUME NEW d \in Daemons, Workflow(d)
          PROVE  crashes' = crashes
      BY <3>1 DEF Workflow, Prepare, PrepareContext, Plan, Reviewer, BeginReviewer,
         StartReviewer, TurnEnds, FinishReviewer, Collect, Join, StartJudge, JudgeTurnEnds,
         JudgeFails, JudgeAnswers, create_finding, Conclude, SaveOutcome, Halt, environment
    <3>2. QED
      BY <3>1 DEF Next, vars, Claim, RecoverStale, Crash, LeaseExpires, RequestStop, Cancel,
         Requeue, Asks, environment
  <2>2. \A d \in Daemons : Crash(d) => crashes' = crashes + 1
    BY DEF Crash
  <2>3. QED
    BY <1>1, <2>1, <2>2 DEF Shaped
<1>6. \A d \in Daemons : /\ Shape(work'[d]) /\ ControlMet(work'[d])
                         /\ FindingsAreStored(work[d])'
                         /\ work'[d].pc = "idle" => work[d].pc = "idle" \/ Leaves(d)
  <2>1. CASE work' = work
    BY <1>1, <1>2, <1>4, <2>1 DEF Shaped, FindingsAreStored
  <2>2. ASSUME NEW d \in Daemons, OwnWork(d), NEW e \in Daemons
        PROVE  /\ Shape(work'[e]) /\ ControlMet(work'[e])
               /\ FindingsAreStored(work[e])'
               /\ work'[e].pc = "idle" => work[e].pc = "idle" \/ Leaves(e)
    <3>1. CASE e = d
      BY <2>2, <3>1 DEF OwnWork
    <3>2. CASE e # d
      BY <1>1, <1>2, <1>4, <2>2, <3>2 DEF Shaped, OwnWork, Others, FindingsAreStored
    <3>3. QED
      BY <3>1, <3>2
  <2>3. QED
    BY <1>3, <2>1, <2>2
<1>7. DOMAIN work' = Daemons /\ IsFunction(work')
  BY <1>1, <1>3 DEF Shaped, OwnWork, Others
<1>8. controls' \in Controls
  <2>1. ASSUME NEW d \in Daemons, Workflow(d), ~Halt(d)
        PROVE  controls' = controls
    BY <2>1 DEF Workflow, Prepare, PrepareContext, Plan, Reviewer, BeginReviewer, StartReviewer,
       TurnEnds, FinishReviewer, Collect, Join, StartJudge, JudgeTurnEnds, JudgeFails,
       JudgeAnswers, create_finding, Conclude, SaveOutcome, database
  <2>2. ASSUME NEW d \in Daemons, Halt(d)
        PROVE  controls' \in Controls
    BY <1>1, <2>2, ControlTyped DEF Shaped, Halt, cancel_task, mark_task_stopped
  <2>3. CASE RequestStop \/ Cancel \/ Requeue
    BY <1>1, <2>3, ControlTyped DEF Shaped, RequestStop, Cancel, Requeue, cancel_task,
       ControlActions
  <2>4. QED
    BY <1>1, <2>1, <2>2, <2>3 DEF Shaped, Next, vars, Claim, RecoverStale, Crash, LeaseExpires,
       database
<1>9. Shaped'
  BY <1>4, <1>5, <1>6, <1>7, <1>8, StepRuns DEF Shaped
<1>10. StoppedIsSettled'
  <2> SUFFICES ASSUME row'.status = "cancelled", \A d \in Daemons : work'[d].pc = "idle",
                      crashes' = 0
               PROVE  \A r \in Reviewers : runs'[r] \notin {"queued", "running"}
    BY DEF StoppedIsSettled, at
  <2>1. CASE runs' = settled
    BY <2>1 DEF settled
  <2>2. CASE runs' = runs /\ (row' = row \/ row'.status # "cancelled")
    <3>1. ASSUME NEW d \in Daemons, SaveOutcome(d)
          PROVE  FALSE
      <4>1. PICK status \in {"success", "failed"} :
              \E gate : row' = update_task_outcome(row, FALSE, status, gate)
        BY <3>1 DEF SaveOutcome
      <4>2. QED
        BY <1>1, <4>1, RowOutcome DEF Shaped
    <3>2. ASSUME NEW d \in Daemons, Halt(d)
          PROVE  runs' = settled
      BY <3>2 DEF Halt, cancel_task, mark_task_stopped
    <3>3. CASE \A d \in Daemons : work[d].pc = "idle"
      BY <1>2, <1>5, <2>2, <3>3 DEF StoppedIsSettled, at
    <3>4. QED
      BY <1>5, <1>6, <2>1, <3>1, <3>2, <3>3 DEF Leaves
  <2>3. QED
    BY <2>1, <2>2, StepRuns
<1>11. RejectionCanBeAnswered'
  BY <1>4 DEF RejectionCanBeAnswered
<1>12. QED
  BY <1>6, <1>9, <1>10, <1>11 DEF WorkflowInv, ControlMet

(* The inductive invariant holds in every reachable state.                 *)
LEMMA WorkflowCorrect == Spec => []WorkflowInv
BY InitWorkflow, StepWorkflow, PTL DEF Spec

(* However many daemons run the task and however many reviewers meet a     *)
(* stop or a cancel, whatever the others failed with, no run that met one  *)
(* writes an outcome.                                                      *)
THEOREM ControlCorrect == Spec => []ControlEndsTheRun
<1>1. WorkflowInv => ControlEndsTheRun
  BY DEF WorkflowInv, ControlMet, ControlEndsTheRun, at, thread
<1>2. QED
  BY WorkflowCorrect, <1>1, PTL

(* A stopped or cancelled task shows no reviewer at work, once the daemons *)
(* that worked on it are done: each settles the rows it left.              *)
THEOREM SettledCorrect == Spec => []StoppedIsSettled
<1>1. WorkflowInv => StoppedIsSettled
  BY DEF WorkflowInv
<1>2. QED
  BY WorkflowCorrect, <1>1, PTL

(* A task fails its gate only with a finding in the table.                 *)
THEOREM RejectionCorrect == Spec => []RejectionCanBeAnswered
<1>1. WorkflowInv => RejectionCanBeAnswered
  BY DEF WorkflowInv
<1>2. QED
  BY WorkflowCorrect, <1>1, PTL

-----------------------------------------------------------------------------
(* Verdicts, for a single daemon.                                          *)

(* A plan names every reviewer once and never the judge; the plan of a     *)
(* change that is to be reviewed names the specialists its files call for. *)
LEMMA PlanNamesReviewers ==
  /\ \A i, j \in DOMAIN plan : plan[i] = plan[j] => i = j
  /\ \A i \in DOMAIN plan : plan[i] \in Reviewers /\ plan[i] # Judge
<1> DEFINE all == <<"correctness">> \o FULL_CI_REVIEWERS
<1>1. /\ FULL_CI_REVIEWERS \in Seq(STRING)
      /\ \A i, j \in 1 .. Len(FULL_CI_REVIEWERS) :
           FULL_CI_REVIEWERS[i] = FULL_CI_REVIEWERS[j] => i = j
      /\ \A i \in 1 .. Len(FULL_CI_REVIEWERS) :
           /\ FULL_CI_REVIEWERS[i] \in Specialists
           /\ FULL_CI_REVIEWERS[i] \notin {"correctness", "cr_judge"}
  BY RulesAssumption DEF Specialists, ToSet, IsInjective
<1>2. /\ DOMAIN all = 1 .. 1 + Len(FULL_CI_REVIEWERS) /\ Len(FULL_CI_REVIEWERS) \in Nat
      /\ all[1] = "correctness"
      /\ \A i \in 2 .. 1 + Len(FULL_CI_REVIEWERS) : all[i] = FULL_CI_REVIEWERS[i - 1]
  BY <1>1
<1> HIDE DEF all
<1>3. /\ \A i, j \in DOMAIN all : all[i] = all[j] => i = j
      /\ \A i \in DOMAIN all : all[i] \in Reviewers /\ all[i] # Judge
  <2>1. ASSUME NEW i \in DOMAIN all, i # 1
        PROVE  i - 1 \in 1 .. Len(FULL_CI_REVIEWERS) /\ all[i] = FULL_CI_REVIEWERS[i - 1]
    BY <1>2, <2>1
  <2>2. \A i \in DOMAIN all : i # 1 =>
          all[i] \in Specialists /\ all[i] \notin {"correctness", "cr_judge"}
    BY <1>1, <2>1
  <2>3. ASSUME NEW i \in DOMAIN all, NEW j \in DOMAIN all, all[i] = all[j]
        PROVE  i = j
    <3>1. CASE i = 1 \/ j = 1
      BY <1>2, <2>2, <2>3, <3>1
    <3>2. CASE i # 1 /\ j # 1
      <4>1. i - 1 = j - 1
        BY <1>1, <2>1, <2>3, <3>2
      <4>2. QED
        BY <1>2, <4>1
    <3>3. QED
      BY <3>1, <3>2
  <2>4. QED
    BY <1>2, <2>2, <2>3 DEF Reviewers, Judge
<1>4. plan \in {<<>>, <<"correctness_light">>, <<"correctness">>, all}
  BY DEF plan, plan_reviewers, all
<1>5. CASE plan = all
  BY <1>3, <1>5
<1>6. CASE plan \in {<<>>, <<"correctness_light">>, <<"correctness">>}
  BY <1>6 DEF Reviewers, Judge
<1>7. QED
  BY <1>4, <1>5, <1>6

(* The plan has every specialist that some file of the change calls for.   *)
LEMMA PlanCoversCalled ==
  ASSUME change \in Changes, context = prepare(change), Planned
  PROVE  UNION {f.triggers : f \in production_of(change)} \subseteq ToSet(plan)
<1> DEFINE called == UNION {f.triggers : f \in production_of(change)}
<1>1. context.triggers = called /\ context.production = Cardinality(production_of(change))
  BY DEF prepare, _specialists_for_paths
<1>2. called \subseteq Specialists /\ IsFiniteSet(production_of(change))
  BY WorkflowAssumption, FS_Subset DEF production_of
<1>3. context.production \in Nat /\ context.production # 0
  BY <1>1, <1>2, FS_CardinalityType DEF Planned, prepare_review_guard, classify_risk
<1> HIDE DEF called
<1>4. CASE called # {}
  <2>1. classify_risk(context) = "full"
    BY <1>1, <1>3, <1>4 DEF classify_risk, is_full
  <2>2. plan = <<"correctness">> \o FULL_CI_REVIEWERS
    BY <2>1 DEF plan, plan_reviewers
  <2>3. Specialists \subseteq ToSet(plan)
    <3>1. FULL_CI_REVIEWERS \in Seq(STRING) /\ Len(FULL_CI_REVIEWERS) \in Nat
      BY RulesAssumption
    <3>2. /\ DOMAIN plan = 1 .. 1 + Len(FULL_CI_REVIEWERS)
          /\ \A i \in 1 .. Len(FULL_CI_REVIEWERS) : plan[i + 1] = FULL_CI_REVIEWERS[i]
      BY <2>2, <3>1
    <3>3. \A i \in 1 .. Len(FULL_CI_REVIEWERS) : i + 1 \in DOMAIN plan
      BY <3>1, <3>2
    <3>4. DOMAIN FULL_CI_REVIEWERS = 1 .. Len(FULL_CI_REVIEWERS)
      BY <3>1
    <3>5. QED
      BY <3>2, <3>3, <3>4 DEF Specialists, ToSet
  <2>4. QED
    BY <1>2, <2>3 DEF called
<1>5. QED
  BY <1>4 DEF called

(* The rows that succeeded stay so unless a reviewer is run again.         *)
LEMMA Settles ==
  ASSUME Shaped, \/ runs' = runs \/ runs' = settled
                 \/ Requeue
  PROVE  \A r \in Reviewers : runs[r] = "success" => runs'[r] = "success"
BY DEF settled, Requeue

(* A step that runs no reviewer, prepares no context and reports nothing.  *)
LEMMA QuietStep ==
  ASSUME Shaped, VerdictInv, work' = work, context' = context, change' = change,
         \A r \in Reviewers : runs[r] = "success" => runs'[r] = "success",
         row'.status = "success" => row.status = "success" /\ row'.gate = row.gate
  PROVE  VerdictInv'
<1>1. plan' = plan
  BY DEF plan
<1>2. PlanSucceeded => PlanSucceeded'
  BY <1>1, PlanNamesReviewers DEF PlanSucceeded
<1>3. ASSUME NEW d \in Daemons
      PROVE  RunIsBacked(work[d])'
  <2>1. RunIsBacked(work[d])
    BY DEF VerdictInv
  <2>2. ThreadsSucceeded(work[d])'
    BY <1>1, <2>1, PlanNamesReviewers DEF RunIsBacked, ThreadsSucceeded
  <2>3. runs[Judge] = "success" => runs'[Judge] = "success"
    BY DEF Judge, Reviewers
  <2>4. QED
    BY <1>2, <2>1, <2>2, <2>3 DEF RunIsBacked, reviewed, judged, concluding, Planned
<1>4. ReportIsBacked'
  BY <1>2 DEF VerdictInv, ReportIsBacked, reported, Planned, Judge, Reviewers
<1>5. SuccessIsIdle'
  BY DEF VerdictInv, SuccessIsIdle, at
<1>6. QED
  BY <1>3, <1>4, <1>5 DEF VerdictInv

(* The initial state satisfies the invariant about verdicts.               *)
LEMMA InitVerdict == Init => VerdictInv
<1> SUFFICES ASSUME Init PROVE VerdictInv
  OBVIOUS
<1>1. row.status = "queued" /\ change \in Changes
  BY DEF Init, create_task, NoRow
<1>2. \A d \in Daemons : work[d].pc = "idle"
  BY IdleShape DEF Init
<1>3. QED
  BY <1>1, <1>2 DEF VerdictInv, ReportIsBacked, reported, SuccessIsIdle, RunIsBacked,
     ThreadsSucceeded, reviewed, judged, concluding

(* Steps of nobody's run.                                                  *)
LEMMA OutsideStep ==
  ASSUME WorkflowInv, VerdictInv,
         \/ UNCHANGED vars \/ LeaseExpires \/ RequestStop \/ Cancel \/ Requeue
         \/ \E d \in Daemons : RecoverStale(d)
  PROVE  VerdictInv'
<1>1. Shaped /\ DOMAIN row = DOMAIN NoRow
  BY DEF WorkflowInv, Shaped
<1>2. CASE UNCHANGED vars
  BY <1>1, <1>2, QuietStep DEF vars, database, environment
<1>3. CASE LeaseExpires
  BY <1>1, <1>3, QuietStep, RowColumns DEF LeaseExpires, environment
<1>4. CASE RequestStop
  BY <1>1, <1>4, QuietStep DEF RequestStop, Asks
<1>5. CASE Cancel
  <2>1. row'.status = "cancelled"
    BY <1>1, <1>5, RowColumns DEF Cancel, cancel_task
  <2>2. QED
    BY <1>1, <1>5, <2>1, Settles, QuietStep DEF Cancel, Asks, cancel_task
<1>6. CASE Requeue
  <2>1. row'.status = "queued"
    BY <1>1, <1>6, RowColumns DEF Requeue
  <2>2. QED
    BY <1>1, <1>6, <2>1, Settles, QuietStep DEF Requeue, Asks
<1>7. ASSUME NEW d \in Daemons, RecoverStale(d)
      PROVE  VerdictInv'
  <2>1. row'.status # "success"
    BY <1>1, <1>7, RowColumns DEF RecoverStale
  <2>2. QED
    BY <1>1, <1>7, <2>1, QuietStep DEF RecoverStale, environment
<1>8. QED
  BY <1>2, <1>3, <1>4, <1>5, <1>6, <1>7

(* What a reviewer's thread becomes is an output only if its row says so.  *)
LEMMA AskedIsControl == ASSUME Shaped PROVE asked \in ControlActions \cup {"none"}
BY DEF Shaped, asked, Controls, ControlActions

(* Every step of a thread of the pool keeps what its run rests on.         *)
LEMMA ReviewerBacked ==
  ASSUME WorkflowInv, VerdictInv, NEW d \in Daemons, NEW i \in DOMAIN work[d].thread,
         Reviewer(d, i)
  PROVE  RunIsBacked(work[d])'
<1>1. /\ Shaped /\ RunIsBacked(work[d]) /\ work[d].pc = "fanout"
      /\ context' = context /\ change' = change
  BY DEF WorkflowInv, VerdictInv, Reviewer, BeginReviewer, StartReviewer, TurnEnds,
     FinishReviewer, Collect, at, environment
<1>2. plan' = plan /\ (Planned => Planned') /\ DOMAIN runs = Reviewers
  BY <1>1 DEF plan, Planned, Shaped
<1>3. /\ DOMAIN work[d].thread = DOMAIN plan /\ context = prepare(change) /\ Planned
      /\ \A j \in DOMAIN plan : work[d].thread[j] = "output"
           \/ (work[d].thread[j] = "collected" /\ ~work[d].failed /\ work[d].verb = "none")
             => runs[plan[j]] = "success"
  BY <1>1 DEF RunIsBacked, ThreadsSucceeded
<1>4. SUFFICES /\ work'[d].pc = "fanout" /\ DOMAIN work'[d].thread = DOMAIN plan
               /\ \A j \in DOMAIN plan : work'[d].thread[j] = "output"
                    \/ (work'[d].thread[j] = "collected" /\ ~work'[d].failed
                        /\ work'[d].verb = "none")
                      => runs'[plan[j]] = "success"
  BY <1>1, <1>2, <1>3 DEF RunIsBacked, ThreadsSucceeded, reviewed, judged, concluding
<1>5. CASE BeginReviewer(d, i) \/ TurnEnds(d, i)
  <2>1. PICK state \in {"checked", "failure"} \cup ControlActions \cup Results :
          becomes(d, i, state)
    BY <1>1, <1>5, AskedIsControl DEF BeginReviewer, TurnEnds
  <2>2. state \notin {"output", "collected"} /\ runs' = runs
    BY <1>5, <2>1 DEF BeginReviewer, TurnEnds, database, ControlActions, Results
  <2>3. QED
    BY <1>1, <1>3, <2>1, <2>2, Becomes DEF Fields
<1>6. CASE StartReviewer(d, i)
  <2>1. becomes(d, i, "turn") /\ runs' = [runs EXCEPT ![plan[i]] = "running"]
    BY <1>6 DEF StartReviewer, start_reviewer_run
  <2>2. \A j \in DOMAIN plan : j # i => runs'[plan[j]] = runs[plan[j]]
    BY <1>2, <1>3, <2>1, PlanNamesReviewers
  <2>3. QED
    BY <1>1, <1>3, <2>1, <2>2, Becomes DEF Fields
<1>7. CASE FinishReviewer(d, i)
  <2> DEFINE result == work[d].thread[i]
             status == IF result \in {"good", "invalid"} THEN "success" ELSE "failed"
  <2>1. becomes(d, i, returned(result)) /\ runs' = [runs EXCEPT ![plan[i]] = status]
    BY <1>7 DEF FinishReviewer, finish_reviewer_run, thread
  <2>2. \A j \in DOMAIN plan : j # i => runs'[plan[j]] = runs[plan[j]]
    BY <1>2, <1>3, <2>1, PlanNamesReviewers
  <2>3. runs'[plan[i]] = status
    BY <1>2, <1>3, <2>1, PlanNamesReviewers
  <2>4. returned(result) # "collected" /\ (returned(result) = "output" => result = "good")
    BY <1>1, AskedIsControl DEF returned, ControlActions
  <2>5. QED
    BY <1>1, <1>3, <2>1, <2>2, <2>3, <2>4, Becomes DEF Fields
<1>8. CASE Collect(d, i)
  <2>1. runs' = runs /\ work[d].thread[i] \in Returns
    BY <1>8 DEF Collect, database, thread
  <2>2. work[d].failed \in BOOLEAN /\ work'[d].failed \in BOOLEAN
    BY <1>1, <1>8, Collected DEF Shaped, Shape
  <2>3. ~work'[d].failed => ~work[d].failed /\ work[d].thread[i] # "failure"
    BY <1>1, <1>8, <2>2, Collected
  <2>4. work'[d].verb = "none" => work[d].verb = "none" /\ work[d].thread[i] \notin ControlActions
    BY <1>1, <1>8, Collected DEF ControlActions
  <2>5. ~work'[d].failed /\ work'[d].verb = "none" => work[d].thread[i] = "output"
    BY <2>1, <2>3, <2>4 DEF Returns
  <2>6. QED
    BY <1>1, <1>3, <1>8, <2>1, <2>3, <2>4, <2>5, Collected
<1>9. QED
  BY <1>5, <1>6, <1>7, <1>8 DEF Reviewer

(* A run that is not about the review, or ends without a verdict.          *)
LEMMA Unconcerned ==
  ASSUME NEW d \in Daemons,
         \/ work'[d].pc \in {"idle", "prepare", "context", "halt"}
         \/ work'[d].pc = "save" /\ work'[d].gate \notin Verdicts
  PROVE  RunIsBacked(work[d])'
BY DEF RunIsBacked, ThreadsSucceeded, reviewed, judged, concluding

(* A run that halts or ends without a verdict rests on nothing.            *)
LEMMA UnconcernedEnds ==
  ASSUME Shaped, NEW d \in Daemons,
         halts(d) \/ \E gate \in {"incomplete", "skipped", "context_too_large"} : ends(d, gate)
  PROVE  RunIsBacked(work[d])'
<1>1. CASE halts(d)
  BY <1>1, Halts, Unconcerned DEF halts
<1>2. ASSUME NEW gate \in {"incomplete", "skipped", "context_too_large"}, ends(d, gate)
      PROVE  RunIsBacked(work[d])'
  BY <1>2, Ends, Unconcerned DEF Verdicts
<1>3. QED
  BY <1>1, <1>2

(* The run of a daemon stays backed, step by step.                         *)
LEMMA WorkBacked ==
  ASSUME WorkflowInv, VerdictInv, NEW d \in Daemons, Claim(d) \/ Workflow(d) \/ Crash(d)
  PROVE  RunIsBacked(work[d])'
<1>1. Shaped /\ RunIsBacked(work[d])
  BY DEF WorkflowInv, VerdictInv
<1>2. CASE Crash(d) \/ SaveOutcome(d) \/ Halt(d)
  <2>1. work' = [work EXCEPT ![d] = Idle]
    BY <1>2 DEF Crash, SaveOutcome, Halt
  <2>2. QED
    BY <1>1, <2>1, Written, IdleShape, Unconcerned
<1>3. CASE Claim(d)
  BY <1>1, <1>3, Goes, Unconcerned DEF Claim, Pcs
<1>4. CASE Prepare(d)
  BY <1>1, <1>4, Goes, UnconcernedEnds, Unconcerned DEF Prepare, Checked, Pcs
<1>5. CASE PrepareContext(d)
  <2>1. CASE goes(d, "plan")
    <3>1. work'[d].pc = "plan" /\ context' = prepare(change) /\ change' = change
      BY <1>1, <1>5, <2>1, Goes DEF PrepareContext, environment, Pcs
    <3>2. QED
      BY <3>1 DEF RunIsBacked, ThreadsSucceeded, reviewed, judged, concluding
  <2>2. QED
    BY <1>1, <1>5, <2>1, UnconcernedEnds DEF PrepareContext, Checked
<1>6. CASE Plan(d)
  <2>1. /\ work[d].pc = "plan" /\ context' = context /\ change' = change /\ runs' = runs
        /\ prepare_review_guard(context) \in {"skipped", "context_too_large", "review"}
    BY <1>6 DEF Plan, at, environment, prepare_review_guard
  <2>2. CASE prepare_review_guard(context) = "review"
    <3>1. CASE halts(d)
      BY <1>1, <3>1, UnconcernedEnds
    <3>2. CASE work' = [work EXCEPT ![d].pc = "fanout",
                          ![d].thread = [i \in DOMAIN plan |-> "waiting"]]
      <4>1. work'[d].pc = "fanout" /\ work'[d].thread = [i \in DOMAIN plan |-> "waiting"]
        BY <1>1, <3>2, FanOut
      <4>2. plan' = plan /\ context = prepare(change)
        BY <1>1, <2>1 DEF plan, RunIsBacked
      <4>3. QED
        BY <2>1, <2>2, <4>1, <4>2 DEF RunIsBacked, ThreadsSucceeded, reviewed, judged,
           concluding, Planned
    <3>3. QED
      BY <1>6, <2>2, <3>1, <3>2 DEF Plan, Checked
  <2>3. CASE prepare_review_guard(context) # "review"
    BY <1>1, <1>6, <2>1, <2>3, UnconcernedEnds DEF Plan, Checked
  <2>4. QED
    BY <2>2, <2>3
<1>7. ASSUME NEW i \in DOMAIN work[d].thread, Reviewer(d, i)
      PROVE  RunIsBacked(work[d])'
  BY <1>7, ReviewerBacked
<1>8. CASE Join(d)
  <2>1. CASE goes(d, "judge") /\ work[d].verb = "none" /\ ~work[d].failed
    <3>1. /\ work'[d].pc = "judge" /\ work[d].pc = "fanout" /\ context' = context
          /\ change' = change /\ runs' = runs
          /\ \A i \in DOMAIN work[d].thread : work[d].thread[i] = "collected"
      BY <1>1, <1>8, <2>1, Goes DEF Join, at, thread, environment, database, Pcs
    <3>2. plan' = plan /\ context = prepare(change) /\ Planned /\ PlanSucceeded
      BY <1>1, <2>1, <3>1 DEF plan, RunIsBacked, ThreadsSucceeded, PlanSucceeded
    <3>3. QED
      BY <3>1, <3>2 DEF RunIsBacked, ThreadsSucceeded, reviewed, judged, concluding, Planned,
         PlanSucceeded
  <2>2. CASE halts_on(d, work[d].verb)
    BY <1>1, <2>2, Halts, Unconcerned
  <2>3. QED
    BY <1>1, <1>8, <2>1, <2>2, UnconcernedEnds DEF Join, Checked
<1>9. ASSUME reviewed(work[d]), context' = context, change' = change,
             \A i \in DOMAIN plan : runs[plan[i]] = "success" => runs'[plan[i]] = "success",
             reviewed(work'[d]), judged(work'[d]) => runs'[Judge] = "success"
      PROVE  RunIsBacked(work[d])'
  <2>1. plan' = plan /\ context = prepare(change) /\ Planned /\ PlanSucceeded
    BY <1>1, <1>9 DEF plan, RunIsBacked
  <2>2. work'[d].pc # "fanout"
    BY <1>9 DEF reviewed, concluding
  <2>3. QED
    BY <1>9, <2>1, <2>2 DEF RunIsBacked, ThreadsSucceeded, PlanSucceeded, Planned, reviewed,
       judged, concluding
<1>10. DOMAIN runs = Reviewers /\ IsFunction(runs) /\ Judge \in Reviewers
  BY <1>1 DEF Shaped, Reviewers
<1>11. CASE StartJudge(d)
  <2>1. work'[d].pc = "judging" /\ work[d].pc = "judge"
    BY <1>1, <1>11, Goes DEF StartJudge, at, Pcs
  <2>2. \A i \in DOMAIN plan : runs'[plan[i]] = runs[plan[i]]
    BY <1>10, <1>11, PlanNamesReviewers DEF StartJudge, start_reviewer_run
  <2>3. QED
    BY <1>9, <1>11, <2>1, <2>2 DEF StartJudge, reviewed, judged, concluding, environment
<1>12. CASE JudgeTurnEnds(d)
  <2>1. ASSUME NEW r \in Results, work' = [work EXCEPT ![d].pc = "judged", ![d].judge = r]
        PROVE  RunIsBacked(work[d])'
    <3>1. DOMAIN work = Daemons /\ Shape(work[d]) /\ work[d].pc = "judging"
      BY <1>1, <1>12 DEF Shaped, JudgeTurnEnds, at
    <3>2. work'[d].pc = "judged"
      BY <2>1, <3>1 DEF Shape, Fields
    <3>3. QED
      BY <1>9, <1>12, <3>1, <3>2 DEF JudgeTurnEnds, reviewed, judged, concluding, environment,
         database
  <2>2. QED
    BY <1>1, <1>12, <2>1, UnconcernedEnds DEF JudgeTurnEnds, Checked
<1>13. CASE JudgeFails(d)
  BY <1>1, <1>13, UnconcernedEnds DEF JudgeFails
<1>14. CASE JudgeAnswers(d)
  <2>1. work'[d].pc = "persist" /\ work[d].pc = "judged"
    BY <1>1, <1>14, Answers DEF JudgeAnswers, at
  <2>2. \A i \in DOMAIN plan : runs'[plan[i]] = runs[plan[i]]
    BY <1>10, <1>14, PlanNamesReviewers DEF JudgeAnswers, finish_reviewer_run
  <2>3. runs'[Judge] = "success"
    BY <1>10, <1>14 DEF JudgeAnswers, finish_reviewer_run
  <2>4. QED
    BY <1>9, <1>14, <2>1, <2>2, <2>3 DEF JudgeAnswers, reviewed, environment
<1>15. CASE create_finding(d)
  <2>1. CASE halts(d) \/ ends(d, "incomplete")
    BY <1>1, <2>1, UnconcernedEnds
  <2>2. CASE work'[d].pc = "persist"
    BY <1>1, <1>9, <1>15, <2>2 DEF create_finding, at, reviewed, judged, RunIsBacked,
       environment
  <2>3. QED
    BY <1>1, <1>15, <2>1, <2>2, Stores
<1>16. CASE Conclude(d)
  <2>1. work[d].pc = "persist" /\ runs' = runs /\ context' = context /\ change' = change
    BY <1>16 DEF Conclude, at, database, environment
  <2>2. CASE halts(d)
    BY <1>1, <2>2, UnconcernedEnds
  <2>3. CASE ends(d, gate_status(d))
    <3>1. work'[d].pc = "save" /\ work'[d].gate \in Verdicts
      BY <1>1, <2>3, Ends DEF gate_status, Verdicts
    <3>2. QED
      BY <1>1, <1>9, <2>1, <3>1 DEF reviewed, judged, concluding, RunIsBacked
  <2>4. QED
    BY <1>16, <2>2, <2>3 DEF Conclude, Checked
<1>17. QED
  BY <1>2, <1>3, <1>4, <1>5, <1>6, <1>7, <1>8, <1>11, <1>12, <1>13, <1>14, <1>15, <1>16
     DEF Workflow

(* A daemon reports a task as reviewed only when it saves that outcome.    *)
LEMMA WorkReports ==
  ASSUME WorkflowInv, VerdictInv, NEW d \in Daemons, Claim(d) \/ Workflow(d) \/ Crash(d),
         row'.status = "success"
  PROVE  \/ row.status = "success" /\ row' = row
         \/ SaveOutcome(d)
<1>1. Shaped /\ DOMAIN row = DOMAIN NoRow
  BY DEF WorkflowInv, Shaped
<1>2. CASE Claim(d) \/ Halt(d)
  BY <1>1, <1>2, RowColumns DEF Claim, Halt, cancel_task, mark_task_stopped
<1>3. QED
  BY <1>2 DEF Workflow, Crash, Prepare, PrepareContext, Plan, Reviewer, BeginReviewer,
     StartReviewer, TurnEnds, FinishReviewer, Collect, Join, StartJudge, JudgeTurnEnds,
     JudgeFails, JudgeAnswers, create_finding, Conclude, database

(* Every step keeps the invariant about verdicts, if there is one daemon.  *)
LEMMA StepVerdict ==
  ASSUME OneDaemon
  PROVE  WorkflowInv /\ VerdictInv /\ [Next]_vars => VerdictInv'
<1> SUFFICES ASSUME WorkflowInv, VerdictInv, [Next]_vars PROVE VerdictInv'
  OBVIOUS
<1>1. SUFFICES ASSUME NEW d \in Daemons, Claim(d) \/ Workflow(d) \/ Crash(d)
               PROVE  VerdictInv'
  BY OutsideStep DEF Next
<1>2. change' = change
  BY <1>1 DEF Claim, Crash, Workflow, Prepare, PrepareContext, Plan, Reviewer, BeginReviewer,
     StartReviewer, TurnEnds, FinishReviewer, Collect, Join, StartJudge, JudgeTurnEnds,
     JudgeFails, JudgeAnswers, create_finding, Conclude, SaveOutcome, Halt, environment
<1>3. \A e \in Daemons : RunIsBacked(work[e])'
  BY <1>1, WorkBacked DEF OneDaemon
<1>4. row.status # "success"
  <2>1. CASE Claim(d)
    BY <2>1 DEF Claim
  <2>2. CASE Workflow(d) \/ Crash(d)
    <3>1. ~at(d, "idle")
      BY <2>2 DEF Workflow, Crash, Prepare, PrepareContext, Plan, Reviewer, BeginReviewer,
         StartReviewer, TurnEnds, FinishReviewer, Collect, Join, StartJudge, JudgeTurnEnds,
         JudgeFails, JudgeAnswers, create_finding, Conclude, SaveOutcome, Halt, at
    <3>2. QED
      BY <3>1 DEF VerdictInv, SuccessIsIdle
  <2>3. QED
    BY <1>1, <2>1, <2>2
<1>5. ASSUME row'.status = "success"
      PROVE  ReportIsBacked' /\ \A e \in Daemons : at(e, "idle")'
  <2>1. SaveOutcome(d)
    BY <1>1, <1>4, <1>5, WorkReports
  <2> DEFINE gate == work[d].gate
             status == IF gate \in ReviewGates THEN "success" ELSE "failed"
  <2>2. /\ row' = update_task_outcome(row, FALSE, status, gate) /\ work[d].pc = "save"
        /\ work' = [work EXCEPT ![d] = Idle] /\ runs' = runs /\ context' = context
    BY <2>1 DEF SaveOutcome, at
  <2>3. Shaped /\ DOMAIN row = DOMAIN NoRow /\ RunIsBacked(work[d])
    BY DEF WorkflowInv, VerdictInv, Shaped
  <2> HIDE DEF gate, status
  <2>4. row'.gate = gate
    BY <2>2, <2>3, RowOutcome
  <2>5. work'[d].pc = "idle"
    BY <2>2, <2>3, Written, IdleShape
  <2>6. ReportIsBacked'
    <3>1. ASSUME gate \in Verdicts
          PROVE  /\ context = prepare(change) /\ Planned /\ PlanSucceeded
                 /\ runs[Judge] = "success"
      BY <2>2, <2>3, <3>1 DEF RunIsBacked, reviewed, judged, concluding, gate
    <3>2. QED
      BY <1>2, <2>2, <2>4, <3>1 DEF ReportIsBacked, reported, Planned, PlanSucceeded, plan
  <2>7. QED
    BY <2>5, <2>6 DEF OneDaemon, at
<1>6. ReportIsBacked' /\ SuccessIsIdle'
  BY <1>5 DEF ReportIsBacked, reported, SuccessIsIdle
<1>7. QED
  BY <1>2, <1>3, <1>6 DEF VerdictInv

(* With one daemon a verdict rests on a successful run of every reviewer   *)
(* the change called for and of the judge, however often the task was      *)
(* crashed, stopped, cancelled and requeued on the way.                    *)
THEOREM VerdictCorrect == ASSUME OneDaemon PROVE Spec => []VerdictIsBacked
<1>1. VerdictInv => VerdictIsBacked
  <2> SUFFICES ASSUME VerdictInv, reported PROVE VerdictIsBacked
    BY DEF VerdictIsBacked, reported, Verdicts
  <2>1. /\ change \in Changes /\ context = prepare(change) /\ Planned
        /\ PlanSucceeded /\ runs[Judge] = "success"
    BY DEF VerdictInv, ReportIsBacked
  <2>2. \A r \in ToSet(plan) : runs[r] = "success"
    BY <2>1 DEF ToSet, PlanSucceeded
  <2>3. QED
    BY <2>1, <2>2, PlanCoversCalled DEF VerdictIsBacked
<1>2. QED
  BY InitVerdict, StepVerdict, WorkflowCorrect, <1>1, PTL DEF Spec

-----------------------------------------------------------------------------
(* Folds: what a fold over numbered places iterates, and induction on it.   *)
(* The library's induction theorems are about operators; these are about    *)
(* sets.                                                                    *)

(* Induction over the numbers, for a set of them: the library's theorems   *)
(* are about operators.                                                    *)
LEMMA SetInduction ==
  ASSUME NEW T, 0 \in T, \A n \in Nat : n \in T => n + 1 \in T
  PROVE  Nat \subseteq T
<1> DEFINE R == OpToRel(<, Nat)
           F == {n \in Nat : n \notin T}
<1>1. IsWellFoundedOn(R, Nat)
  BY NatLessThanWellFounded
<1>2. \A x, y \in Nat : <<y, x>> \in R <=> y < x
  BY DEF OpToRel
<1> HIDE DEF R
<1>3. ASSUME F # {} PROVE FALSE
  <2>1. PICK x \in F : \A y \in F : ~(<<y, x>> \in R)
    <3>1. F \subseteq Nat
      OBVIOUS
    <3>2. QED
      BY <1>1, <1>3, <3>1, WFMin, Zenon
  <2>2. x \in Nat /\ x # 0
    OBVIOUS
  <2>3. x - 1 \in Nat /\ x - 1 < x /\ (x - 1) + 1 = x
    BY <2>2
  <2>4. x - 1 \in T
    BY <1>2, <2>1, <2>2, <2>3
  <2>5. QED
    BY <2>3, <2>4
<1>4. QED
  BY <1>3

(* Max of a set of numbers up to n is its greatest.                        *)
LEMMA MaxOfPlaces ==
  ASSUME NEW n \in Nat, NEW s \in SUBSET (1 .. n), s # {}
  PROVE  /\ Max(s) \in s /\ \A j \in s : j <= Max(s)
<1> DEFINE T == {m \in Nat : \A u \in SUBSET (1 .. m) : u # {} => \E x \in u : \A y \in u : x >= y}
<1>1. 0 \in T
  <2>1. SUBSET (1 .. 0) = {{}}
    OBVIOUS
  <2>2. QED
    BY <2>1
<1>2. ASSUME NEW m \in Nat, m \in T PROVE m + 1 \in T
  <2>1. ASSUME NEW u \in SUBSET (1 .. m + 1), u # {}
        PROVE  \E x \in u : \A y \in u : x >= y
    <3>1. CASE m + 1 \in u
      BY <3>1
    <3>2. CASE m + 1 \notin u
      <4>1. u \in SUBSET (1 .. m)
        BY <3>2
      <4>2. QED
        BY <1>2, <2>1, <4>1
    <3>3. QED
      BY <3>1, <3>2
  <2>2. QED
    BY <2>1
<1>3. n \in T
  <2> HIDE DEF T
  <2> QED BY <1>1, <1>2, SetInduction
<1>4. \E x \in s : \A y \in s : x >= y
  BY <1>3
<1>5. Max(s) \in s /\ \A y \in s : Max(s) >= y
  BY <1>4, Zenon DEF Max
<1>6. \A y \in s : y \in Nat
  OBVIOUS
<1>7. QED
  BY <1>5, <1>6

(* A set of places and a greater one.                                      *)
LEMMA MaxOfNext ==
  ASSUME NEW n \in Nat, NEW s \in SUBSET (1 .. n), NEW i \in 1 .. n, \A j \in s : j < i
  PROVE  Max(s \cup {i}) = i /\ (s \cup {i}) \ {i} = s
<1> DEFINE t == s \cup {i}
<1>1. t \in SUBSET (1 .. n) /\ t # {}
  OBVIOUS
<1>2. Max(t) \in t /\ \A j \in t : j <= Max(t)
  BY <1>1, MaxOfPlaces, Zenon
<1>3. i <= Max(t) /\ (Max(t) \in s => Max(t) < i) /\ Max(t) \in 1 .. n
  BY <1>1, <1>2
<1>4. Max(t) = i
  BY <1>2, <1>3
<1>5. (s \cup {i}) \ {i} = s
  OBVIOUS
<1>6. QED
  BY <1>4, <1>5

(* Induction over sets of places, each reached by adding a greatest one.   *)
LEMMA PlacesInduction ==
  ASSUME NEW n \in Nat, NEW G, {} \in G,
         \A s \in SUBSET (1 .. n), i \in 1 .. n :
           s \in G /\ (\A j \in s : j < i) => s \cup {i} \in G
  PROVE  SUBSET (1 .. n) \subseteq G
<1> DEFINE T == {m \in Nat : m <= n => SUBSET (1 .. m) \subseteq G}
<1>1. 0 \in T
  <2>1. SUBSET (1 .. 0) = {{}}
    OBVIOUS
  <2>2. QED
    BY <2>1
<1>2. ASSUME NEW m \in Nat, m \in T PROVE m + 1 \in T
  <2>1. ASSUME m + 1 <= n, NEW s \in SUBSET (1 .. m + 1)
        PROVE  s \in G
    <3> DEFINE r == s \ {m + 1}
    <3>1. r \in SUBSET (1 .. m) /\ \A j \in r : j < m + 1
      BY <2>1
    <3>2. r \in G
      BY <1>2, <2>1, <3>1
    <3>3. r \cup {m + 1} \in G
      BY <2>1, <3>1, <3>2
    <3>4. s = r \/ s = r \cup {m + 1}
      OBVIOUS
    <3>5. QED
      BY <3>2, <3>3, <3>4
  <2>2. QED
    BY <2>1
<1>3. n \in T
  <2> HIDE DEF T
  <2> QED BY <1>1, <1>2, SetInduction
<1>4. QED
  BY <1>3

(* g is what a fold iterates with h, from base.                            *)
Iterates(g, n, base, h) ==
  \A s \in SUBSET (1 .. n) : g[s] = IF s = {} THEN base ELSE h[<<g[s \ {Max(s)}], Max(s)>>]

(* What a fold iterates exists: a function of the sets of places that      *)
(* adds the greatest place of a set last.                                  *)
LEMMA FoldExists ==
  ASSUME NEW n \in Nat, NEW X, NEW base \in X, NEW h \in [X \X (1 .. n) -> X]
  PROVE  \E g \in [SUBSET (1 .. n) -> X] : Iterates(g, n, base, h)
<1> DEFINE rec(g, m) == \A s \in SUBSET (1 .. m) :
                          g[s] = IF s = {} THEN base ELSE h[<<g[s \ {Max(s)}], Max(s)>>]
           has(m) == \E g \in [SUBSET (1 .. m) -> X] : rec(g, m)
           T == {m \in Nat : m <= n => has(m)}
<1> HIDE DEF has
<1>1. 0 \in T
  <2> DEFINE g == [s \in {{}} |-> base]
  <2>1. SUBSET (1 .. 0) = {{}}
    OBVIOUS
  <2>2. g \in [SUBSET (1 .. 0) -> X]
    BY <2>1
  <2>3. rec(g, 0)
    BY <2>1
  <2> HIDE DEF g, rec
  <2>4. has(0)
    BY <2>2, <2>3 DEF has
  <2>5. QED
    BY <2>4
<1>2. ASSUME NEW m \in Nat, m \in T PROVE m + 1 \in T
  <2>1. ASSUME m + 1 <= n PROVE has(m + 1)
    <3>0. has(m)
      BY <1>2, <2>1
    <3>1. PICK f \in [SUBSET (1 .. m) -> X] : rec(f, m)
      BY <3>0, Zenon DEF has
    <3> DEFINE P == SUBSET (1 .. m + 1)
               g == [s \in P |-> IF m + 1 \in s THEN h[<<f[s \ {m + 1}], m + 1>>] ELSE f[s]]
    <3>2. \A s \in P : s \ {m + 1} \in SUBSET (1 .. m) /\ (m + 1 \notin s => s \in SUBSET (1 .. m))
      OBVIOUS
    <3>3. g \in [P -> X]
      <4>1. m + 1 \in 1 .. n
        BY <2>1
      <4>2. ASSUME NEW s \in P PROVE g[s] \in X
        <5>1. CASE m + 1 \in s
          <6>1. f[s \ {m + 1}] \in X /\ g[s] = h[<<f[s \ {m + 1}], m + 1>>]
            BY <3>2, <5>1
          <6>2. QED
            BY <4>1, <6>1
        <5>2. CASE m + 1 \notin s
          BY <3>2, <5>2
        <5>3. QED
          BY <5>1, <5>2
      <4>3. QED
        BY <4>2
    <3>4. ASSUME NEW s \in P
          PROVE  g[s] = IF s = {} THEN base ELSE h[<<g[s \ {Max(s)}], Max(s)>>]
      <4>1. CASE m + 1 \in s
        <5>1. Max(s) \in s /\ \A j \in s : j <= Max(s)
          <6>1. m + 1 \in Nat /\ s \in SUBSET (1 .. m + 1) /\ s # {}
            BY <4>1
          <6>2. QED
            BY <6>1, MaxOfPlaces, Zenon
        <5>2. Max(s) = m + 1
          <6>1. Max(s) \in 1 .. m + 1 /\ m + 1 <= Max(s)
            BY <4>1, <5>1
          <6>2. QED
            BY <6>1
        <5>3. s \ {m + 1} \in P /\ m + 1 \notin s \ {m + 1}
          OBVIOUS
        <5>4. g[s \ {m + 1}] = f[s \ {m + 1}] /\ g[s] = h[<<f[s \ {m + 1}], m + 1>>]
          BY <4>1, <5>3
        <5> HIDE DEF g, P
        <5>5. QED
          BY <4>1, <5>2, <5>4
      <4>2. CASE m + 1 \notin s
        <5>1. s \in SUBSET (1 .. m) /\ g[s] = f[s]
          BY <3>2, <4>2
        <5>2. s \ {Max(s)} \in P /\ m + 1 \notin s \ {Max(s)}
          BY <4>2
        <5>3. g[s \ {Max(s)}] = f[s \ {Max(s)}]
          BY <5>2
        <5> HIDE DEF g, P
        <5>4. QED
          BY <3>1, <5>1, <5>3
      <4>3. QED
        BY <4>1, <4>2
    <3>5. rec(g, m + 1)
      BY <3>4
    <3> HIDE DEF g, rec
    <3>6. QED
      BY <3>3, <3>5 DEF has
  <2>2. QED
    BY <2>1
<1>3. n \in T
  <2> HIDE DEF T
  <2> QED BY <1>1, <1>2, SetInduction
<1>4. has(n)
  BY <1>3
<1>5. QED
  BY <1>4, Zenon DEF has, Iterates

-----------------------------------------------------------------------------
(* The judge's report.                                                     *)

(* A candidate with a rank and a confidence that can be compared.          *)
Ranked(C) == \A c \in C : c.rank \in Nat /\ c.confidence \in Nat

(* What normalize has accepted of the admissible findings it has seen: one *)
(* of every key, and none of that key is stronger.                         *)
KeepsStrongest(accepted, seen) ==
  /\ accepted \subseteq seen
  /\ \A c \in seen : \E k \in accepted : k.key = c.key
  /\ \A k, l \in accepted : k.key = l.key => k = l
  /\ \A k \in accepted, c \in seen : c.key = k.key => ~stronger(c, k)

(* Not being stronger is transitive, and of two findings one is not.       *)
LEMMA StrongerIsAnOrder ==
  ASSUME NEW C, Ranked(C), NEW c \in C, NEW d \in C, NEW e \in C
  PROVE  /\ ~stronger(c, d) /\ ~stronger(d, e) => ~stronger(c, e)
         /\ stronger(c, d) => ~stronger(d, c)
         /\ ~stronger(c, c)
<1>1. /\ c.rank \in Nat /\ c.confidence \in Nat /\ d.rank \in Nat /\ d.confidence \in Nat
      /\ e.rank \in Nat /\ e.confidence \in Nat
  BY DEF Ranked
<1>2. QED
  BY <1>1 DEF stronger

(* One finding more, of a key that was seen or of a new one.               *)
LEMMA MergeKeepsStrongest ==
  ASSUME NEW C, Ranked(C), NEW seen \in SUBSET C, NEW accepted, NEW c \in C,
         KeepsStrongest(accepted, seen)
  PROVE  KeepsStrongest(merge(accepted, c), seen \cup {c})
<1> DEFINE same == {d \in accepted : d.key = c.key}
<1>1. CASE same = {}
  <2>1. merge(accepted, c) = accepted \cup {c}
    BY <1>1 DEF merge
  <2>2. \A k \in accepted : k.key # c.key
    BY <1>1
  <2>3. \A d \in seen : d.key # c.key
    BY <2>2 DEF KeepsStrongest
  <2>4. ~stronger(c, c)
    BY StrongerIsAnOrder
  <2>5. QED
    BY <2>1, <2>2, <2>3, <2>4 DEF KeepsStrongest
<1>2. CASE same # {}
  <2>1. PICK k \in accepted : k.key = c.key
    BY <1>2
  <2>2. same = {k}
    BY <2>1 DEF KeepsStrongest
  <2> DEFINE w == _pick_stronger(k, c)
  <2>3. merge(accepted, c) = (accepted \ {k}) \cup {w}
    <3>1. {_pick_stronger(d, c) : d \in same} = {w}
      BY <2>2
    <3>2. QED
      BY <1>2, <2>2, <3>1 DEF merge
  <2>4. k \in seen /\ k \in C
    BY <2>1 DEF KeepsStrongest
  <2>5. w \in {k, c} /\ w.key = c.key /\ ~stronger(k, w) /\ ~stronger(c, w)
    <3>1. ~stronger(k, k) /\ ~stronger(c, c) /\ (stronger(c, k) => ~stronger(k, c))
      BY <2>4, StrongerIsAnOrder
    <3>2. CASE stronger(c, k)
      BY <3>1, <3>2 DEF _pick_stronger
    <3>3. CASE ~stronger(c, k)
      BY <2>1, <3>1, <3>3 DEF _pick_stronger
    <3>4. QED
      BY <3>2, <3>3
  <2>6. ASSUME NEW d \in seen, d.key = c.key PROVE ~stronger(d, w)
    <3>1. ~stronger(d, k) /\ d \in C /\ w \in C
      BY <2>1, <2>4, <2>5, <2>6 DEF KeepsStrongest
    <3>2. QED
      BY <2>4, <2>5, <3>1, StrongerIsAnOrder
  <2> HIDE DEF w, same
  <2>7. \A l \in accepted \ {k} : l.key # c.key
    BY <2>1 DEF KeepsStrongest
  <2> DEFINE kept == (accepted \ {k}) \cup {w}
  <2>8. kept \subseteq seen \cup {c}
    BY <2>4, <2>5 DEF KeepsStrongest
  <2>9. \A d \in seen \cup {c} : \E l \in kept : l.key = d.key
    <3>1. ASSUME NEW d \in seen \cup {c}, d.key # c.key
          PROVE  \E l \in kept : l.key = d.key
      <4>1. PICK l \in accepted : l.key = d.key
        BY <3>1 DEF KeepsStrongest
      <4>2. QED
        BY <2>1, <3>1, <4>1
    <3>2. QED
      BY <2>5, <3>1
  <2>10. \A l, m \in kept : l.key = m.key => l = m
    BY <2>5, <2>7 DEF KeepsStrongest
  <2>11. ASSUME NEW l \in kept, NEW d \in seen \cup {c}, d.key = l.key
         PROVE  ~stronger(d, l)
    <3>1. CASE l = w
      BY <2>5, <2>6, <2>11, <3>1
    <3>2. CASE l # w
      BY <2>7, <2>11, <3>2 DEF KeepsStrongest
    <3>3. QED
      BY <3>1, <3>2
  <2>12. QED
    BY <2>3, <2>8, <2>9, <2>10, <2>11 DEF KeepsStrongest
<1>3. QED
  BY <1>1, <1>2

(* The admissible findings at some places of a report.                     *)
good(report, places) == {report[i] : i \in {j \in places : admissible(report[j])}}

(* The next finding of a report.                                           *)
LEMMA AcceptKeepsStrongest ==
  ASSUME NEW C, Ranked(C), NEW seen \in SUBSET C, NEW accepted, NEW report,
         NEW places, NEW i, report[i] \in C,
         KeepsStrongest(accepted, seen \cup good(report, places)),
         good(report, places) \subseteq C
  PROVE  /\ KeepsStrongest(accept(accepted, report[i]), seen \cup good(report, places \cup {i}))
         /\ good(report, places \cup {i}) \subseteq C
<1> DEFINE c == report[i]
<1>1. CASE admissible(c)
  <2>1. good(report, places \cup {i}) = good(report, places) \cup {c}
    BY <1>1 DEF good
  <2>2. accept(accepted, c) = merge(accepted, c)
    BY <1>1 DEF accept
  <2>3. KeepsStrongest(merge(accepted, c), (seen \cup good(report, places)) \cup {c})
    BY MergeKeepsStrongest
  <2>4. (seen \cup good(report, places)) \cup {c} = seen \cup good(report, places \cup {i})
    BY <2>1
  <2>5. QED
    BY <2>1, <2>2, <2>3, <2>4
<1>2. CASE ~admissible(c)
  <2>1. good(report, places \cup {i}) = good(report, places)
    BY <1>2 DEF good
  <2>2. accept(accepted, c) = accepted
    BY <1>2 DEF accept
  <2>3. QED
    BY <2>1, <2>2
<1>3. QED
  BY <1>1, <1>2

(* Acceptance stays among the candidates.                                  *)
LEMMA AcceptTyped ==
  ASSUME NEW C, NEW accepted \in SUBSET C, NEW c \in C
  PROVE  accept(accepted, c) \in SUBSET C
<1>1. \A d \in accepted : _pick_stronger(d, c) \in C
  BY DEF _pick_stronger
<1>2. merge(accepted, c) \in SUBSET C
  BY <1>1 DEF merge
<1>3. QED
  BY <1>2 DEF accept

(* What the loop over a group iterates.                                    *)
CollectLoop(g, accepted, report, group) ==
  /\ g[{}] = accepted
  /\ \A s \in SUBSET group : s # {} => g[s] = accept(g[s \ {Max(s)}], report[Max(s)])

(* The loop over a group, unfolded: the greatest place comes last.         *)
LEMMA CollectUnfolds ==
  ASSUME NEW C, NEW n \in Nat, NEW report \in [1 .. n -> C], NEW accepted \in SUBSET C,
         NEW group \in SUBSET (1 .. n)
  PROVE  \E g : collect(accepted, report, group) = g[group] /\ CollectLoop(g, accepted, report, group)
<1> DEFINE X == SUBSET C
           h == [p \in X \X (1 .. n) |-> accept(p[1], report[p[2]])]
           loop(g) == g = [s \in SUBSET group |-> IF s = {} THEN accepted
                                                  ELSE accept(g[s \ {Max(s)}], report[Max(s)])]
           it == CHOOSE g : loop(g)
<1>1. h \in [X \X (1 .. n) -> X]
  <2>1. \A p \in X \X (1 .. n) : accept(p[1], report[p[2]]) \in X
    <3>1. ASSUME NEW p \in X \X (1 .. n) PROVE accept(p[1], report[p[2]]) \in X
      <4>1. p[1] \in SUBSET C /\ report[p[2]] \in C
        OBVIOUS
      <4>2. QED
        BY <4>1, AcceptTyped
    <3>2. QED
      BY <3>1
  <2>2. QED
    BY <2>1
<1>2. \A a \in X, i \in 1 .. n : h[<<a, i>>] = accept(a, report[i])
  OBVIOUS
<1> HIDE DEF h
<1>30. \E f \in [SUBSET (1 .. n) -> X] : Iterates(f, n, accepted, h)
  <2>1. n \in Nat /\ accepted \in X
    OBVIOUS
  <2> HIDE DEF X
  <2> QED BY <1>1, <2>1, FoldExists
<1>3. PICK f \in [SUBSET (1 .. n) -> X] : \A s \in SUBSET (1 .. n) :
        f[s] = IF s = {} THEN accepted ELSE h[<<f[s \ {Max(s)}], Max(s)>>]
  BY <1>30, Zenon DEF Iterates
<1>4. loop([s \in SUBSET group |-> f[s]])
  <2> DEFINE g == [s \in SUBSET group |-> f[s]]
  <2>1. ASSUME NEW s \in SUBSET group
        PROVE  g[s] = IF s = {} THEN accepted ELSE accept(g[s \ {Max(s)}], report[Max(s)])
    <3>1. s \in SUBSET (1 .. n) /\ g[s] = f[s]
      OBVIOUS
    <3>2. CASE s = {}
      BY <1>3, <3>1, <3>2
    <3>3. CASE s # {}
      <4>1. Max(s) \in 1 .. n
        BY <3>1, <3>3, MaxOfPlaces
      <4>2. f[s] = h[<<f[s \ {Max(s)}], Max(s)>>]
        BY <1>3, <3>1, <3>3
      <4>3. f[s \ {Max(s)}] \in X /\ g[s \ {Max(s)}] = f[s \ {Max(s)}]
        BY <1>3, <3>1
      <4>4. f[s] = accept(f[s \ {Max(s)}], report[Max(s)])
        BY <1>2, <4>1, <4>2, <4>3
      <4> HIDE DEF g
      <4>5. QED
        BY <3>1, <3>3, <4>3, <4>4
    <3>4. QED
      BY <3>2, <3>3
  <2>2. g = [s \in SUBSET group |-> g[s]]
    OBVIOUS
  <2> HIDE DEF g
  <2>3. loop(g)
    BY <2>1, <2>2
  <2>4. QED
    BY <2>3 DEF g
<1>5. loop(it)
  <2> HIDE DEF loop
  <2> QED BY <1>4, Zenon
<1>6. collect(accepted, report, group) = it[group]
  BY Zenon DEF collect, MapThenFoldSet
<1> HIDE DEF it
<1>7. it[{}] = accepted
  BY <1>5
<1>8. \A s \in SUBSET group : s # {} => it[s] = accept(it[s \ {Max(s)}], report[Max(s)])
  BY <1>5
<1>9. QED
  BY <1>6, <1>7, <1>8, Zenon DEF CollectLoop

(* The loop over a group keeps the strongest of what was seen and of the   *)
(* group.                                                                  *)
LEMMA CollectKeepsStrongest ==
  ASSUME NEW C, Ranked(C), NEW n \in Nat, NEW report \in [1 .. n -> C],
         NEW accepted \in SUBSET C, NEW group \in SUBSET (1 .. n),
         NEW seen \in SUBSET C, KeepsStrongest(accepted, seen)
  PROVE  /\ collect(accepted, report, group) \in SUBSET C
         /\ KeepsStrongest(collect(accepted, report, group), seen \cup good(report, group))
<1>0. PICK g : collect(accepted, report, group) = g[group] /\ CollectLoop(g, accepted, report, group)
  BY CollectUnfolds
<1>1. /\ collect(accepted, report, group) = g[group]
      /\ g[{}] = accepted
      /\ \A s \in SUBSET group : s # {} => g[s] = accept(g[s \ {Max(s)}], report[Max(s)])
  BY <1>0 DEF CollectLoop
<1> DEFINE kept(s) == g[s] \in SUBSET C /\ KeepsStrongest(g[s], seen \cup good(report, s))
           G == {s \in SUBSET (1 .. n) : s \subseteq group => kept(s)}
<1>2. {} \in G
  <2>1. good(report, {}) = {}
    BY DEF good
  <2>2. QED
    BY <1>1, <2>1
<1>3. ASSUME NEW s \in SUBSET (1 .. n), NEW i \in 1 .. n, s \in G, \A j \in s : j < i
      PROVE  s \cup {i} \in G
  <2>1. ASSUME s \cup {i} \subseteq group PROVE kept(s \cup {i})
    <3>1. kept(s) /\ i \notin s
      BY <1>3, <2>1
    <3> DEFINE t == s \cup {i}
    <3>2. Max(t) = i
      BY <1>3, MaxOfNext
    <3>3. t \ {i} = s /\ t # {} /\ t \subseteq group
      BY <2>1, <3>1
    <3>4. g[t] = accept(g[s], report[i])
      BY <1>1, <3>2, <3>3
    <3>5. report[i] \in C /\ good(report, s) \subseteq C
      BY DEF good
    <3>6. g[t] \in SUBSET C
      BY <3>1, <3>4, <3>5, AcceptTyped
    <3>7. KeepsStrongest(accept(g[s], report[i]), seen \cup good(report, s \cup {i}))
      BY <3>1, <3>5, AcceptKeepsStrongest
    <3>8. QED
      BY <3>4, <3>6, <3>7
  <2> HIDE DEF kept
  <2>2. QED
    BY <2>1
<1>4. group \in G
  <2> HIDE DEF G
  <2> QED BY <1>2, <1>3, PlacesInduction
<1>5. QED
  BY <1>1, <1>4

(* Every place of a report is in the group of the first of its source.     *)
LEMMA GroupsCover ==
  ASSUME NEW n \in Nat, NEW report, DOMAIN report = 1 .. n, NEW j \in 1 .. n
  PROVE  \E i \in 1 .. n : j \in _judge_payload_to_reviewer_outputs(report)[i]
<1> DEFINE source(k) == report[k].source
           first(i, k) == source(i) = source(k) /\ \A l \in 1 .. i - 1 : source(l) # source(k)
           T == {m \in Nat : \A k \in 1 .. m : \E i \in 1 .. k : first(i, k)}
<1>1. 0 \in T
  OBVIOUS
<1>2. ASSUME NEW m \in Nat, m \in T PROVE m + 1 \in T
  <2>1. \E i \in 1 .. m + 1 : first(i, m + 1)
    <3>1. CASE \E k \in 1 .. m : source(k) = source(m + 1)
      <4>1. PICK k \in 1 .. m : source(k) = source(m + 1)
        BY <3>1
      <4>2. PICK i \in 1 .. k : first(i, k)
        BY <1>2
      <4>3. i \in 1 .. m + 1 /\ first(i, m + 1)
        BY <4>1, <4>2
      <4>4. QED
        BY <4>3
    <3>2. CASE ~\E k \in 1 .. m : source(k) = source(m + 1)
      <4>1. m + 1 \in 1 .. m + 1 /\ first(m + 1, m + 1)
        BY <3>2
      <4>2. QED
        BY <4>1
    <3>3. QED
      BY <3>1, <3>2
  <2>2. ASSUME NEW k \in 1 .. m + 1 PROVE \E i \in 1 .. k : first(i, k)
    <3>1. k = m + 1 \/ k \in 1 .. m
      OBVIOUS
    <3> HIDE DEF first
    <3>2. QED
      BY <1>2, <2>1, <3>1
  <2> HIDE DEF first
  <2>3. QED
    BY <2>2
<1>3. n \in T
  <2> HIDE DEF T
  <2> QED BY <1>1, <1>2, SetInduction
<1>4. PICK i \in 1 .. j : first(i, j)
  BY <1>3
<1>5. i \in 1 .. n
  OBVIOUS
<1>6. j \in _judge_payload_to_reviewer_outputs(report)[i]
  BY <1>4, <1>5 DEF _judge_payload_to_reviewer_outputs
<1>7. QED
  BY <1>5, <1>6

(* The loop over a group stays among the candidates.                       *)
LEMMA CollectTyped ==
  ASSUME NEW C, NEW n \in Nat, NEW report \in [1 .. n -> C], NEW accepted \in SUBSET C,
         NEW group \in SUBSET (1 .. n)
  PROVE  collect(accepted, report, group) \in SUBSET C
<1>0. PICK g : collect(accepted, report, group) = g[group] /\ CollectLoop(g, accepted, report, group)
  BY CollectUnfolds
<1>1. /\ collect(accepted, report, group) = g[group]
      /\ g[{}] = accepted
      /\ \A s \in SUBSET group : s # {} => g[s] = accept(g[s \ {Max(s)}], report[Max(s)])
  BY <1>0 DEF CollectLoop
<1> DEFINE G == {s \in SUBSET (1 .. n) : s \subseteq group => g[s] \in SUBSET C}
<1>2. {} \in G
  BY <1>1
<1>3. ASSUME NEW s \in SUBSET (1 .. n), NEW i \in 1 .. n, s \in G, \A j \in s : j < i
      PROVE  s \cup {i} \in G
  <2>1. ASSUME s \cup {i} \subseteq group PROVE g[s \cup {i}] \in SUBSET C
    <3>1. Max(s \cup {i}) = i /\ (s \cup {i}) \ {i} = s
      BY <1>3, MaxOfNext
    <3>2. g[s \cup {i}] = accept(g[s], report[i])
      BY <1>1, <2>1, <3>1
    <3>3. g[s] \in SUBSET C /\ report[i] \in C
      BY <1>3, <2>1
    <3>4. QED
      BY <3>2, <3>3, AcceptTyped
  <2>2. QED
    BY <2>1
<1>4. group \in G
  <2> HIDE DEF G
  <2> QED BY <1>2, <1>3, PlacesInduction
<1>5. QED
  BY <1>1, <1>4

(* What the loop over the groups iterates.                                 *)
NormalizeLoop(g, report, groups) ==
  /\ g[{}] = {}
  /\ \A s \in SUBSET (DOMAIN report) : s # {} =>
       g[s] = collect(g[s \ {Max(s)}], report, groups[Max(s)])

(* The loop over the groups, unfolded.                                     *)
LEMMA NormalizeUnfolds ==
  ASSUME NEW C, NEW n \in Nat, NEW report \in [1 .. n -> C]
  PROVE  \E g : /\ normalize(report) = g[1 .. n]
                /\ NormalizeLoop(g, report, _judge_payload_to_reviewer_outputs(report))
<1> DEFINE X == SUBSET C
           groups == _judge_payload_to_reviewer_outputs(report)
           h == [p \in X \X (1 .. n) |-> collect(p[1], report, groups[p[2]])]
           loop(g) == g = [s \in SUBSET (1 .. n) |->
                             IF s = {} THEN {} ELSE collect(g[s \ {Max(s)}], report, groups[Max(s)])]
           it == CHOOSE g : loop(g)
<1>1. DOMAIN groups = 1 .. n /\ \A i \in 1 .. n : groups[i] \in SUBSET (1 .. n)
  BY DEF _judge_payload_to_reviewer_outputs
<1>2. normalize(report) = it[1 .. n]
  <2>1. normalize(report) = MapThenFoldSet(LAMBDA group, accepted : collect(accepted, report, group),
                                           {}, LAMBDA i : groups[i], LAMBDA places : Max(places),
                                           DOMAIN groups)
    BY Zenon DEF normalize, FoldLeft
  <2>2. QED
    BY <1>1, <2>1, Zenon DEF MapThenFoldSet
<1> HIDE DEF groups
<1>3. h \in [X \X (1 .. n) -> X]
  <2>1. ASSUME NEW p \in X \X (1 .. n) PROVE collect(p[1], report, groups[p[2]]) \in X
    <3>1. p[1] \in SUBSET C /\ groups[p[2]] \in SUBSET (1 .. n)
      BY <1>1
    <3>2. QED
      BY <3>1, CollectTyped
  <2>2. QED
    BY <2>1
<1>4. \A a \in X, i \in 1 .. n : h[<<a, i>>] = collect(a, report, groups[i])
  OBVIOUS
<1> HIDE DEF h
<1>50. \E f \in [SUBSET (1 .. n) -> X] : Iterates(f, n, {}, h)
  <2>1. n \in Nat /\ {} \in X
    OBVIOUS
  <2> HIDE DEF X
  <2> QED BY <1>3, <2>1, FoldExists
<1>5. PICK f \in [SUBSET (1 .. n) -> X] : \A s \in SUBSET (1 .. n) :
        f[s] = IF s = {} THEN {} ELSE h[<<f[s \ {Max(s)}], Max(s)>>]
  BY <1>50, Zenon DEF Iterates
<1>6. loop(f)
  <2>1. ASSUME NEW s \in SUBSET (1 .. n)
        PROVE  f[s] = IF s = {} THEN {} ELSE collect(f[s \ {Max(s)}], report, groups[Max(s)])
    <3>1. CASE s = {}
      BY <1>5, <3>1
    <3>2. CASE s # {}
      <4>1. Max(s) \in 1 .. n
        BY <3>2, MaxOfPlaces
      <4>2. f[s] = h[<<f[s \ {Max(s)}], Max(s)>>]
        BY <1>5, <3>2
      <4>3. f[s \ {Max(s)}] \in X
        BY <1>5
      <4>4. f[s] = collect(f[s \ {Max(s)}], report, groups[Max(s)])
        BY <1>4, <4>1, <4>2, <4>3
      <4>5. QED
        BY <3>2, <4>4
    <3>3. QED
      BY <3>1, <3>2
  <2>2. f = [s \in SUBSET (1 .. n) |-> f[s]]
    OBVIOUS
  <2>3. QED
    BY <2>1, <2>2
<1>7. loop(it)
  <2> HIDE DEF loop
  <2> QED BY <1>6, Zenon
<1> HIDE DEF it
<1>8. it[{}] = {}
  BY <1>7
<1>9. \A s \in SUBSET (1 .. n) : s # {} => it[s] = collect(it[s \ {Max(s)}], report, groups[Max(s)])
  BY <1>7
<1>10. QED
  <2>1. DOMAIN report = 1 .. n
    OBVIOUS
  <2>2. NormalizeLoop(it, report, groups)
    BY <1>8, <1>9, <2>1 DEF NormalizeLoop
  <2>3. QED
    BY <1>2, <2>2, Zenon DEF groups

(* What the judge keeps of a report: of the admissible findings one per    *)
(* key, and none of that key is stronger.                                  *)
LEMMA NormalizeKeepsStrongest ==
  ASSUME NEW C, Ranked(C), NEW n \in Nat, NEW report \in [1 .. n -> C]
  PROVE  /\ normalize(report) \in SUBSET C
         /\ KeepsStrongest(normalize(report), good(report, 1 .. n))
<1> DEFINE groups == _judge_payload_to_reviewer_outputs(report)
           upto(s) == UNION {groups[i] : i \in s}
<1>1. \A i \in 1 .. n : groups[i] \in SUBSET (1 .. n)
  BY DEF _judge_payload_to_reviewer_outputs
<1>20. PICK g : /\ normalize(report) = g[1 .. n]
                /\ NormalizeLoop(g, report, _judge_payload_to_reviewer_outputs(report))
  BY NormalizeUnfolds
<1>2. /\ normalize(report) = g[1 .. n]
      /\ g[{}] = {}
      /\ \A s \in SUBSET (1 .. n) : s # {} =>
           g[s] = collect(g[s \ {Max(s)}], report, groups[Max(s)])
  <2>1. DOMAIN report = 1 .. n
    OBVIOUS
  <2>2. QED
    BY <1>20, <2>1 DEF NormalizeLoop
<1>3. upto(1 .. n) = 1 .. n
  <2>1. \A j \in 1 .. n : \E i \in 1 .. n : j \in groups[i]
    BY GroupsCover
  <2> HIDE DEF groups
  <2>2. QED
    BY <1>1, <2>1
<1> HIDE DEF groups
<1> DEFINE kept(s) == g[s] \in SUBSET C /\ KeepsStrongest(g[s], good(report, upto(s)))
           G == {s \in SUBSET (1 .. n) : kept(s)}
<1>4. {} \in G
  <2>1. good(report, upto({})) = {}
    BY DEF good
  <2> HIDE DEF upto
  <2>2. kept({})
    BY <1>2, <2>1 DEF KeepsStrongest
  <2>3. QED
    BY <2>2
<1>5. ASSUME NEW s \in SUBSET (1 .. n), NEW i \in 1 .. n, s \in G, \A j \in s : j < i
      PROVE  s \cup {i} \in G
  <2>1. Max(s \cup {i}) = i /\ (s \cup {i}) \ {i} = s
    BY <1>5, MaxOfNext
  <2>2. g[s \cup {i}] = collect(g[s], report, groups[i])
    BY <1>2, <2>1
  <2>3. good(report, upto(s \cup {i})) = good(report, upto(s)) \cup good(report, groups[i])
    <3>1. upto(s \cup {i}) = upto(s) \cup groups[i]
      OBVIOUS
    <3> HIDE DEF upto
    <3>2. QED
      BY <3>1 DEF good
  <2>4. good(report, upto(s)) \in SUBSET C
    <3>1. upto(s) \in SUBSET (1 .. n)
      BY <1>1
    <3> HIDE DEF upto
    <3>2. QED
      BY <3>1 DEF good
  <2> HIDE DEF upto
  <2>5. kept(s)
    BY <1>5
  <2>6. kept(s \cup {i})
    <3>1. groups[i] \in SUBSET (1 .. n)
      BY <1>1
    <3> DEFINE seen == good(report, upto(s))
               accepted == g[s]
               group == groups[i]
    <3>2. /\ seen \in SUBSET C /\ accepted \in SUBSET C /\ KeepsStrongest(accepted, seen)
          /\ group \in SUBSET (1 .. n)
      BY <2>4, <2>5, <3>1
    <3> HIDE DEF seen, accepted, group
    <3>3. /\ collect(accepted, report, group) \in SUBSET C
          /\ KeepsStrongest(collect(accepted, report, group), seen \cup good(report, group))
      BY <3>2, CollectKeepsStrongest
    <3>4. QED
      BY <2>2, <2>3, <3>3 DEF seen, accepted, group
  <2> HIDE DEF kept
  <2>7. QED
    BY <2>6
<1>6. 1 .. n \in G
  <2> HIDE DEF G
  <2> QED BY <1>4, <1>5, PlacesInduction
<1>7. QED
  BY <1>2, <1>3, <1>6

(* What the judge keeps of a report it may give.                           *)
LEMMA KeptOfReport ==
  ASSUME NEW report \in Reports
  PROVE  LET admitted == {c \in ToSet(report) : admissible(c)}
             kept == normalize(report) IN
         /\ kept \subseteq admitted
         /\ \A c \in admitted : Cardinality({k \in kept : k.key = c.key}) = 1
         /\ \A k \in kept, c \in admitted : c.key = k.key => ~stronger(c, k)
<1> DEFINE admitted == {c \in ToSet(report) : admissible(c)}
           kept == normalize(report)
<1>1. PICK n \in 0 .. MaxReported : report \in [1 .. n -> Candidates]
  BY DEF Reports
<1>2. n \in Nat /\ Ranked(Candidates)
  BY WorkflowAssumption DEF Ranked
<1>3. KeepsStrongest(kept, good(report, 1 .. n))
  BY <1>1, <1>2, NormalizeKeepsStrongest
<1>4. good(report, 1 .. n) = admitted
  BY <1>1 DEF good, ToSet
<1> HIDE DEF kept, admitted
<1>5. KeepsStrongest(kept, admitted)
  BY <1>3, <1>4
<1>6. ASSUME NEW c \in admitted PROVE Cardinality({k \in kept : k.key = c.key}) = 1
  <2>1. PICK k \in kept : k.key = c.key
    BY <1>5 DEF KeepsStrongest
  <2>2. {l \in kept : l.key = c.key} = {k}
    BY <1>5, <2>1 DEF KeepsStrongest
  <2>3. QED
    BY <2>2, FS_Singleton
<1>7. QED
  BY <1>5, <1>6 DEF KeepsStrongest, kept, admitted

(* A run that stores findings has a report of the judge in hand.           *)
ReportsGiven == \A d \in Daemons : at(d, "persist") => work[d].report \in Reports

(* A run comes to its findings by the judge's answer, and keeps its report *)
(* until it is done with them.                                             *)
LEMMA ReportOwn ==
  ASSUME Shaped, NEW d \in Daemons, Claim(d) \/ Workflow(d) \/ Crash(d),
         work'[d].pc = "persist"
  PROVE  \/ work'[d].report \in Reports
         \/ work[d].pc = "persist" /\ work'[d].report = work[d].report
<1>1. (\A verb : ~halts_on(d, verb)) /\ (\A gate : ~ends(d, gate))
  BY Halts, Ends
<1>2. \A pc \in Pcs \ {"persist"} : ~goes(d, pc)
  BY Goes
<1>3. ~Leaves(d)
  BY Written, IdleShape DEF Leaves, SaveOutcome, Halt, Crash
<1>4. ~Claim(d) /\ ~Prepare(d) /\ ~PrepareContext(d) /\ ~StartJudge(d) /\ ~JudgeFails(d)
      /\ ~Conclude(d)
  BY <1>1, <1>2 DEF Claim, Prepare, PrepareContext, StartJudge, JudgeFails, Conclude, Checked,
     halts, Pcs
<1>5. ~Plan(d) /\ ~Join(d)
  BY <1>1, <1>2, FanOut DEF Plan, Join, Checked, halts, Pcs
<1>6. \A i \in DOMAIN work[d].thread : ~Reviewer(d, i)
  <2>1. ASSUME NEW i \in DOMAIN work[d].thread, Reviewer(d, i) PROVE FALSE
    <3>1. CASE Collect(d, i)
      BY <3>1, Collected
    <3>2. ASSUME NEW state, becomes(d, i, state), work[d].pc = "fanout" PROVE FALSE
      BY <3>2, Becomes DEF Fields
    <3>3. CASE BeginReviewer(d, i) \/ StartReviewer(d, i) \/ TurnEnds(d, i) \/ FinishReviewer(d, i)
      BY <3>2, <3>3 DEF BeginReviewer, StartReviewer, TurnEnds, FinishReviewer, at
    <3>4. QED
      BY <2>1, <3>1, <3>3 DEF Reviewer
  <2>2. QED
    BY <2>1
<1>7. ~JudgeTurnEnds(d)
  <2>1. ASSUME NEW r, work' = [work EXCEPT ![d].pc = "judged", ![d].judge = r] PROVE FALSE
    BY <2>1 DEF Shaped, Shape, Fields
  <2>2. QED
    BY <1>1, <2>1 DEF JudgeTurnEnds, Checked, halts
<1>8. CASE JudgeAnswers(d)
  BY <1>8, Answers
<1>9. CASE create_finding(d)
  BY <1>1, <1>9, Stores DEF create_finding, at, halts
<1>10. QED
  BY <1>3, <1>4, <1>5, <1>6, <1>7, <1>8, <1>9 DEF Workflow, Leaves

(* Every step keeps it.                                                    *)
LEMMA StepReports == WorkflowInv /\ ReportsGiven /\ [Next]_vars => ReportsGiven'
<1> SUFFICES ASSUME WorkflowInv, ReportsGiven, [Next]_vars PROVE ReportsGiven'
  OBVIOUS
<1>1. CASE work' = work
  BY <1>1 DEF ReportsGiven, at
<1>2. ASSUME NEW d \in Daemons, Claim(d) \/ Workflow(d) \/ Crash(d)
      PROVE  ReportsGiven'
  <2>1. Others(d) /\ Shaped
    BY <1>2, StepOwn DEF OwnWork, WorkflowInv
  <2>2. QED
    BY <1>2, <2>1, ReportOwn DEF ReportsGiven, Others, at
<1>3. QED
  BY <1>1, <1>2 DEF Next, vars, RecoverStale, LeaseExpires, RequestStop, Cancel, Requeue, Asks

(* Of every report, however long, whatever the sources of its findings and *)
(* in whatever order, a run stores one admissible finding per key, and no  *)
(* stronger one of that key was in the report.                             *)
THEOREM StrongestCorrect == Spec => []StrongestIsKept
<1>1. Init => ReportsGiven
  <2>1. \A d \in Daemons : Init => work[d].pc = "idle"
    BY IdleShape DEF Init
  <2>2. QED
    BY <2>1 DEF ReportsGiven, at
<1>2. ReportsGiven => StrongestIsKept
  BY KeptOfReport DEF ReportsGiven, StrongestIsKept
<1>3. QED
  BY <1>1, <1>2, StepReports, WorkflowCorrect, PTL DEF Spec

-----------------------------------------------------------------------------
(* The changed lines.                                                      *)

(* What the loop over the lines of a diff iterates.                        *)
Start == [file |-> NoFile, line |-> 0, result |-> {}]
Paths == STRING \cup {NoFile}
States == [file : Paths, line : Nat, result : SUBSET (Paths \X Nat)]

LinesLoop(g, diff) ==
  /\ g[{}] = Start
  /\ \A s \in SUBSET (DOMAIN diff) : s # {} => g[s] = after(g[s \ {Max(s)}], diff[Max(s)])

(* The loop starts in a state of the right kind.                           *)
LEMMA StartTyped == Start \in States
<1>1. {} \in SUBSET (Paths \X Nat) /\ NoFile \in Paths
  BY DEF Paths
<1> HIDE DEF NoFile
<1>2. QED
  BY <1>1 DEF Start, States

(* One round of the loop, by the fields of its state.                      *)
LEMMA AfterFields ==
  ASSUME NEW state \in States, NEW raw \in RawLine
  PROVE  /\ after(state, raw) \in States
         /\ after(state, raw).file = IF raw.kind = "file" THEN raw.arg ELSE state.file
         /\ after(state, raw).line = CASE raw.kind = "hunk" -> raw.arg
                                       [] raw.kind \in {"file", "removed"} -> state.line
                                       [] OTHER -> state.line + 1
         /\ after(state, raw).result = IF raw.kind = "added" /\ state.file # NoFile
                                       THEN state.result \cup {<<state.file, state.line>>}
                                       ELSE state.result
<1>1. CASE raw.kind = "file"
  <2>1. raw.arg \in Paths
    BY <1>1 DEF RawLine, Paths
  <2>2. QED
    BY <1>1, <2>1 DEF States, after
<1>2. CASE raw.kind = "hunk"
  <2>1. raw.arg \in Nat
    BY <1>2 DEF RawLine
  <2>2. QED
    BY <1>2, <2>1 DEF States, after
<1>3. CASE raw.kind = "added"
  <2>1. <<state.file, state.line>> \in Paths \X Nat /\ state.line + 1 \in Nat
    BY DEF States
  <2>2. QED
    BY <1>3, <2>1 DEF States, after
<1>4. CASE raw.kind \notin {"file", "hunk", "added"}
  BY <1>4 DEF States, after
<1>5. QED
  BY <1>1, <1>2, <1>3, <1>4

(* The loop over the lines, unfolded: the last line comes last.            *)
LEMMA LinesUnfold ==
  ASSUME NEW n \in Nat, NEW diff \in [1 .. n -> RawLine]
  PROVE  \E g : _changed_lines(diff) = g[1 .. n].result /\ LinesLoop(g, diff)
<1> DEFINE h == [p \in States \X (1 .. n) |-> after(p[1], diff[p[2]])]
           loop(g) == g = [s \in SUBSET (1 .. n) |->
                             IF s = {} THEN Start ELSE after(g[s \ {Max(s)}], diff[Max(s)])]
           it == CHOOSE g : loop(g)
<1>1. DOMAIN diff = 1 .. n
  OBVIOUS
<1>2. _changed_lines(diff) = it[1 .. n].result
  <2> DEFINE folded == MapThenFoldSet(LAMBDA raw, state : after(state, raw), Start,
                                      LAMBDA i : diff[i], LAMBDA places : Max(places), DOMAIN diff)
  <2>1. folded = it[1 .. n]
    BY <1>1, Zenon DEF MapThenFoldSet
  <2>2. _changed_lines(diff) = folded.result
    BY Zenon DEF _changed_lines, FoldLeft, Start
  <2> HIDE DEF folded
  <2>3. QED
    BY <2>1, <2>2
<1>3. h \in [States \X (1 .. n) -> States]
  <2>1. ASSUME NEW p \in States \X (1 .. n) PROVE after(p[1], diff[p[2]]) \in States
    <3>1. p[1] \in States /\ diff[p[2]] \in RawLine
      OBVIOUS
    <3>2. QED
      BY <3>1, AfterFields
  <2>2. QED
    BY <2>1
<1>4. \A a \in States, i \in 1 .. n : h[<<a, i>>] = after(a, diff[i])
  OBVIOUS
<1> HIDE DEF h
<1>5. \E f \in [SUBSET (1 .. n) -> States] : Iterates(f, n, Start, h)
  <2>1. Start \in States
    BY StartTyped
  <2>2. QED
    BY <1>3, <2>1, FoldExists
<1>6. PICK f \in [SUBSET (1 .. n) -> States] : \A s \in SUBSET (1 .. n) :
        f[s] = IF s = {} THEN Start ELSE h[<<f[s \ {Max(s)}], Max(s)>>]
  BY <1>5, Zenon DEF Iterates
<1>7. loop(f)
  <2>1. ASSUME NEW s \in SUBSET (1 .. n)
        PROVE  f[s] = IF s = {} THEN Start ELSE after(f[s \ {Max(s)}], diff[Max(s)])
    <3>1. CASE s = {}
      BY <1>6, <3>1
    <3>2. CASE s # {}
      <4>1. Max(s) \in 1 .. n
        BY <3>2, MaxOfPlaces
      <4>2. f[s] = h[<<f[s \ {Max(s)}], Max(s)>>]
        BY <1>6, <3>2
      <4>3. f[s \ {Max(s)}] \in States
        BY <1>6
      <4>4. f[s] = after(f[s \ {Max(s)}], diff[Max(s)])
        BY <1>4, <4>1, <4>2, <4>3
      <4>5. QED
        BY <3>2, <4>4
    <3>3. QED
      BY <3>1, <3>2
  <2>2. f = [s \in SUBSET (1 .. n) |-> f[s]]
    OBVIOUS
  <2>3. QED
    BY <2>1, <2>2
<1>8. loop(it)
  <2> HIDE DEF loop
  <2> QED BY <1>7, Zenon
<1> HIDE DEF it
<1>9. it[{}] = Start
  BY <1>8
<1>10. \A s \in SUBSET (1 .. n) : s # {} => it[s] = after(it[s \ {Max(s)}], diff[Max(s)])
  BY <1>8
<1>11. LinesLoop(it, diff)
  BY <1>1, <1>9, <1>10 DEF LinesLoop
<1>12. QED
  BY <1>2, <1>11, Zenon

(* The last line of a kind among the first m + 1 is the last of these, or  *)
(* the last among the first m.                                             *)
LEMMA LastMoves ==
  ASSUME NEW diff, NEW kind, NEW m \in Nat
  PROVE  /\ diff[m + 1].kind = kind => last(diff, kind, m + 1) = m + 1
         /\ diff[m + 1].kind # kind => last(diff, kind, m + 1) = last(diff, kind, m)
<1> DEFINE of(k) == {j \in 1 .. k : diff[j].kind = kind}
<1>1. ASSUME diff[m + 1].kind = kind PROVE last(diff, kind, m + 1) = m + 1
  <2>1. of(m + 1) \in SUBSET (1 .. m + 1) /\ m + 1 \in of(m + 1) /\ m + 1 \in Nat
    BY <1>1
  <2>2. Max(of(m + 1)) \in of(m + 1) /\ \A j \in of(m + 1) : j <= Max(of(m + 1))
    BY <2>1, MaxOfPlaces
  <2>3. Max(of(m + 1)) \in 1 .. m + 1 /\ m + 1 <= Max(of(m + 1))
    BY <2>1, <2>2
  <2>4. Max(of(m + 1)) = m + 1
    BY <2>3
  <2>5. QED
    BY <2>4 DEF last
<1>2. ASSUME diff[m + 1].kind # kind PROVE last(diff, kind, m + 1) = last(diff, kind, m)
  <2>1. of(m + 1) = of(m)
    BY <1>2
  <2>2. QED
    BY <2>1, Zenon DEF last
<1>3. QED
  BY <1>1, <1>2

(* The lines of the new file a hunk has shown before its line m + 1.       *)
Shown(diff, h, m) == {j \in h + 1 .. m : diff[j].kind \in {"context", "added", "added++"}}

(* One line more is counted if it is one of the new file.                  *)
LEMMA ShownGrows ==
  ASSUME NEW diff, NEW m \in Nat, NEW h \in 1 .. m
  PROVE  /\ Cardinality(Shown(diff, h, m)) \in Nat
         /\ Cardinality(Shown(diff, h, m + 1)) =
              IF diff[m + 1].kind \in {"context", "added", "added++"}
              THEN Cardinality(Shown(diff, h, m)) + 1 ELSE Cardinality(Shown(diff, h, m))
<1> DEFINE old == Shown(diff, h, m)
           new == Shown(diff, h, m + 1)
<1>1. IsFiniteSet(old)
  <2>1. IsFiniteSet(h + 1 .. m) /\ old \subseteq h + 1 .. m
    BY FS_Interval DEF Shown
  <2>2. QED
    BY <2>1, FS_Subset
<1>2. CASE diff[m + 1].kind \in {"context", "added", "added++"}
  <2>1. m + 1 \notin old /\ new = old \cup {m + 1}
    BY <1>2 DEF Shown
  <2> HIDE DEF old, new
  <2>2. Cardinality(new) = Cardinality(old) + 1
    BY <1>1, <2>1, FS_AddElement
  <2>3. Cardinality(old) \in Nat
    BY <1>1, FS_CardinalityType
  <2>4. QED
    BY <1>2, <2>2, <2>3 DEF old, new
<1>3. CASE diff[m + 1].kind \notin {"context", "added", "added++"}
  <2>1. new = old
    BY <1>3 DEF Shown
  <2> HIDE DEF old, new
  <2>2. Cardinality(old) \in Nat
    BY <1>1, FS_CardinalityType
  <2>3. QED
    BY <1>3, <2>1, <2>2 DEF old, new
<1>4. QED
  BY <1>2, <1>3

(* The place in the new file of an added line.                             *)
Place(diff, i) ==
  <<diff[last(diff, "file", i)].arg,
    diff[last(diff, "hunk", i)].arg + Cardinality(Shown(diff, last(diff, "hunk", i), i - 1))>>

Headed(diff, kind, m) == \E j \in 1 .. m : diff[j].kind = kind

(* What the loop knows after the first m lines: the file and the line of   *)
(* the new file it is at, and the lines added so far.                      *)
Reads(state, diff, m) ==
  /\ state \in States
  /\ state.file = IF Headed(diff, "file", m) THEN diff[last(diff, "file", m)].arg ELSE NoFile
  /\ Headed(diff, "hunk", m) =>
       state.line = diff[last(diff, "hunk", m)].arg
                    + Cardinality(Shown(diff, last(diff, "hunk", m), m))
  /\ state.result = {Place(diff, i) : i \in {k \in 1 .. m : diff[k].kind = "added"}}

(* The last header of a kind is one of that kind.                          *)
LEMMA LastIsHeader ==
  ASSUME NEW diff, NEW kind, NEW m \in Nat, Headed(diff, kind, m)
  PROVE  last(diff, kind, m) \in 1 .. m /\ diff[last(diff, kind, m)].kind = kind
<1> DEFINE of == {j \in 1 .. m : diff[j].kind = kind}
<1>1. of \in SUBSET (1 .. m) /\ of # {}
  BY DEF Headed
<1>2. Max(of) \in of
  BY <1>1, MaxOfPlaces
<1>3. QED
  BY <1>2, Zenon DEF last

(* It reads one line more.                                                 *)
LEMMA ReadsOn ==
  ASSUME NEW n \in Nat, NEW diff \in [1 .. n -> RawLine], NEW m \in 0 .. n - 1, NEW state,
         ordinary(diff), Reads(state, diff, m),
         diff[m + 1].kind = "added" => Headed(diff, "file", m + 1) /\ Headed(diff, "hunk", m + 1)
  PROVE  Reads(after(state, diff[m + 1]), diff, m + 1)
<1> DEFINE raw == diff[m + 1]
           next == after(state, raw)
<1>1. m \in Nat /\ m + 1 \in 1 .. n /\ raw \in RawLine /\ raw.kind \in Ordinary /\ state \in States
  BY DEF ordinary, Reads
<1>2. /\ next \in States
      /\ next.file = IF raw.kind = "file" THEN raw.arg ELSE state.file
      /\ next.line = CASE raw.kind = "hunk" -> raw.arg
                       [] raw.kind \in {"file", "removed"} -> state.line
                       [] OTHER -> state.line + 1
      /\ next.result = IF raw.kind = "added" /\ state.file # NoFile
                       THEN state.result \cup {<<state.file, state.line>>} ELSE state.result
  BY <1>1, AfterFields
<1> HIDE DEF raw, next
<1>3. \A kind : /\ raw.kind = kind => Headed(diff, kind, m + 1)
                /\ raw.kind # kind => (Headed(diff, kind, m + 1) <=> Headed(diff, kind, m))
  <2>1. \A j : j \in 1 .. m + 1 <=> j = m + 1 \/ j \in 1 .. m
    BY <1>1
  <2>2. QED
    BY <2>1 DEF Headed, raw
<1>4. next.file = IF Headed(diff, "file", m + 1) THEN diff[last(diff, "file", m + 1)].arg ELSE NoFile
  <2>1. CASE raw.kind = "file"
    BY <1>1, <1>2, <1>3, <2>1, LastMoves DEF raw
  <2>2. CASE raw.kind # "file"
    <3>1. last(diff, "file", m + 1) = last(diff, "file", m)
      BY <1>1, <2>2, LastMoves DEF raw
    <3>2. QED
      BY <1>2, <1>3, <2>2, <3>1 DEF Reads
  <2>3. QED
    BY <2>1, <2>2
<1>5. ASSUME Headed(diff, "hunk", m + 1)
      PROVE  next.line = diff[last(diff, "hunk", m + 1)].arg
                         + Cardinality(Shown(diff, last(diff, "hunk", m + 1), m + 1))
  <2>1. CASE raw.kind = "hunk"
    <3>1. last(diff, "hunk", m + 1) = m + 1
      BY <1>1, <2>1, LastMoves DEF raw
    <3>2. Shown(diff, m + 1, m + 1) = {}
      BY <1>1 DEF Shown
    <3>3. Cardinality({}) = 0
      BY FS_EmptySet
    <3>4. raw.arg \in Nat
      BY <1>1, <2>1 DEF RawLine
    <3>5. next.line = raw.arg /\ raw.arg = raw.arg + 0
      BY <1>2, <2>1, <3>4
    <3>6. QED
      BY <3>1, <3>2, <3>3, <3>5 DEF raw
  <2>2. CASE raw.kind # "hunk"
    <3> DEFINE h == last(diff, "hunk", m)
    <3>1. last(diff, "hunk", m + 1) = h /\ Headed(diff, "hunk", m)
      BY <1>1, <1>3, <1>5, <2>2, LastMoves DEF raw
    <3>2. h \in 1 .. m /\ diff[h].kind = "hunk"
      BY <1>1, <3>1, LastIsHeader
    <3>3. diff[h].arg \in Nat
      <4>1. diff[h] \in RawLine
        BY <1>1, <3>2
      <4>2. QED
        BY <3>2, <4>1 DEF RawLine
    <3>4. state.line = diff[h].arg + Cardinality(Shown(diff, h, m))
      BY <3>1 DEF Reads
    <3> HIDE DEF h
    <3>5. /\ Cardinality(Shown(diff, h, m)) \in Nat
          /\ Cardinality(Shown(diff, h, m + 1)) =
               IF raw.kind \in {"context", "added", "added++"}
               THEN Cardinality(Shown(diff, h, m)) + 1 ELSE Cardinality(Shown(diff, h, m))
      BY <1>1, <3>2, ShownGrows DEF raw
    <3>6. next.line = IF raw.kind \in {"context", "added", "added++"}
                      THEN state.line + 1 ELSE state.line
      BY <1>1, <1>2, <2>2 DEF Ordinary
    <3>7. next.line = diff[h].arg + Cardinality(Shown(diff, h, m + 1))
      <4> DEFINE a == diff[h].arg
                 c == Cardinality(Shown(diff, h, m))
                 e == Cardinality(Shown(diff, h, m + 1))
      <4>1. a \in Nat /\ c \in Nat /\ state.line = a + c
            /\ ((e = c + 1 /\ next.line = state.line + 1) \/ (e = c /\ next.line = state.line))
        BY <3>3, <3>4, <3>5, <3>6
      <4> HIDE DEF a, c, e
      <4>2. next.line = a + e
        BY <4>1
      <4>3. QED
        BY <4>2 DEF a, e
    <3>8. QED
      BY <3>1, <3>7
  <2>3. QED
    BY <2>1, <2>2
<1>6. next.result = {Place(diff, i) : i \in {k \in 1 .. m + 1 : diff[k].kind = "added"}}
  <2> DEFINE added(k) == {j \in 1 .. k : diff[j].kind = "added"}
  <2>1. CASE raw.kind = "added"
    <3>1. Headed(diff, "file", m) /\ Headed(diff, "hunk", m)
      BY <1>3, <2>1 DEF raw
    <3>2. last(diff, "file", m + 1) = last(diff, "file", m)
          /\ last(diff, "hunk", m + 1) = last(diff, "hunk", m)
      BY <1>1, <2>1, LastMoves DEF raw
    <3>3. state.file = diff[last(diff, "file", m)].arg /\ state.file # NoFile
      <4>1. last(diff, "file", m) \in 1 .. m /\ diff[last(diff, "file", m)].kind = "file"
        BY <1>1, <3>1, LastIsHeader
      <4>2. diff[last(diff, "file", m)] \in RawLine
        BY <1>1, <4>1
      <4>3. diff[last(diff, "file", m)].arg # NoFile
        BY <4>1, <4>2 DEF RawLine
      <4>4. QED
        BY <3>1, <4>3 DEF Reads
    <3>4. <<state.file, state.line>> = Place(diff, m + 1)
      <4>1. (m + 1) - 1 = m
        BY <1>1
      <4>2. state.line = diff[last(diff, "hunk", m)].arg
                         + Cardinality(Shown(diff, last(diff, "hunk", m), m))
        BY <3>1 DEF Reads
      <4>3. QED
        BY <3>2, <3>3, <4>1, <4>2 DEF Place
    <3>5. added(m + 1) = added(m) \cup {m + 1}
      BY <1>1, <2>1 DEF raw
    <3>6. next.result = state.result \cup {Place(diff, m + 1)}
      BY <1>2, <2>1, <3>3, <3>4
    <3>7. state.result = {Place(diff, i) : i \in added(m)}
      BY DEF Reads
    <3> HIDE DEF added
    <3>8. next.result = {Place(diff, i) : i \in added(m + 1)}
      BY <3>5, <3>6, <3>7
    <3>9. QED
      BY <3>8 DEF added
  <2>2. CASE raw.kind # "added"
    <3>1. added(m + 1) = added(m)
      BY <1>1, <2>2 DEF raw
    <3>2. next.result = state.result
      BY <1>2, <2>2
    <3>3. state.result = {Place(diff, i) : i \in added(m)}
      BY DEF Reads
    <3> HIDE DEF added
    <3>4. next.result = {Place(diff, i) : i \in added(m + 1)}
      BY <3>1, <3>2, <3>3
    <3>5. QED
      BY <3>4 DEF added
  <2>3. QED
    BY <2>1, <2>2
<1>7. QED
  BY <1>2, <1>4, <1>5, <1>6 DEF Reads, next, raw

(* Every line an ordinary diff adds is told, by its place in the new file, *)
(* and no other.                                                           *)
LEMMA OrdinaryDiffIsRead ==
  ASSUME NEW diff, by_git(diff), ordinary(diff)
  PROVE  _changed_lines(diff) = added_lines(diff)
<1> DEFINE n == Len(diff)
<1>1. n \in Nat /\ diff \in [1 .. n -> RawLine] /\ DOMAIN diff = 1 .. n
  BY DEF by_git
<1> HIDE DEF n
<1>2. PICK g : _changed_lines(diff) = g[1 .. n].result /\ LinesLoop(g, diff)
  BY <1>1, LinesUnfold
<1> DEFINE T == {m \in Nat : m <= n => Reads(g[1 .. m], diff, m)}
<1>3. 0 \in T
  <2>1. 1 .. 0 = {}
    OBVIOUS
  <2>2. g[1 .. 0] = Start
    BY <1>2, <2>1 DEF LinesLoop
  <2>3. ~Headed(diff, "file", 0) /\ ~Headed(diff, "hunk", 0)
    BY <2>1 DEF Headed
  <2>4. Start.file = NoFile /\ Start.result = {}
    BY DEF Start
  <2>5. Reads(Start, diff, 0)
    BY <2>1, <2>3, <2>4, StartTyped DEF Reads
  <2>6. QED
    BY <2>2, <2>5
<1>4. ASSUME NEW m \in Nat, m \in T PROVE m + 1 \in T
  <2>1. ASSUME m + 1 <= n PROVE Reads(g[1 .. m + 1], diff, m + 1)
    <3>1. m \in 0 .. n - 1 /\ m + 1 \in 1 .. n /\ Reads(g[1 .. m], diff, m)
      BY <1>1, <1>4, <2>1
    <3>2. Max(1 .. m + 1) = m + 1 /\ (1 .. m + 1) \ {m + 1} = 1 .. m
      <4>1. 1 .. m \in SUBSET (1 .. n) /\ (\A j \in 1 .. m : j < m + 1) /\ 1 .. m + 1 = (1 .. m) \cup {m + 1}
        BY <1>1, <3>1
      <4>2. Max((1 .. m) \cup {m + 1}) = m + 1 /\ ((1 .. m) \cup {m + 1}) \ {m + 1} = 1 .. m
        BY <1>1, <3>1, <4>1, MaxOfNext
      <4>3. QED
        BY <4>1, <4>2
    <3>3. g[1 .. m + 1] = after(g[1 .. m], diff[m + 1])
      <4>1. m + 1 \in 1 .. m + 1 /\ \A j \in 1 .. m + 1 : j \in 1 .. n
        BY <1>1, <3>1
      <4>2. 1 .. m + 1 \in SUBSET (DOMAIN diff) /\ 1 .. m + 1 # {}
        BY <1>1, <4>1
      <4>3. QED
        BY <1>2, <3>2, <4>2 DEF LinesLoop
    <3>4. diff[m + 1].kind = "added" => Headed(diff, "file", m + 1) /\ Headed(diff, "hunk", m + 1)
      BY <1>1, <3>1 DEF by_git, Headed
    <3>5. QED
      BY <1>1, <3>1, <3>3, <3>4, ReadsOn
  <2>2. QED
    BY <2>1
<1>5. n \in T
  <2> HIDE DEF T
  <2> QED BY <1>1, <1>3, <1>4, SetInduction
<1>6. g[1 .. n].result = {Place(diff, i) : i \in {k \in 1 .. n : diff[k].kind = "added"}}
  BY <1>1, <1>5 DEF Reads
<1>7. {k \in 1 .. n : diff[k].kind = "added"} = {k \in DOMAIN diff : diff[k].kind \in {"added", "added++"}}
  BY <1>1 DEF ordinary, Ordinary
<1>8. added_lines(diff) = {Place(diff, i) : i \in {k \in DOMAIN diff : diff[k].kind \in {"added", "added++"}}}
  BY Zenon DEF added_lines, Place, Shown
<1>9. QED
  BY <1>2, <1>6, <1>7, <1>8

(* Whatever ordinary diff a context is prepared from, of any length and    *)
(* with any files and hunks, the lines findings may be anchored to are     *)
(* those it adds.                                                          *)
THEOREM ChangedLinesCorrect == Spec => []ChangedLinesAreAdded
<1>1. ChangedLinesAreAdded
  BY WorkflowAssumption, OrdinaryDiffIsRead DEF ChangedLinesAreAdded, ordinaryDiffsAreRead
<1>2. QED
  BY <1>1, PTL

-----------------------------------------------------------------------------
(* The kinds of the variables.  A context holds sums over the files of a   *)
(* change, which the library takes in an order of its choice.              *)

(* The element of a set that a sum takes next.                             *)
one(s) == CHOOSE x \in s : TRUE

(* What a sum over S iterates.                                             *)
Sums(g, S, f) ==
  \A s \in SUBSET S : g[s] = IF s = {} THEN 0 ELSE f[one(s)] + g[s \ {one(s)}]

SumLoop(g, S, f) ==
  g = [s \in SUBSET S |-> IF s = {} THEN 0 ELSE f[one(s)] + g[s \ {one(s)}]]

(* The subsets of a finite set by their size.                              *)
Upto(S, m) == {s \in SUBSET S : Cardinality(s) <= m}

(* A set without the element a sum takes is smaller.                       *)
LEMMA WithoutOne ==
  ASSUME NEW S, IsFiniteSet(S), NEW m \in Nat, NEW s \in Upto(S, m + 1), s # {}
  PROVE  one(s) \in S /\ s \ {one(s)} \in Upto(S, m)
<1>1. one(s) \in s
  BY DEF one
<1>2. s \in SUBSET S /\ Cardinality(s) <= m + 1 /\ IsFiniteSet(s) /\ Cardinality(s) \in Nat
  BY FS_Subset, FS_CardinalityType DEF Upto
<1>3. Cardinality(s \ {one(s)}) = Cardinality(s) - 1
  BY <1>1, <1>2, FS_RemoveElement
<1>4. QED
  BY <1>1, <1>2, <1>3 DEF Upto

(* The empty set is the only one without an element, and of a finite set   *)
(* all subsets are up to its size.                                         *)
LEMMA UptoSizes ==
  ASSUME NEW S, IsFiniteSet(S)
  PROVE  Upto(S, 0) = {{}} /\ Upto(S, Cardinality(S)) = SUBSET S /\ Cardinality(S) \in Nat
<1>1. \A s \in SUBSET S : /\ IsFiniteSet(s) /\ Cardinality(s) <= Cardinality(S)
                          /\ Cardinality(s) \in Nat /\ (Cardinality(s) = 0 <=> s = {})
  BY FS_Subset, FS_CardinalityType, FS_EmptySet
<1>2. QED
  BY <1>1, FS_CardinalityType DEF Upto

(* The function a sum iterates exists.                                     *)
LEMMA SumExists ==
  ASSUME NEW S, IsFiniteSet(S), NEW f
  PROVE  \E g : SumLoop(g, S, f)
<1> DEFINE rec(g, P) == g = [s \in P |-> IF s = {} THEN 0 ELSE f[one(s)] + g[s \ {one(s)}]]
           has(m) == \E g : rec(g, Upto(S, m))
           T == {m \in Nat : has(m)}
<1> HIDE DEF has
<1>1. 0 \in T
  <2> DEFINE g == [s \in {{}} |-> 0]
  <2>1. rec(g, Upto(S, 0))
    BY UptoSizes
  <2> HIDE DEF g, rec
  <2>2. QED
    BY <2>1 DEF has
<1>2. ASSUME NEW m \in Nat, m \in T PROVE m + 1 \in T
  <2>1. has(m)
    BY <1>2
  <2>2. PICK g : rec(g, Upto(S, m))
    BY <2>1, Zenon DEF has
  <2> DEFINE P == Upto(S, m + 1)
             k == [s \in P |-> IF s = {} THEN 0 ELSE f[one(s)] + g[s \ {one(s)}]]
  <2>3. Upto(S, m) \subseteq P
    <3>1. \A s \in SUBSET S : Cardinality(s) \in Nat
      BY FS_Subset, FS_CardinalityType
    <3>2. QED
      BY <3>1 DEF Upto
  <2>4. \A s \in Upto(S, m) : k[s] = g[s]
    BY <2>2, <2>3
  <2>5. \A s \in P : s # {} => s \ {one(s)} \in Upto(S, m)
    BY WithoutOne
  <2>6. \A s \in P : s # {} => k[s \ {one(s)}] = g[s \ {one(s)}]
    <3> HIDE DEF k, P, rec
    <3> QED BY <2>4, <2>5
  <2>7. k = [s \in P |-> IF s = {} THEN 0 ELSE f[one(s)] + k[s \ {one(s)}]]
    <3> DEFINE body(h) == [s \in P |-> IF s = {} THEN 0 ELSE f[one(s)] + h[s \ {one(s)}]]
    <3>1. \A s \in P : body(g)[s] = body(k)[s]
      <4> HIDE DEF k, P, rec
      <4> QED BY <2>6
    <3>2. body(g) = body(k)
      <4> HIDE DEF k, rec, P
      <4> QED BY <3>1
    <3>3. QED
      BY <3>2
  <2>8. rec(k, Upto(S, m + 1))
    BY <2>7
  <2> HIDE DEF k, rec, P
  <2>9. QED
    BY <2>8 DEF has
<1>3. Cardinality(S) \in T
  <2> HIDE DEF T
  <2> QED BY <1>1, <1>2, SetInduction, UptoSizes
<1>4. has(Cardinality(S))
  BY <1>3
<1>5. QED
  BY <1>4, UptoSizes, Zenon DEF has, SumLoop

(* A sum of numbers is a number.                                           *)
LEMMA SumTyped ==
  ASSUME NEW S, IsFiniteSet(S), NEW f, \A x \in S : f[x] \in Nat, NEW g, Sums(g, S, f)
  PROVE  g[S] \in Nat
<1> DEFINE T == {m \in Nat : \A s \in Upto(S, m) : g[s] \in Nat}
<1>1. 0 \in T
  BY UptoSizes DEF Sums
<1>2. ASSUME NEW m \in Nat, m \in T PROVE m + 1 \in T
  <2>1. ASSUME NEW s \in Upto(S, m + 1) PROVE g[s] \in Nat
    <3>1. CASE s = {}
      <4>1. s \in SUBSET S
        BY DEF Upto
      <4>2. g[s] = 0
        BY <3>1, <4>1, Zenon DEF Sums
      <4>3. QED
        BY <4>2
    <3>2. CASE s # {}
      <4>1. f[one(s)] \in Nat /\ g[s \ {one(s)}] \in Nat
        BY <1>2, <3>2, WithoutOne
      <4>2. g[s] = f[one(s)] + g[s \ {one(s)}]
        BY <3>2 DEF Sums, Upto
      <4>3. QED
        BY <4>1, <4>2
    <3>3. QED
      BY <3>1, <3>2
  <2>2. QED
    BY <2>1
<1>3. Cardinality(S) \in T
  <2> HIDE DEF T
  <2> QED BY <1>1, <1>2, SetInduction, UptoSizes
<1>4. QED
  BY <1>3, UptoSizes

(* So are the changed lines and the bytes of some files.                   *)
TotalLines(S) == MapThenSumSet(LAMBDA f : f.lines, S)
TotalBytes(S) == MapThenSumSet(LAMBDA f : f.bytes, S)

LEMMA FiguresTyped ==
  ASSUME NEW S, IsFiniteSet(S), \A x \in S : x.lines \in Nat /\ x.bytes \in Nat
  PROVE  TotalLines(S) \in Nat /\ TotalBytes(S) \in Nat
<1>1. ASSUME NEW f, NEW it, SumLoop(it, S, f), \A x \in S : f[x] \in Nat
      PROVE  it[S] \in Nat
  <2>1. Sums(it, S, f)
    BY <1>1, Zenon DEF Sums, SumLoop
  <2>2. QED
    BY <1>1, <2>1, SumTyped
<1>2. \A s \in SUBSET S : s # {} => one(s) \in S
  BY DEF one
<1>3. TotalLines(S) \in Nat
  <2> DEFINE f == [x \in S |-> x.lines]
             body(g, s) == IF s = {} THEN 0 ELSE one(s).lines + g[s \ {one(s)}]
             loop(g) == g = [s \in SUBSET S |-> body(g, s)]
             it == CHOOSE g : loop(g)
  <2>1. TotalLines(S) = it[S]
    BY Zenon DEF TotalLines, MapThenSumSet, MapThenFoldSet, one
  <2>2. ASSUME NEW g PROVE loop(g) <=> SumLoop(g, S, f)
    <3>1. \A s \in SUBSET S : body(g, s) = IF s = {} THEN 0 ELSE f[one(s)] + g[s \ {one(s)}]
      BY <1>2
    <3> HIDE DEF body, f
    <3>2. QED
      BY <3>1 DEF SumLoop
  <2>3. \A x \in S : f[x] \in Nat
    OBVIOUS
  <2> HIDE DEF f, loop
  <2>4. loop(it)
    BY <2>2, SumExists, Zenon
  <2>5. QED
    BY <1>1, <2>1, <2>2, <2>3, <2>4
<1>4. TotalBytes(S) \in Nat
  <2> DEFINE f == [x \in S |-> x.bytes]
             body(g, s) == IF s = {} THEN 0 ELSE one(s).bytes + g[s \ {one(s)}]
             loop(g) == g = [s \in SUBSET S |-> body(g, s)]
             it == CHOOSE g : loop(g)
  <2>1. TotalBytes(S) = it[S]
    BY Zenon DEF TotalBytes, MapThenSumSet, MapThenFoldSet, one
  <2>2. ASSUME NEW g PROVE loop(g) <=> SumLoop(g, S, f)
    <3>1. \A s \in SUBSET S : body(g, s) = IF s = {} THEN 0 ELSE f[one(s)] + g[s \ {one(s)}]
      BY <1>2
    <3> HIDE DEF body, f
    <3>2. QED
      BY <3>1 DEF SumLoop
  <2>3. \A x \in S : f[x] \in Nat
    OBVIOUS
  <2> HIDE DEF f, loop
  <2>4. loop(it)
    BY <2>2, SumExists, Zenon
  <2>5. QED
    BY <1>1, <2>1, <2>2, <2>3, <2>4
<1>5. QED
  BY <1>3, <1>4

(* What is prepared from any of the changes is a context.                  *)
LEMMA ContextTyped ==
  ASSUME NEW files, files = {} \/ files \in Changes
  PROVE  prepare(files) \in Context
<1> DEFINE production == production_of(files)
           total == TotalLines(production)
           size == TotalBytes(production)
<1>1. /\ IsFiniteSet(production) /\ \A f \in production : f.lines \in Nat /\ f.bytes \in Nat
      /\ UNION {f.triggers : f \in production} \subseteq Specialists
  <2>1. /\ IsFiniteSet(files) /\ production \in SUBSET files
        /\ \A f \in files : f.triggers \subseteq Specialists /\ f.lines \in Nat /\ f.bytes \in Nat
    BY WorkflowAssumption, FS_EmptySet DEF production_of
  <2> HIDE DEF production
  <2>2. QED
    BY <2>1, FS_Subset
<1>2. Cardinality(production) \in Nat /\ total \in Nat /\ size \in Nat
  <2> HIDE DEF production
  <2>1. QED
    BY <1>1, FS_CardinalityType, FiguresTyped
<1>3. Specialists \subseteq STRING
  BY RulesAssumption DEF Specialists, ToSet
<1>4. write_text(size).bytes \in Nat /\ write_text(size).truncated \in BOOLEAN
  <2> HIDE DEF size
  <2>1. Min({size, ContextMaxBytes}) \in {size, ContextMaxBytes}
    <3>1. \E x \in {size, ContextMaxBytes} : \A y \in {size, ContextMaxBytes} : x <= y
      BY <1>2, WorkflowAssumption
    <3>2. QED
      BY <3>1, Zenon DEF Min
  <2>2. QED
    BY <1>2, <2>1, WorkflowAssumption DEF write_text
<1>5. prepare(files) = [production |-> Cardinality(production), lines |-> total,
                        bytes |-> write_text(size).bytes, truncated |-> write_text(size).truncated,
                        triggers |-> UNION {f.triggers : f \in production}]
  BY DEF prepare, _specialists_for_paths, TotalLines, TotalBytes
<1> DEFINE triggers == UNION {f.triggers : f \in production}
<1>6. triggers \in SUBSET STRING
  BY <1>1, <1>3, Zenon
<1> HIDE DEF production, total, size, triggers
<1>7. QED
  BY <1>2, <1>4, <1>5, <1>6 DEF Context, triggers

(* The transactions on a task's row give rows.                             *)
LEMMA RowTyped ==
  ASSUME row \in Row
  PROVE  /\ \A d \in Daemons : claim_task(row, d) \in Row
         /\ recover_row(row, MaxAttempts) \in Row
         /\ [row EXCEPT !.lease = "expired"] \in Row
         /\ cancel_row(row) \in Row /\ stop_row(row) \in Row /\ requeue_row(row) \in Row
         /\ \A gate \in Gates : \A status \in Terminal :
              update_task_outcome(row, FALSE, status, gate) \in Row
<1>1. ASSUME NEW d \in Daemons PROVE claim_task(row, d) \in Row
  <2>1. row.attempts + 1 \in Nat /\ "running" \in Statuses
    BY DEF Row, Statuses, Active
  <2> DEFINE now == row.attempts + 1
  <2>2. claim_task(row, d) = [row EXCEPT !.status = "running", !.owner = d, !.lease = "live",
                                         !.attempts = now]
    BY DEF claim_task, Row
  <2> HIDE DEF now
  <2>3. QED
    BY <2>1, <2>2 DEF Row, now
<1>2. recover_row(row, MaxAttempts) \in Row
  BY DEF Row, Statuses, Active, Terminal, Gates, FailedGates, recover_row
<1>3. [row EXCEPT !.lease = "expired"] \in Row
  BY DEF Row
<1>4. cancel_row(row) \in Row /\ stop_row(row) \in Row /\ requeue_row(row) \in Row
  <2>1. /\ {"cancelled", "queued"} \subseteq Statuses
        /\ {"cancelled", "stopped", "null"} \subseteq Gates
    BY DEF Statuses, Active, Terminal, Gates
  <2>2. cancel_row(row) \in Row
    BY <2>1 DEF Row, cancel_row
  <2>3. stop_row(row) \in Row
    BY <2>1 DEF Row, stop_row
  <2>4. requeue_row(row) \in Row
    BY <2>1 DEF Row, requeue_row
  <2>5. QED
    BY <2>2, <2>3, <2>4
<1>5. ASSUME NEW gate \in Gates, NEW status \in Terminal
      PROVE  update_task_outcome(row, FALSE, status, gate) \in Row
  BY DEF Row, Statuses, CallbackStates, update_task_outcome
<1>6. QED
  BY <1>1, <1>2, <1>3, <1>4, <1>5

(* What a run is asked to do is an action or nothing.                      *)
LEMMA AskedTyped ==
  ASSUME controls \in Controls
  PROVE  asked \in ControlActions \cup {"none"}
BY DEF asked, Controls, ControlActions

(* A daemon without a run, one that halts, and the work of any run that is *)
(* written anew, are of their kind.                                        *)
LEMMA IdleTyped ==
  /\ Idle \in Work
  /\ \A verb \in ControlActions \cup {"none"} : [Idle EXCEPT !.pc = "halt", !.verb = verb] \in Work
<1>1. <<>> \in Reports
  <2>1. <<>> \in [1 .. 0 -> Candidates] /\ 0 \in 0 .. MaxReported
    BY WorkflowAssumption
  <2>2. QED
    BY <2>1, Zenon DEF Reports
<1>2. <<>> \in Seq(Threads)
  OBVIOUS
<1>3. "failed" \in Results /\ "null" \in Gates /\ "halt" \in Pcs /\ "idle" \in Pcs
  BY DEF Results, Gates, Pcs
<1>4. QED
  BY <1>1, <1>2, <1>3 DEF Idle, Work

WorkTyped == work \in [Daemons -> Work]

(* A run goes on.                                                          *)
LEMMA GoesTyped ==
  ASSUME WorkTyped, NEW d \in Daemons, NEW pc \in Pcs, goes(d, pc)
  PROVE  WorkTyped'
BY DEF WorkTyped, goes, Work

(* A run has a gate to save.                                               *)
LEMMA EndsTyped ==
  ASSUME WorkTyped, NEW d \in Daemons, NEW gate \in Gates, ends(d, gate)
  PROVE  WorkTyped'
<1>1. <<>> \in Reports
  BY IdleTyped DEF Idle, Work
<1>2. "failed" \in Results /\ "save" \in Pcs
  BY DEF Results, Pcs
<1> DEFINE w == [work[d] EXCEPT !.pc = "save", !.gate = gate, !.judge = "failed",
                               !.report = <<>>, !.todo = {}]
<1>3. work[d] \in Work /\ work' = [work EXCEPT ![d] = w]
  BY DEF WorkTyped, ends
<1>4. w \in Work
  BY <1>1, <1>2, <1>3 DEF Work
<1> HIDE DEF w
<1>5. QED
  BY <1>3, <1>4 DEF WorkTyped

(* A run halts.                                                            *)
LEMMA HaltsTyped ==
  ASSUME WorkTyped, NEW d \in Daemons, NEW verb \in ControlActions \cup {"none"}, halts_on(d, verb)
  PROVE  WorkTyped'
<1> DEFINE w == [Idle EXCEPT !.pc = "halt", !.verb = verb]
<1>1. w \in Work /\ work' = [work EXCEPT ![d] = w]
  BY IdleTyped DEF halts_on
<1> HIDE DEF w
<1>2. QED
  BY <1>1 DEF WorkTyped

(* A thread of the pool goes on.                                           *)
LEMMA BecomesTyped ==
  ASSUME WorkTyped, NEW d \in Daemons, NEW i \in DOMAIN work[d].thread, NEW state \in Threads,
         becomes(d, i, state)
  PROVE  WorkTyped'
<1> DEFINE now == [work[d].thread EXCEPT ![i] = state]
<1>1. work[d] \in Work /\ work[d].thread \in Seq(Threads)
  BY DEF WorkTyped, Work
<1>2. now \in Seq(Threads)
  BY <1>1
<1>3. work' = [work EXCEPT ![d] = [work[d] EXCEPT !.thread = now]]
  BY DEF WorkTyped, becomes
<1> HIDE DEF now
<1>4. [work[d] EXCEPT !.thread = now] \in Work
  BY <1>1, <1>2 DEF Work
<1>5. QED
  BY <1>3, <1>4 DEF WorkTyped

(* A thread's result is collected.                                         *)
LEMMA CollectedTyped ==
  ASSUME WorkTyped, NEW d \in Daemons, NEW i \in DOMAIN work[d].thread, Collect(d, i)
  PROVE  WorkTyped'
<1> DEFINE now == [work[d].thread EXCEPT ![i] = "collected"]
           failed == work[d].failed \/ work[d].thread[i] = "failure"
           verb == IF work[d].thread[i] \in ControlActions THEN work[d].thread[i]
                   ELSE work[d].verb
<1>1. /\ work[d] \in Work /\ work[d].thread \in Seq(Threads) /\ work[d].failed \in BOOLEAN
      /\ work[d].verb \in ControlActions \cup {"none"}
  BY DEF WorkTyped, Work
<1>2. now \in Seq(Threads)
  BY <1>1 DEF Threads
<1>3. failed \in BOOLEAN /\ verb \in ControlActions \cup {"none"}
  BY <1>1
<1>4. work' = [work EXCEPT ![d] = [work[d] EXCEPT !.thread = now, !.failed = failed, !.verb = verb]]
  BY <1>1 DEF WorkTyped, Collect, thread, Work
<1> HIDE DEF now, failed, verb
<1>5. [work[d] EXCEPT !.thread = now, !.failed = failed, !.verb = verb] \in Work
  BY <1>1, <1>2, <1>3 DEF Work
<1>6. QED
  BY <1>4, <1>5 DEF WorkTyped

(* The fan-out starts.                                                     *)
LEMMA FanOutTyped ==
  ASSUME WorkTyped, NEW d \in Daemons,
         work' = [work EXCEPT ![d].pc = "fanout", ![d].thread = [i \in DOMAIN plan |-> "waiting"]]
  PROVE  WorkTyped'
<1> DEFINE threads == [i \in DOMAIN plan |-> "waiting"]
           all == <<"correctness">> \o FULL_CI_REVIEWERS
<1>1. plan \in {<<>>, <<"correctness_light">>, <<"correctness">>, all}
  BY DEF plan, plan_reviewers
<1>2. FULL_CI_REVIEWERS \in Seq(STRING) /\ Len(FULL_CI_REVIEWERS) \in Nat
  BY RulesAssumption
<1>3. PICK n \in Nat : DOMAIN plan = 1 .. n
  <2>1. DOMAIN all = 1 .. 1 + Len(FULL_CI_REVIEWERS)
    BY <1>2
  <2> HIDE DEF all
  <2>2. QED
    BY <1>1, <1>2, <2>1
<1>4. threads \in Seq(Threads)
  <2>1. threads = [i \in 1 .. n |-> "waiting"] /\ "waiting" \in Threads
    BY <1>3 DEF Threads
  <2> HIDE DEF threads
  <2>2. QED
    BY <2>1
<1>5. work[d] \in Work /\ "fanout" \in Pcs
  BY DEF WorkTyped, Pcs
<1>6. work' = [work EXCEPT ![d] = [work[d] EXCEPT !.pc = "fanout", !.thread = threads]]
  BY DEF WorkTyped
<1> HIDE DEF threads
<1>7. [work[d] EXCEPT !.pc = "fanout", !.thread = threads] \in Work
  BY <1>4, <1>5 DEF Work
<1>8. QED
  BY <1>6, <1>7 DEF WorkTyped

(* The judge has answered, with findings of its report to store.           *)
LEMMA AnswersTyped ==
  ASSUME WorkTyped, NEW d \in Daemons, JudgeAnswers(d)
  PROVE  WorkTyped'
<1>1. PICK report \in Reports :
        work' = [work EXCEPT ![d].pc = "persist", ![d].judge = "failed",
                             ![d].report = report, ![d].todo = normalize(report)]
  BY DEF JudgeAnswers
<1>2. normalize(report) \in SUBSET Candidates
  <2>1. ToSet(report) \subseteq Candidates
    BY DEF Reports, ToSet
  <2>2. normalize(report) \subseteq {c \in ToSet(report) : admissible(c)}
    BY KeptOfReport, Zenon
  <2>3. QED
    BY <2>1, <2>2
<1> DEFINE todo == normalize(report)
           w == [work[d] EXCEPT !.pc = "persist", !.judge = "failed", !.report = report, !.todo = todo]
<1>3. work[d] \in Work /\ "persist" \in Pcs /\ "failed" \in Results
  BY DEF WorkTyped, Pcs, Results
<1> HIDE DEF todo
<1>4. w \in Work
  BY <1>2, <1>3 DEF Work, todo
<1>5. work' = [work EXCEPT ![d] = w]
  BY <1>1 DEF WorkTyped, todo
<1> HIDE DEF w
<1>6. QED
  BY <1>4, <1>5 DEF WorkTyped

(* A finding is stored, or the run ends instead.                           *)
LEMMA StoresTyped ==
  ASSUME WorkTyped, controls \in Controls, NEW d \in Daemons, create_finding(d),
         findings \subseteq {c.id : c \in Candidates}
  PROVE  WorkTyped' /\ findings' \subseteq {c.id : c \in Candidates}
<1>1. CASE halts(d) /\ findings' = findings
  BY <1>1, AskedTyped, HaltsTyped DEF halts
<1>2. CASE ends(d, "incomplete") /\ findings' = findings
  BY <1>2, EndsTyped DEF Gates, FailedGates
<1>3. ASSUME NEW c \in work[d].todo, findings' = findings \cup {c.id},
             work' = [work EXCEPT ![d].todo = @ \ {c}]
      PROVE  WorkTyped' /\ findings' \subseteq {k.id : k \in Candidates}
  <2>1. work[d] \in Work /\ work[d].todo \in SUBSET Candidates
    BY DEF WorkTyped, Work
  <2> DEFINE rest == work[d].todo \ {c}
  <2>2. rest \in SUBSET Candidates /\ c \in Candidates
    BY <2>1
  <2>3. work' = [work EXCEPT ![d] = [work[d] EXCEPT !.todo = rest]]
    BY <1>3 DEF WorkTyped
  <2> HIDE DEF rest
  <2>4. [work[d] EXCEPT !.todo = rest] \in Work
    BY <2>1, <2>2 DEF Work
  <2>5. QED
    BY <1>3, <2>2, <2>3, <2>4 DEF WorkTyped
<1>4. QED
  BY <1>1, <1>2, <1>3 DEF create_finding

(* Every step of a daemon keeps the kinds of its work.                     *)
LEMMA StepWorkTyped ==
  ASSUME TypeOK, NEW d \in Daemons, Claim(d) \/ Workflow(d) \/ Crash(d)
  PROVE  WorkTyped'
<1>1. WorkTyped /\ asked \in ControlActions \cup {"none"}
  BY AskedTyped DEF TypeOK, WorkTyped
<1>2. /\ {"context", "prepare", "plan", "judge", "judging", "persist"} \subseteq Pcs
      /\ {"incomplete", "skipped", "context_too_large", "passed", "failed"} \subseteq Gates
      /\ Results \cup Returns \cup {"checked", "turn"} \subseteq Threads
      /\ ControlActions \cup {"output", "failure"} = Returns
  BY DEF Pcs, Gates, ReviewGates, FailedGates, Threads, Returns
<1>3. CASE Crash(d) \/ SaveOutcome(d) \/ Halt(d)
  <2>1. work' = [work EXCEPT ![d] = Idle]
    BY <1>3 DEF Crash, SaveOutcome, Halt
  <2>2. QED
    BY <1>1, <2>1, IdleTyped DEF WorkTyped
<1>4. CASE Claim(d) \/ StartJudge(d)
  BY <1>1, <1>2, <1>4, GoesTyped DEF Claim, StartJudge
<1>5. CASE Prepare(d) \/ PrepareContext(d)
  BY <1>1, <1>2, <1>5, GoesTyped, EndsTyped, HaltsTyped DEF Prepare, PrepareContext, Checked, halts
<1>6. CASE Plan(d)
  <2>1. \/ halts(d) \/ ends(d, "skipped") \/ ends(d, "context_too_large")
        \/ work' = [work EXCEPT ![d].pc = "fanout",
                      ![d].thread = [i \in DOMAIN plan |-> "waiting"]]
    BY <1>6 DEF Plan, Checked, prepare_review_guard
  <2>2. QED
    BY <1>1, <1>2, <2>1, HaltsTyped, EndsTyped, FanOutTyped DEF halts
<1>7. ASSUME NEW i \in DOMAIN work[d].thread, Reviewer(d, i)
      PROVE  WorkTyped'
  <2>1. ASSUME NEW state \in Threads, becomes(d, i, state)
        PROVE  WorkTyped'
    BY <1>1, <2>1, BecomesTyped
  <2>2. CASE BeginReviewer(d, i) \/ StartReviewer(d, i)
    BY <1>1, <1>2, <2>1, <2>2 DEF BeginReviewer, StartReviewer
  <2>3. CASE TurnEnds(d, i)
    BY <1>1, <1>2, <2>1, <2>3 DEF TurnEnds
  <2>4. CASE FinishReviewer(d, i)
    <3>1. returned(work[d].thread[i]) \in Threads
      BY <1>1, <1>2 DEF returned
    <3>2. QED
      BY <2>1, <2>4, <3>1 DEF FinishReviewer, thread
  <2>5. CASE Collect(d, i)
    BY <1>1, <2>5, CollectedTyped
  <2>6. QED
    BY <1>7, <2>2, <2>3, <2>4, <2>5 DEF Reviewer
<1>8. CASE Join(d)
  <2>1. work[d].verb \in ControlActions \cup {"none"}
    BY <1>1 DEF WorkTyped, Work
  <2>2. QED
    BY <1>1, <1>2, <1>8, <2>1, GoesTyped, EndsTyped, HaltsTyped DEF Join, Checked, halts
<1>9. CASE JudgeTurnEnds(d)
  <2>1. ASSUME NEW r \in Results, work' = [work EXCEPT ![d].pc = "judged", ![d].judge = r]
        PROVE  WorkTyped'
    <3> DEFINE w == [work[d] EXCEPT !.pc = "judged", !.judge = r]
    <3>1. work[d] \in Work /\ work' = [work EXCEPT ![d] = w] /\ "judged" \in Pcs
      BY <1>1, <2>1 DEF WorkTyped, Pcs
    <3>2. w \in Work
      BY <3>1 DEF Work
    <3> HIDE DEF w
    <3>3. QED
      BY <1>1, <3>1, <3>2 DEF WorkTyped
  <2>2. QED
    BY <1>1, <1>2, <1>9, <2>1, EndsTyped, HaltsTyped DEF JudgeTurnEnds, Checked, halts
<1>10. CASE JudgeFails(d)
  BY <1>1, <1>2, <1>10, EndsTyped DEF JudgeFails
<1>11. CASE JudgeAnswers(d)
  BY <1>1, <1>11, AnswersTyped
<1>12. CASE create_finding(d)
  BY <1>1, <1>12, StoresTyped DEF TypeOK
<1>13. CASE Conclude(d)
  BY <1>1, <1>2, <1>13, EndsTyped, HaltsTyped DEF Conclude, Checked, halts, gate_status
<1>14. QED
  BY <1>3, <1>4, <1>5, <1>6, <1>7, <1>8, <1>9, <1>10, <1>11, <1>12, <1>13 DEF Workflow

(* Every step keeps the kinds of the plans and the runs,                   *)
LEMMA StepTablesTyped ==
  ASSUME TypeOK, [Next]_vars
  PROVE  plans' \subseteq Reviewers /\ runs' \in [Reviewers -> RunStatuses]
<1>1. /\ plans \subseteq Reviewers /\ runs \in [Reviewers -> RunStatuses]
      /\ {"running", "success", "failed", "cancelled", "queued"} \subseteq RunStatuses
  BY DEF TypeOK, RunStatuses
<1>2. settled \in [Reviewers -> RunStatuses]
  BY <1>1 DEF settled
<1>3. \A r, status \in RunStatuses : [runs EXCEPT ![r] = status] \in [Reviewers -> RunStatuses]
  BY <1>1
<1>4. ASSUME NEW d \in Daemons, Plan(d)
      PROVE  plans' \subseteq Reviewers /\ runs' = runs
  <2>1. ToSet(plan) \subseteq Reviewers
    BY PlanNamesReviewers DEF ToSet
  <2>2. QED
    BY <1>1, <1>4, <2>1 DEF Plan
<1>5. ASSUME NEW d \in Daemons, NEW i, StartReviewer(d, i) \/ FinishReviewer(d, i)
      PROVE  plans' = plans /\ runs' \in [Reviewers -> RunStatuses]
  BY <1>1, <1>5 DEF StartReviewer, FinishReviewer, start_reviewer_run, finish_reviewer_run
<1>6. ASSUME NEW d \in Daemons, StartJudge(d) \/ JudgeFails(d) \/ JudgeAnswers(d)
      PROVE  plans' = plans /\ runs' \in [Reviewers -> RunStatuses]
  BY <1>1, <1>6 DEF StartJudge, JudgeFails, JudgeAnswers, start_reviewer_run, finish_reviewer_run
<1>7. ASSUME NEW d \in Daemons, Halt(d)
      PROVE  plans' = plans /\ runs' = settled
  BY <1>7 DEF Halt, cancel_task, mark_task_stopped
<1>8. ASSUME NEW d \in Daemons,
             \/ Claim(d) \/ RecoverStale(d) \/ Crash(d) \/ Prepare(d) \/ PrepareContext(d) \/ Join(d)
             \/ JudgeTurnEnds(d) \/ create_finding(d) \/ Conclude(d) \/ SaveOutcome(d)
             \/ \E i \in DOMAIN work[d].thread :
                  BeginReviewer(d, i) \/ TurnEnds(d, i) \/ Collect(d, i)
      PROVE  plans' = plans /\ runs' = runs
  BY <1>8 DEF Claim, RecoverStale, Crash, Prepare, PrepareContext, Join, JudgeTurnEnds,
     create_finding, Conclude, SaveOutcome, BeginReviewer, TurnEnds, Collect, database
<1>9. CASE RequestStop \/ Cancel
  BY <1>1, <1>2, <1>9 DEF RequestStop, Cancel, Asks, cancel_task
<1>10. CASE Requeue
  BY <1>1, <1>10 DEF Requeue, Asks
<1>11. CASE LeaseExpires \/ UNCHANGED vars
  BY <1>1, <1>11 DEF LeaseExpires, vars, database
<1>12. QED
  BY <1>1, <1>2, <1>4, <1>5, <1>6, <1>7, <1>8, <1>9, <1>10, <1>11 DEF Next, Workflow, Reviewer

(* of the task's row and its controls,                                     *)
LEMMA StepTaskTyped ==
  ASSUME TypeOK, [Next]_vars
  PROVE  row' \in Row /\ controls' \in Controls
<1>1. row \in Row /\ controls \in Controls /\ {"stop", "cancel"} = ControlActions
  BY DEF TypeOK, ControlActions
<1>2. ASSUME NEW d \in Daemons, Claim(d) \/ RecoverStale(d) \/ Halt(d)
      PROVE  row' \in Row /\ controls' \in Controls
  BY <1>1, <1>2, RowTyped, ControlTyped DEF Claim, RecoverStale, Halt, cancel_task,
     mark_task_stopped
<1>3. ASSUME NEW d \in Daemons, SaveOutcome(d)
      PROVE  row' \in Row /\ controls' = controls
  <2>1. work[d].gate \in Gates
    BY DEF TypeOK, Work
  <2>2. {"success", "failed"} \subseteq Terminal
    BY DEF Terminal
  <2>3. QED
    BY <1>1, <1>3, <2>1, <2>2, RowTyped DEF SaveOutcome
<1>4. ASSUME NEW d \in Daemons, Workflow(d) \/ Crash(d), ~Halt(d), ~SaveOutcome(d)
      PROVE  row' = row /\ controls' = controls
  BY <1>4 DEF Workflow, Crash, Prepare, PrepareContext, Plan, Reviewer, BeginReviewer,
     StartReviewer, TurnEnds, FinishReviewer, Collect, Join, StartJudge, JudgeTurnEnds,
     JudgeFails, JudgeAnswers, create_finding, Conclude, database
<1>5. CASE RequestStop \/ Cancel \/ Requeue
  BY <1>1, <1>5, RowTyped, ControlTyped DEF RequestStop, Cancel, Requeue, Asks, cancel_task
<1>6. CASE LeaseExpires \/ UNCHANGED vars
  BY <1>1, <1>6, RowTyped DEF LeaseExpires, vars, database
<1>7. QED
  BY <1>1, <1>2, <1>3, <1>4, <1>5, <1>6 DEF Next

(* of the change, its context and the bounds,                              *)
LEMMA StepContextTyped ==
  ASSUME TypeOK, [Next]_vars
  PROVE  /\ change' \in Changes /\ context' \in Context
         /\ requests' \in 0 .. MaxRequests /\ crashes' \in 0 .. MaxCrashes
<1>1. /\ change \in Changes /\ context \in Context
      /\ requests \in 0 .. MaxRequests /\ crashes \in 0 .. MaxCrashes
      /\ MaxRequests \in Nat /\ MaxCrashes \in Nat
  BY WorkflowAssumption DEF TypeOK
<1>2. ASSUME NEW d \in Daemons, Crash(d)
      PROVE  change' = change /\ context' = context /\ requests' = requests
             /\ crashes' \in 0 .. MaxCrashes
  BY <1>1, <1>2 DEF Crash
<1>3. ASSUME NEW d \in Daemons, Claim(d) \/ RecoverStale(d) \/ Workflow(d), ~PrepareContext(d)
      PROVE  UNCHANGED <<change, context, requests, crashes>>
  BY <1>3 DEF Claim, RecoverStale, Workflow, Prepare, Plan, Reviewer, BeginReviewer,
     StartReviewer, TurnEnds, FinishReviewer, Collect, Join, StartJudge, JudgeTurnEnds,
     JudgeFails, JudgeAnswers, create_finding, Conclude, SaveOutcome, Halt, environment
<1>4. ASSUME NEW d \in Daemons, PrepareContext(d)
      PROVE  UNCHANGED <<change, requests, crashes>> /\ context' \in Context
  BY <1>1, <1>4, ContextTyped DEF PrepareContext, environment
<1>5. CASE RequestStop \/ Cancel \/ Requeue
  <2>1. /\ change' = change /\ context' = context /\ crashes' = crashes
        /\ requests < MaxRequests /\ requests' = requests + 1
    BY <1>5 DEF RequestStop, Cancel, Requeue, Asks
  <2>2. QED
    BY <1>1, <2>1
<1>6. CASE LeaseExpires \/ UNCHANGED vars
  BY <1>1, <1>6 DEF LeaseExpires, vars, environment
<1>7. QED
  BY <1>1, <1>2, <1>3, <1>4, <1>5, <1>6 DEF Next

(* and of the findings and the daemons' work.                              *)
LEMMA StepFindingsTyped ==
  ASSUME TypeOK, [Next]_vars
  PROVE  WorkTyped' /\ findings' \subseteq {c.id : c \in Candidates}
<1>1. WorkTyped /\ controls \in Controls /\ findings \subseteq {c.id : c \in Candidates}
  BY DEF TypeOK, WorkTyped
<1>2. ASSUME NEW d \in Daemons, Claim(d) \/ Workflow(d) \/ Crash(d)
      PROVE  WorkTyped' /\ findings' \subseteq {c.id : c \in Candidates}
  <2>1. CASE create_finding(d)
    BY <1>1, <2>1, StoresTyped
  <2>2. CASE ~create_finding(d)
    <3>1. findings' = findings
      BY <1>2, <2>2 DEF Claim, Workflow, Crash, Prepare, PrepareContext, Plan, Reviewer,
         BeginReviewer, StartReviewer, TurnEnds, FinishReviewer, Collect, Join, StartJudge,
         JudgeTurnEnds, JudgeFails, JudgeAnswers, Conclude, SaveOutcome, Halt, database
    <3>2. QED
      BY <1>1, <1>2, <3>1, StepWorkTyped
  <2>3. QED
    BY <2>1, <2>2
<1>3. CASE \/ LeaseExpires \/ RequestStop \/ Cancel \/ Requeue \/ UNCHANGED vars
           \/ \E d \in Daemons : RecoverStale(d)
  <2>1. work' = work /\ findings' = findings
    BY <1>3 DEF LeaseExpires, RequestStop, Cancel, Requeue, Asks, RecoverStale, vars, database
  <2>2. QED
    BY <1>1, <2>1 DEF WorkTyped
<1>4. QED
  BY <1>2, <1>3 DEF Next

(* Every row, context, thread and report in hand is of its kind, for every *)
(* set of changes and candidates; a plan names reviewers only, and what a  *)
(* run stores are findings of a candidate.                                 *)
THEOREM TypeCorrect == Spec => []TypeOK
<1>1. Init => TypeOK
  <2> SUFFICES ASSUME Init PROVE TypeOK
    OBVIOUS
  <2>1. change \in Changes /\ context \in Context
    BY ContextTyped DEF Init
  <2>2. row \in Row
    <3>1. row = [NoRow EXCEPT !.status = "queued"]
      BY DEF Init, create_task
    <3>2. QED
      BY <3>1 DEF NoRow, Row, Statuses, Active, Gates, CallbackStates
  <2>3. controls \in Controls
    BY ControlTyped DEF Init
  <2>4. work \in [Daemons -> Work]
    BY IdleTyped DEF Init
  <2>5. /\ plans \subseteq Reviewers /\ runs \in [Reviewers -> RunStatuses]
        /\ findings \subseteq {c.id : c \in Candidates}
    BY DEF Init, RunStatuses
  <2>6. requests \in 0 .. MaxRequests /\ crashes \in 0 .. MaxCrashes
    BY WorkflowAssumption DEF Init
  <2>7. QED
    BY <2>1, <2>2, <2>3, <2>4, <2>5, <2>6 DEF TypeOK
<1>2. TypeOK /\ [Next]_vars => TypeOK'
  BY StepTablesTyped, StepTaskTyped, StepContextTyped, StepFindingsTyped DEF TypeOK, WorkTyped
<1>3. QED
  BY <1>1, <1>2, PTL DEF Spec
=============================================================================
