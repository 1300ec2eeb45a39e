------------------------ MODULE FindingFeedback_proofs ------------------------
(* Theorems on FindingFeedback for every set of findings and comments.     *)
(* FeedbackInv is inductive; LastResolutionPasses is one of its parts.     *)
EXTENDS FindingFeedback, TLAPS

USE FeedbackAssumption, NoDaemonAssumption

(* A new row is well typed.                                                *)
LEMMA CreateTyped == NoRow \in Row /\ create_task \in Row
BY DEF NoRow, create_task, Row, Statuses, Active, Terminal, Gates, ReviewGates,
       FailedGates, CallbackStates

(* A claimed row is well typed.                                            *)
LEMMA ClaimTyped ==
  ASSUME NEW r \in Row, NEW d \in Daemons
  PROVE  claim_task(r, d) \in Row
<1>1. r.attempts + 1 \in Nat
  BY DEF Row
<1>2. "running" \in Statuses
  BY DEF Statuses, Active
<1>3. QED
  BY <1>1, <1>2, Zenon DEF claim_task, Row

(* A row with an outcome is well typed, whatever the outcome was.          *)
LEMMA OutcomeTyped ==
  ASSUME NEW r \in Row, NEW notify \in BOOLEAN, NEW status \in Terminal,
         NEW gate \in Gates
  PROVE  update_task_outcome(r, notify, status, gate) \in Row
BY DEF update_task_outcome, Row, Statuses, CallbackStates

(* Operators and control requests leave well-typed rows.                   *)
LEMMA OperatorTyped ==
  ASSUME NEW r \in Row
  PROVE  cancel_row(r) \in Row /\ stop_row(r) \in Row /\ requeue_row(r) \in Row
<1>1. {"cancelled", "queued"} \subseteq Statuses /\ {"cancelled", "stopped", "null"} \subseteq Gates
  BY DEF Statuses, Active, Terminal, Gates
<1>2. cancel_row(r) \in Row
  BY <1>1 DEF cancel_row, Row
<1>3. stop_row(r) \in Row
  BY <1>1 DEF stop_row, Row
<1>4. requeue_row(r) \in Row
  BY <1>1 DEF requeue_row, Row
<1>5. QED
  BY <1>2, <1>3, <1>4

(* The initial state satisfies the inductive invariant.                    *)
LEMMA FeedbackInit == Init => FeedbackInv
<1> SUFFICES ASSUME Init PROVE FeedbackInv
  OBVIOUS
<1>1. TypeOK
  BY CreateTyped DEF Init, TypeOK, NewThread, Thread, Pcs, NoReview, Review
<1>2. ResolversHaveFindings /\ TodoIsActive /\ FoundIsOpen
  BY DEF Init, ResolversHaveFindings, NewThread, TodoIsActive, FoundIsOpen, NoReview
<1>3. LastResolutionPasses
  BY DEF Init, LastResolutionPasses, create_task, NoRow
<1>4. QED
  BY <1>1, <1>2, <1>3 DEF FeedbackInv

(* The outcomes written here keep the row well typed.                      *)
LEMMA OutcomesTyped ==
  ASSUME row \in Row, NEW status \in Terminal, NEW gate \in Gates, outcome(status, gate)
  PROVE  row' \in Row /\ row'.gate = gate
<1>1. FALSE \in BOOLEAN
  OBVIOUS
<1>2. row' \in Row
  BY <1>1, OutcomeTyped, Zenon DEF outcome
<1>3. row'.gate = gate
  BY DEF outcome, update_task_outcome, Row
<1>4. QED
  BY <1>2, <1>3

(* Every step keeps every variable well typed.                             *)
LEMMA FeedbackTyped == TypeOK /\ [Next]_vars => TypeOK'
<1> SUFFICES ASSUME TypeOK, [Next]_vars PROVE TypeOK'
  OBVIOUS
<1>g. /\ {"success", "failed"} \subseteq Terminal
      /\ {"passed", "failed", "incomplete"} \subseteq Gates
  BY DEF Terminal, Gates, ReviewGates, FailedGates
<1>1. CASE UNCHANGED vars
  BY <1>1 DEF vars, TypeOK
<1>2. ASSUME NEW c \in Comments, Feedback(c) PROVE TypeOK'
  <2>1. CASE \E f \in Findings : StartFeedback(c, f)
    <3>1. PICK f \in Findings : StartFeedback(c, f)
      BY <2>1
    <3>2. [thread[c] EXCEPT !.pc = "turn", !.finding = {f}] \in Thread
      <4>1. "turn" \in Pcs /\ {f} \in SUBSET Findings
        BY DEF Pcs
      <4>2. thread[c] \in Thread
        BY DEF TypeOK
      <4>3. QED
        BY <4>1, <4>2, Zenon DEF Thread
    <3>3. thread' \in [Comments -> Thread]
      BY <3>1, <3>2 DEF StartFeedback, TypeOK
    <3>4. QED
      BY <3>1, <3>3 DEF StartFeedback, TypeOK, counters
  <2>2. CASE \/ \E f \in Findings : MarkHumanNonFix(c, f)
             \/ Resolve(c)
    <3>1. PICK F \in SUBSET Findings : resolve(F)
      BY <2>2 DEF MarkHumanNonFix, Resolve, TypeOK, Thread
    <3>2. /\ finding' \in [Findings -> {"none", "open", "resolved"}]
          /\ early' \subseteq Findings
      BY <3>1 DEF resolve, TypeOK
    <3>3. Goes(c, "count")
      BY <2>2 DEF MarkHumanNonFix, Resolve
    <3>4. thread' \in [Comments -> Thread]
      BY <3>3 DEF Goes, TypeOK, Thread, Pcs
    <3>5. QED
      BY <2>2, <3>2, <3>4 DEF MarkHumanNonFix, Resolve, TypeOK, counters
  <2>3. CASE ReadPrompt(c) \/ TurnFails(c) \/ TurnAgrees(c) \/ CountOpen(c)
    <3>1. thread' \in [Comments -> Thread]
      BY <2>3 DEF ReadPrompt, TurnFails, TurnAgrees, CountOpen, Goes, TypeOK, Thread, Pcs
    <3>2. UNCHANGED <<finding, early, row>>
      BY <2>3 DEF ReadPrompt, TurnFails, TurnAgrees, CountOpen
    <3>3. QED
      BY <2>3, <3>1, <3>2 DEF ReadPrompt, TurnFails, TurnAgrees, CountOpen, TypeOK, counters
  <2>4. CASE Pass(c)
    <3>1. row' \in Row
      BY <1>g, <2>4, OutcomesTyped DEF Pass, TypeOK
    <3>2. QED
      BY <2>4, <3>1 DEF Pass, Goes, TypeOK, counters, Thread, Pcs
  <2>5. QED
    BY <1>2, <2>1, <2>2, <2>3, <2>4 DEF Feedback
<1>3. CASE ReviewStep
  <2>1. ASSUME NEW d \in Daemons, Claim(d) PROVE TypeOK'
    BY <2>1, ClaimTyped DEF Claim, TypeOK, counters, Review
  <2>2. CASE \E f \in Findings : PersistFinding(f)
    <3>1. PICK f \in Findings : PersistFinding(f)
      BY <2>2
    <3>2. review' \in Review
      BY <3>1 DEF PersistFinding, TypeOK, Review
    <3>3. finding' \in [Findings -> {"none", "open", "resolved"}]
      BY <3>1 DEF PersistFinding, TypeOK
    <3>4. QED
      BY <3>1, <3>2, <3>3 DEF PersistFinding, TypeOK, counters
  <2>3. CASE Conclude \/ Incomplete
    <3>1. row' \in Row
      BY <1>g, <2>3, OutcomesTyped DEF Conclude, Incomplete, TypeOK
    <3>2. review' \in Review
      <4>1. review' = NoReview
        BY <2>3 DEF Conclude, Incomplete
      <4>2. QED
        BY <4>1 DEF NoReview, Review
    <3>3. QED
      BY <2>3, <3>1, <3>2 DEF Conclude, Incomplete, TypeOK, counters
  <2>4. CASE Halt
    BY <2>4, OperatorTyped DEF Halt, TypeOK, counters, NoReview, Review
  <2>5. QED
    BY <1>3, <2>1, <2>2, <2>3, <2>4 DEF ReviewStep
<1>4. CASE Cancel \/ Requeue
  BY <1>4, OperatorTyped DEF Cancel, Requeue, TypeOK, counters
<1>5. CASE Restart
  BY <1>5 DEF Restart, TypeOK, Thread, Pcs
<1>6. QED
  BY <1>1, <1>2, <1>3, <1>4, <1>5 DEF Next

(* A thread gets its finding when it starts and keeps it.                  *)
LEMMA ThreadsKeepFindings ==
  TypeOK /\ ResolversHaveFindings /\ [Next]_vars => ResolversHaveFindings'
<1> SUFFICES ASSUME TypeOK, ResolversHaveFindings, [Next]_vars, NEW c \in Comments,
                    thread'[c].pc \in {"turn", "answer", "resolve"}
             PROVE  thread'[c].finding # {}
  BY DEF ResolversHaveFindings
<1>1. CASE thread'[c] = thread[c]
  BY <1>1 DEF ResolversHaveFindings
<1>2. ASSUME NEW b \in Comments, Feedback(b), thread'[c] # thread[c]
      PROVE  thread'[c].finding # {}
  <2>1. thread[c] \in Thread /\ thread \in [Comments -> Thread]
    BY DEF TypeOK
  <2>2. CASE \E f \in Findings : StartFeedback(b, f)
    <3>1. PICK f \in Findings : StartFeedback(b, f)
      BY <2>2
    <3>2. thread' = [thread EXCEPT ![b].pc = "turn", ![b].finding = {f}]
      BY <3>1 DEF StartFeedback
    <3>3. b = c /\ thread'[c].finding = {f}
      BY <1>2, <2>1, <3>2 DEF Thread
    <3>4. QED
      BY <3>3
  <2>3. CASE \/ \E f \in Findings : MarkHumanNonFix(b, f)
             \/ TurnFails(b) \/ Resolve(b) \/ CountOpen(b) \/ Pass(b)
    <3>1. b = c /\ thread'[c].pc \in {"done", "count", "pass"}
      BY <1>2, <2>1, <2>3 DEF MarkHumanNonFix, TurnFails, Resolve, CountOpen, Pass, Goes,
         Thread
    <3>2. QED
      BY <3>1
  <2>4. CASE ReadPrompt(b) \/ TurnAgrees(b)
    <3>1. b = c /\ thread'[c].finding = thread[c].finding
      BY <1>2, <2>1, <2>4 DEF ReadPrompt, TurnAgrees, Goes, Thread
    <3>2. QED
      BY <2>4, <3>1 DEF ReadPrompt, TurnAgrees, ResolversHaveFindings
  <2>5. QED
    BY <1>2, <2>2, <2>3, <2>4 DEF Feedback
<1>3. CASE ReviewStep \/ Cancel \/ Requeue \/ UNCHANGED vars
  BY <1>1, <1>3 DEF ReviewStep, Claim, PersistFinding, Conclude, Incomplete, Halt, Cancel,
     Requeue, vars
<1>4. CASE Restart
  BY <1>1, <1>4 DEF Restart, TypeOK, Thread
<1>5. QED
  BY <1>1, <1>2, <1>3, <1>4 DEF Next

(* The findings to persist go away with the review.                        *)
LEMMA TodoNeedsReview == TypeOK /\ TodoIsActive /\ [Next]_vars => TodoIsActive'
<1> SUFFICES ASSUME TypeOK, TodoIsActive, [Next]_vars PROVE TodoIsActive'
  OBVIOUS
<1>1. CASE UNCHANGED review
  BY <1>1 DEF TodoIsActive
<1>2. CASE review' = NoReview \/ review'.active
  BY <1>2 DEF TodoIsActive, NoReview
<1>3. CASE \E f \in Findings : PersistFinding(f)
  <2>1. PICK f \in Findings : PersistFinding(f)
    BY <1>3
  <2>2. review \in Review /\ review.active
    BY <2>1 DEF PersistFinding, TypeOK, TodoIsActive
  <2>3. review'.active
    BY <2>1, <2>2 DEF PersistFinding, Review
  <2>4. QED
    BY <1>2, <2>3
<1>4. ASSUME NEW d \in Daemons, Claim(d) PROVE review'.active
  BY <1>4 DEF Claim
<1>5. QED
  BY <1>1, <1>2, <1>3, <1>4 DEF Next, Feedback, StartFeedback, MarkHumanNonFix, ReadPrompt,
     TurnFails, TurnAgrees, Resolve, CountOpen, Pass, ReviewStep, Conclude, Incomplete, Halt,
     Cancel, Requeue, Restart, vars

(* Persisting opens a finding; a resolution during the review shows in     *)
(* early; the end of the review ends the claim.                            *)
LEMMA FoundStaysOpen ==
  TypeOK /\ ResolversHaveFindings /\ TodoIsActive /\ FoundIsOpen /\ [Next]_vars
    => FoundIsOpen'
<1> SUFFICES ASSUME TypeOK, ResolversHaveFindings, TodoIsActive, FoundIsOpen, [Next]_vars
             PROVE  FoundIsOpen'
  OBVIOUS
<1>1. CASE UNCHANGED <<finding, review, early>>
  BY <1>1 DEF FoundIsOpen, is_open
<1>2. ASSUME NEW c \in Comments, NEW F \in SUBSET Findings, F # {},
             resolve(F), UNCHANGED review
      PROVE  FoundIsOpen'
  BY <1>2 DEF resolve, FoundIsOpen, is_open
<1>3. ASSUME NEW c \in Comments, Feedback(c) PROVE FoundIsOpen'
  <2>1. CASE \E f \in Findings : MarkHumanNonFix(c, f)
    BY <1>2, <2>1 DEF MarkHumanNonFix
  <2>2. CASE Resolve(c)
    <3>1. thread[c].finding \in SUBSET Findings /\ thread[c].finding # {}
      BY <2>2 DEF Resolve, TypeOK, Thread, ResolversHaveFindings
    <3>2. QED
      BY <1>2, <2>2, <3>1 DEF Resolve
  <2>3. QED
    BY <1>1, <1>3, <2>1, <2>2 DEF Feedback, StartFeedback, ReadPrompt, TurnFails,
       TurnAgrees, CountOpen, Pass
<1>4. CASE ReviewStep
  <2>1. CASE \E f \in Findings : PersistFinding(f)
    <3>1. PICK f \in Findings : PersistFinding(f)
      BY <2>1
    <3>2. is_open(f)'
      BY <3>1 DEF PersistFinding, is_open, TypeOK
    <3>3. review \in Review /\ review.active
      BY <3>1 DEF PersistFinding, TypeOK, TodoIsActive
    <3>4. review'.active = review.active
      BY <3>1, <3>3 DEF PersistFinding, Review
    <3>5. QED
      BY <3>1, <3>2, <3>3, <3>4 DEF PersistFinding, FoundIsOpen
  <2>2. QED
    BY <1>4, <2>1 DEF ReviewStep, Claim, Conclude, Incomplete, Halt, FoundIsOpen, NoReview
<1>5. QED
  BY <1>1, <1>3, <1>4 DEF Next, Cancel, Requeue, Restart, vars

(* The heart of the argument: between the last update and the outcome some *)
(* thread is under way, because it counts after it has updated.            *)
LEMMA SomeoneSeesTheLast == FeedbackInv /\ [Next]_vars => LastResolutionPasses'
<1> SUFFICES ASSUME FeedbackInv, [Next]_vars, row'.gate = "failed", early' = {},
                    \A c \in Comments : ~underway(c)'
             PROVE  \E f \in Findings : is_open(f)'
  BY DEF LastResolutionPasses
<1>1. TypeOK /\ LastResolutionPasses /\ FoundIsOpen
  BY DEF FeedbackInv
<1>2. ASSUME NEW c \in Comments, Feedback(c)
      PROVE  \E f \in Findings : is_open(f)'
  <2>1. CASE CountOpen(c)
    <3>1. thread'[c].pc # "pass"
      BY DEF underway
    <3>2. QED
      BY <1>1, <2>1, <3>1 DEF CountOpen, Goes, none_open, is_open, TypeOK, Thread
  <2>2. CASE Pass(c)
    <3>1. row'.gate = "passed"
      BY <1>1, <2>2, OutcomesTyped DEF Pass, TypeOK, Terminal, Gates, ReviewGates
    <3>2. QED
      BY <3>1
  <2>3. CASE (\E f \in Findings : MarkHumanNonFix(c, f)) \/ Resolve(c)
    <3>1. Goes(c, "count")
      BY <2>3 DEF MarkHumanNonFix, Resolve
    <3>2. thread'[c].pc = "count"
      BY <1>1, <3>1 DEF Goes, TypeOK, Thread
    <3>3. QED
      BY <3>2 DEF underway
  <2>4. CASE TurnAgrees(c)
    <3>1. thread'[c].pc = "resolve"
      BY <1>1, <2>4 DEF TurnAgrees, Goes, TypeOK, Thread
    <3>2. QED
      BY <3>1 DEF underway
  <2>5. CASE (\E f \in Findings : StartFeedback(c, f)) \/ ReadPrompt(c) \/ TurnFails(c)
    <3>1. UNCHANGED <<row, finding, early>>
      BY <2>5 DEF StartFeedback, ReadPrompt, TurnFails
    <3>2. ASSUME NEW b \in Comments PROVE ~underway(b)
      BY <1>1, <2>5 DEF StartFeedback, ReadPrompt, TurnFails, Goes, TypeOK, Thread, underway
    <3>3. QED
      BY <1>1, <3>1, <3>2 DEF LastResolutionPasses, is_open
  <2>6. QED
    BY <1>2, <2>1, <2>2, <2>3, <2>4, <2>5 DEF Feedback
<1>3. CASE ReviewStep
  <2>1. CASE Conclude
    <3>1. "passed" \in Gates /\ "failed" \in Gates /\ "success" \in Terminal
      BY DEF Gates, ReviewGates, Terminal
    <3>2. review.found
      BY <1>1, <2>1, <3>1, OutcomesTyped DEF Conclude, TypeOK
    <3>3. QED
      BY <1>1, <2>1, <3>2 DEF Conclude, FoundIsOpen, is_open
  <2>2. CASE Incomplete
    <3>1. row'.gate = "incomplete"
      BY <1>1, <2>2, OutcomesTyped DEF Incomplete, TypeOK, Terminal, Gates, FailedGates
    <3>2. QED
      BY <3>1
  <2>3. CASE Halt
    <3>1. row'.gate \in {"cancelled", "stopped"}
      <4>1. row \in Row
        BY <1>1 DEF TypeOK
      <4>2. cancel_row(row).gate = "cancelled" /\ stop_row(row).gate = "stopped"
        BY <4>1 DEF cancel_row, stop_row, Row
      <4>3. QED
        BY <2>3, <4>2 DEF Halt
    <3>2. QED
      BY <3>1
  <2>4. CASE \E f \in Findings : PersistFinding(f)
    BY <1>1, <2>4 DEF PersistFinding, is_open, TypeOK
  <2>5. CASE \E d \in Daemons : Claim(d)
    <3>1. row'.gate = row.gate
      BY <1>1, <2>5 DEF Claim, claim_task, TypeOK, Row
    <3>2. QED
      BY <1>1, <2>5, <3>1 DEF Claim, LastResolutionPasses, underway, is_open
  <2>6. QED
    BY <1>3, <2>1, <2>2, <2>3, <2>4, <2>5 DEF ReviewStep
<1>4. CASE Cancel \/ Requeue
  BY <1>1, <1>4 DEF Cancel, Requeue, cancel_row, requeue_row, TypeOK, Row
<1>5. CASE Restart
  <2>1. ASSUME NEW b \in Comments PROVE ~underway(b)
    BY <1>1, <1>5 DEF Restart, TypeOK, Thread, underway
  <2>2. QED
    BY <1>1, <1>5, <2>1 DEF Restart, LastResolutionPasses, is_open
<1>6. CASE UNCHANGED vars
  BY <1>1, <1>6 DEF vars, LastResolutionPasses, underway, is_open
<1>7. QED
  BY <1>2, <1>3, <1>4, <1>5, <1>6 DEF Next

(* FeedbackInv holds in every reachable state.                             *)
THEOREM FeedbackInvCorrect == Spec => []FeedbackInv
<1>1. FeedbackInv /\ [Next]_vars => FeedbackInv'
  BY FeedbackTyped, ThreadsKeepFindings, TodoNeedsReview, FoundStaysOpen, SomeoneSeesTheLast
     DEF FeedbackInv
<1>2. QED
  BY FeedbackInit, <1>1, PTL DEF Spec

(* The findings, the row and the threads that answer comments keep their   *)
(* types, for any number of them.                                          *)
THEOREM TypeCorrect == Spec => []TypeOK
<1>1. FeedbackInv => TypeOK
  BY DEF FeedbackInv
<1>2. QED
  BY FeedbackInvCorrect, <1>1, PTL

(* The last resolution of a reviewed task passes it, for any number of     *)
(* findings and of concurrent comments.                                    *)
THEOREM LastResolutionCorrect == Spec => []LastResolutionPasses
<1>1. FeedbackInv => LastResolutionPasses
  BY DEF FeedbackInv
<1>2. QED
  BY FeedbackInvCorrect, <1>1, PTL

(* No step takes a finding out of resolved.                                *)
THEOREM FindingsStayResolved == Spec => NoFindingReopens
<1>1. ASSUME FeedbackInv, [Next]_vars, NEW f \in Findings, finding[f] = "resolved"
      PROVE  finding'[f] = "resolved"
  <2>1. finding \in [Findings -> {"none", "open", "resolved"}]
    BY <1>1 DEF FeedbackInv, TypeOK
  <2>2. QED
    BY <1>1, <2>1 DEF Next, Feedback, StartFeedback, MarkHumanNonFix, ReadPrompt, TurnFails,
       TurnAgrees, Resolve, resolve, CountOpen, Pass, ReviewStep, Claim, PersistFinding,
       Conclude, Incomplete, Halt, Cancel, Requeue, Restart, vars
<1>2. FeedbackInv /\ [Next]_vars
        => [\A f \in Findings : finding[f] = "resolved" => finding'[f] = "resolved"]_vars
  BY <1>1
<1>3. QED
  BY FeedbackInvCorrect, <1>2, PTL DEF Spec, NoFindingReopens
=============================================================================
