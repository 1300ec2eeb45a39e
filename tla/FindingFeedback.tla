--------------------------- MODULE FindingFeedback ---------------------------
(***************************************************************************)
(* Feedback on the findings of one v2 task (review_v2/feedback.py).  Every *)
(* comment is handled by a thread of the API process of its own: it either *)
(* marks its finding as human_non_fix, or starts a feedback session, lets  *)
(* the model answer and resolves the finding if the model agrees.  It then *)
(* counts the open findings and, if there is none, declares the task       *)
(* passed; update, count and outcome are separate transactions.            *)
(*                                                                         *)
(* The task's review may still be persisting findings, may run again after *)
(* a requeue, or may be cancelled meanwhile.  One daemon reviews the task. *)
(***************************************************************************)
EXTENDS ReviewDB

CONSTANTS Findings,     \* the finding_ids a review of the task can come up with
          Comments,     \* the comments users send: one thread and session each
          MaxRequeues,  \* bound on operator requeues
          MaxRestarts   \* bound on restarts of the API process

ASSUME FeedbackAssumption == MaxRequeues \in Nat /\ MaxRestarts \in Nat

VARIABLES row,       \* the cr_tasks row
          finding,   \* findings.status, by finding_id
          session,   \* feedback_sessions.status, by comment
          prompt,    \* the comments in the prompt file of each finding
          thread,    \* what the thread of each comment is doing
          review,    \* the workflow reviewing the task
          early,     \* findings resolved while a review was under way (history)
          requeues, restarts

vars == <<row, finding, session, prompt, thread, review, early, requeues, restarts>>
counters == <<requeues, restarts>>

Pcs == {"new", "turn", "answer", "resolve", "count", "pass", "done", "dead"}
Thread == [pc: Pcs, finding: SUBSET Findings, read: SUBSET Comments]
NewThread == [pc |-> "new", finding |-> {}, read |-> {}]

\* todo: the accepted findings not persisted yet.
Review == [active: BOOLEAN, todo: SUBSET Findings, found: BOOLEAN]
NoReview == [active |-> FALSE, todo |-> {}, found |-> FALSE]

Init ==
  /\ row = create_task
  /\ finding = [f \in Findings |-> "none"]
  /\ session = [c \in Comments |-> "none"]
  /\ prompt = [f \in Findings |-> {}]
  /\ thread = [c \in Comments |-> NewThread]
  /\ review = NoReview
  /\ early = {}
  /\ requeues = 0 /\ restarts = 0

Goes(c, pc) == thread' = [thread EXCEPT ![c].pc = pc]
outcome(status, gate) == row' = update_task_outcome(row, FALSE, status, gate)

-----------------------------------------------------------------------------
(* start_finding_feedback: an unknown finding is refused.  The prompt file *)
(* is named after the finding and replaces the one of an earlier comment.  *)
StartFeedback(c, f) ==
  /\ thread[c].pc = "new"
  /\ finding[f] # "none"
  /\ prompt' = [prompt EXCEPT ![f] = {c}]
  /\ session' = [session EXCEPT ![c] = "running"]
  /\ thread' = [thread EXCEPT ![c].pc = "turn", ![c].finding = {f}]
  /\ UNCHANGED <<row, finding, review, early, counters>>

\* The turn reads the prompt file, whoever wrote it last.
ReadPrompt(c) ==
  /\ thread[c].pc = "turn"
  /\ \E f \in thread[c].finding :
       thread' = [thread EXCEPT ![c].pc = "answer", ![c].read = prompt[f]]
  /\ UNCHANGED <<row, finding, session, prompt, review, early, counters>>

\* The turn raises, is cut off, returns no JSON, or leaves the finding open.
TurnFails_as_error(c) ==
  /\ thread[c].pc = "answer"
  /\ session' = [session EXCEPT ![c] = "error"]
  /\ Goes(c, "done")
  /\ UNCHANGED <<row, finding, prompt, review, early, counters>>

TurnFails(c) ==
  /\ thread[c].pc = "answer"
  /\ session' = [session EXCEPT ![c] = "failed"]
  /\ Goes(c, "done")
  /\ UNCHANGED <<row, finding, prompt, review, early, counters>>

TurnAgrees(c) ==
  /\ thread[c].pc = "answer"
  /\ session' = [session EXCEPT ![c] = "success"]
  /\ Goes(c, "resolve")
  /\ UNCHANGED <<row, finding, prompt, review, early, counters>>

-----------------------------------------------------------------------------
(* Resolving a finding and recomputing the task.                           *)

is_open(f) == finding[f] = "open"
none_open == \A f \in Findings : ~is_open(f)

resolve(F) ==
  /\ finding' = [f \in Findings |-> IF f \in F THEN "resolved" ELSE finding[f]]
  /\ early' = IF review.active THEN early \cup F ELSE early

MarkHumanNonFix(c, f) ==
  /\ thread[c].pc = "new"
  /\ finding[f] # "none"
  /\ resolve({f})
  /\ Goes(c, "count")
  /\ UNCHANGED <<row, session, prompt, review, counters>>

Resolve_after_count(c) ==
  /\ thread[c].pc = "resolve"
  /\ resolve(thread[c].finding)
  /\ Goes(c, IF none_open THEN "pass" ELSE "done")
  /\ UNCHANGED <<row, session, prompt, review, counters>>

Resolve(c) ==
  /\ thread[c].pc = "resolve"
  /\ resolve(thread[c].finding)
  /\ Goes(c, "count")
  /\ UNCHANGED <<row, session, prompt, review, counters>>

CountOpen(c) ==
  /\ thread[c].pc = "count"
  /\ Goes(c, IF none_open THEN "pass" ELSE "done")
  /\ UNCHANGED <<row, finding, session, prompt, review, early, counters>>

Pass(c) ==
  /\ thread[c].pc = "pass"
  /\ outcome("success", "passed")
  /\ Goes(c, "done")
  /\ UNCHANGED <<finding, session, prompt, review, early, counters>>

\* The threads die with the API process; nothing resumes them.
Restart ==
  /\ restarts < MaxRestarts
  /\ thread' = [c \in Comments |-> IF thread[c].pc \in {"new", "done"} THEN thread[c]
                                   ELSE [thread[c] EXCEPT !.pc = "dead"]]
  /\ restarts' = restarts + 1
  /\ UNCHANGED <<row, finding, session, prompt, review, early, requeues>>

-----------------------------------------------------------------------------
(* The review: it accepts some findings, persists them one by one, and     *)
(* concludes.  Inserting a finding_id that exists raises, and an exception *)
(* ends the review as incomplete.                                          *)

Claim(d) ==
  /\ ~review.active
  /\ row.status = "queued"
  /\ row' = claim_task(row, d)
  /\ \E F \in SUBSET Findings :
       review' = [active |-> TRUE, todo |-> F, found |-> FALSE]
  /\ UNCHANGED <<finding, session, prompt, thread, early, counters>>

PersistFinding_replaces(f) ==
  /\ f \in review.todo
  /\ finding' = [finding EXCEPT ![f] = "open"]
  /\ review' = [review EXCEPT !.todo = @ \ {f}, !.found = TRUE]
  /\ UNCHANGED <<row, session, prompt, thread, early, counters>>

PersistFinding(f) ==
  /\ f \in review.todo
  /\ finding[f] = "none"
  /\ finding' = [finding EXCEPT ![f] = "open"]
  /\ review' = [review EXCEPT !.todo = @ \ {f}, !.found = TRUE]
  /\ UNCHANGED <<row, session, prompt, thread, early, counters>>

Conclude ==
  /\ review.active
  /\ review.todo = {}
  /\ outcome("success", IF review.found THEN "failed" ELSE "passed")
  /\ review' = NoReview
  /\ UNCHANGED <<finding, session, prompt, thread, early, counters>>

Incomplete ==
  /\ review.active
  /\ outcome("failed", "incomplete")
  /\ review' = NoReview
  /\ UNCHANGED <<finding, session, prompt, thread, early, counters>>

Halt ==
  /\ review.active
  /\ row' \in {cancel_row(row), stop_row(row)}
  /\ review' = NoReview
  /\ UNCHANGED <<finding, session, prompt, thread, early, counters>>

Cancel ==
  /\ row' = cancel_row(row)
  /\ UNCHANGED <<finding, session, prompt, thread, review, early, counters>>

Requeue ==
  /\ requeues < MaxRequeues
  /\ row' = requeue_row(row)
  /\ requeues' = requeues + 1
  /\ UNCHANGED <<finding, session, prompt, thread, review, early, restarts>>

-----------------------------------------------------------------------------
Feedback(c) ==
  \/ \E f \in Findings : StartFeedback(c, f) \/ MarkHumanNonFix(c, f)
  \/ ReadPrompt(c) \/ TurnFails(c) \/ TurnAgrees(c)
  \/ Resolve(c) \/ CountOpen(c) \/ Pass(c)
ReviewStep ==
  \/ \E d \in Daemons : Claim(d)
  \/ \E f \in Findings : PersistFinding(f)
  \/ Conclude \/ Incomplete \/ Halt

Next ==
  \/ \E c \in Comments : Feedback(c)
  \/ ReviewStep
  \/ Cancel \/ Requeue \/ Restart

Spec == Init /\ [][Next]_vars

-----------------------------------------------------------------------------
(* Properties.                                                             *)

(* Every row, session, file and thread holds a value of its kind.          *)
TypeOK ==
  /\ row \in Row
  /\ finding \in [Findings -> {"none", "open", "resolved"}]
  /\ session \in [Comments -> {"none", "running", "success", "failed"}]
  /\ prompt \in [Findings -> SUBSET Comments]
  /\ thread \in [Comments -> Thread]
  /\ review \in Review
  /\ early \subseteq Findings
  /\ requeues \in Nat /\ restarts \in Nat

underway(c) == thread[c].pc \in {"resolve", "count", "pass", "dead"}

(* However the threads resolving the last findings interleave, one of them *)
(* sees that none is open and passes the task: a failed gate with nothing  *)
(* left to resolve has only two excuses, a finding that was resolved before*)
(* its review ended, or an API process that died on the way.               *)
LastResolutionPasses ==
  row.gate = "failed" /\ early = {} /\ (\A c \in Comments : ~underway(c))
    => \E f \in Findings : is_open(f)

(* What makes LastResolutionPasses inductive: a thread on its way to       *)
(* resolve has a finding to resolve, only a review under way has findings  *)
(* to persist, and one that has persisted some, none of them resolved yet, *)
(* has left one of them open.                                              *)
ResolversHaveFindings ==
  \A c \in Comments :
    thread[c].pc \in {"turn", "answer", "resolve"} => thread[c].finding # {}

TodoIsActive == review.todo # {} => review.active

FoundIsOpen ==
  review.found => review.active /\ (early = {} => \E f \in Findings : is_open(f))

FeedbackInv ==
  TypeOK /\ ResolversHaveFindings /\ TodoIsActive /\ FoundIsOpen /\ LastResolutionPasses

(* What has been resolved stays resolved: a review run again after a       *)
(* requeue cannot reopen a finding.                                        *)
NoFindingReopens ==
  [][\A f \in Findings : finding[f] = "resolved" => finding'[f] = "resolved"]_vars
=============================================================================
