-------------------------- MODULE CallbackDelivery --------------------------
(***************************************************************************)
(* How the verdict of one v2 task reaches its CI target.  update_task_     *)
(* outcome schedules a callback in the row; every daemon, between reviews, *)
(* lists the due callbacks, loads the row, posts a payload made from that  *)
(* snapshot, and writes the result back without looking at the row again   *)
(* (review_v2/daemon.py, core/callback.py).  Meanwhile other daemons do    *)
(* the same, reviews end, and the API acknowledges findings, cancels or    *)
(* requeues the task.                                                      *)
(*                                                                         *)
(* A payload is abstracted to the gate it reports; CI keeps the last one   *)
(* it was given.  A daemon reviews or delivers, never both at once.        *)
(***************************************************************************)
EXTENDS ReviewDB

CONSTANTS MaxAttempts,          \* Settings.max_task_attempts
          MaxCallbackAttempts,  \* Settings.review_v2_callback_max_attempts
          PostTries,            \* Settings.callback_retry_times + 1
          MaxAcks,              \* bound on acknowledgements by feedback
          MaxRequeues,          \* bound on operator requeues
          MaxCrashes            \* bound on daemon crashes

ASSUME CallbackAssumption ==
  /\ MaxAttempts \in Nat \ {0}
  /\ MaxCallbackAttempts \in Nat \ {0}
  /\ PostTries \in Nat \ {0}
  /\ MaxAcks \in Nat /\ MaxRequeues \in Nat /\ MaxCrashes \in Nat

VARIABLES row,       \* the cr_tasks row of the task, which names a CI target
          reviewed,  \* a review has persisted findings
          daemon,    \* what each daemon is doing
          heard,     \* the payload CI was given last
          acks, requeues, crashes

vars == <<row, reviewed, daemon, heard, acks, requeues, crashes>>
counters == <<acks, requeues, crashes>>

Payloads == Gates \ {"null", "skipped"}

Pcs == {"idle", "review", "found", "hung", "load", "post", "confirm", "fail"}
Daemon == [pc: Pcs, attempts: Nat, payload: Payloads \cup {"null"}, tries: Nat]
Idle == [pc |-> "idle", attempts |-> 0, payload |-> "null", tries |-> 0]

reviewing(d) == daemon[d].pc \in {"review", "found"}

Init ==
  /\ row = create_task
  /\ reviewed = FALSE
  /\ daemon = [d \in Daemons |-> Idle]
  /\ heard = "null"
  /\ acks = 0 /\ requeues = 0 /\ crashes = 0

-----------------------------------------------------------------------------
(* CRReviewDaemon.retry_callbacks.                                         *)

ListDue(d) ==
  /\ daemon[d].pc = "idle"
  /\ callback_is_due(row)
  /\ daemon' = [daemon EXCEPT ![d].pc = "load"]
  /\ UNCHANGED <<row, reviewed, heard, counters>>

\* A requeued row, whose gate is null, reads as "issues found"; a skipped
\* review as a clean one.
payload_of_skipped(r) == IF r.gate = "null" THEN "failed" ELSE r.gate

payload(r) ==
  IF r.gate \in {"passed", "skipped"} THEN "passed"
  ELSE IF r.gate \in {"failed", "null"} THEN "failed" ELSE r.gate

already_delivered(r) == r.callback = "succeeded" /\ r.digest = payload(r)

Load(d) ==
  /\ daemon[d].pc = "load"
  /\ daemon' = [daemon EXCEPT ![d] =
       IF already_delivered(row) THEN Idle
       ELSE [pc |-> "post", attempts |-> row.callbackAttempts,
             payload |-> payload(row), tries |-> 0]]
  /\ UNCHANGED <<row, reviewed, heard, counters>>

-----------------------------------------------------------------------------
(* CallbackClient.send: a post is answered with a 2xx, reaches CI without  *)
(* an answer the client accepts (an error status, a timeout), or is lost.  *)

Acknowledged(d) ==
  /\ daemon[d].pc = "post"
  /\ heard' = daemon[d].payload
  /\ daemon' = [daemon EXCEPT ![d].pc = "confirm"]
  /\ UNCHANGED <<row, reviewed, counters>>

Unacknowledged(d) ==
  LET last == daemon[d].tries + 1 = PostTries IN
  /\ daemon[d].pc = "post"
  /\ heard' \in {heard, daemon[d].payload}
  /\ daemon' = [daemon EXCEPT ![d].pc = IF last THEN "fail" ELSE "post",
                              ![d].tries = @ + 1]
  /\ UNCHANGED <<row, reviewed, counters>>

-----------------------------------------------------------------------------
(* Writing the result back, with the attempts of the snapshot.             *)

Confirm_with_current_row(d) ==
  /\ daemon[d].pc = "confirm"
  /\ row' = set_callback_state(row, "succeeded", daemon[d].attempts + 1, payload(row))
  /\ daemon' = [daemon EXCEPT ![d] = Idle]
  /\ UNCHANGED <<reviewed, heard, counters>>

Confirm(d) ==
  /\ daemon[d].pc = "confirm"
  /\ row' = set_callback_state(row, "succeeded", daemon[d].attempts + 1,
                               daemon[d].payload)
  /\ daemon' = [daemon EXCEPT ![d] = Idle]
  /\ UNCHANGED <<reviewed, heard, counters>>

RecordFailure_off_by_one(d) ==
  LET attempts == daemon[d].attempts + 1
      state == IF attempts > MaxCallbackAttempts THEN "failed" ELSE "retrying" IN
  /\ daemon[d].pc = "fail"
  /\ row' = set_callback_state(row, state, attempts, "null")
  /\ daemon' = [daemon EXCEPT ![d] = Idle]
  /\ UNCHANGED <<reviewed, heard, counters>>

RecordFailure_forgets_attempts(d) ==
  /\ daemon[d].pc = "fail"
  /\ row' = set_callback_state(row, "retrying", row.callbackAttempts, "null")
  /\ daemon' = [daemon EXCEPT ![d] = Idle]
  /\ UNCHANGED <<reviewed, heard, counters>>

RecordFailure(d) ==
  LET attempts == daemon[d].attempts + 1
      state == IF attempts >= MaxCallbackAttempts THEN "failed" ELSE "retrying" IN
  /\ daemon[d].pc = "fail"
  /\ row' = set_callback_state(row, state, attempts, "null")
  /\ daemon' = [daemon EXCEPT ![d] = Idle]
  /\ UNCHANGED <<reviewed, heard, counters>>

RetryTimeComes ==
  /\ row.callback = "retrying" /\ ~row.callbackDue
  /\ row' = [row EXCEPT !.callbackDue = TRUE]
  /\ UNCHANGED <<reviewed, daemon, heard, counters>>

-----------------------------------------------------------------------------
(* Who else writes the row: reviews, recovery, operators and feedback.     *)

Claim(d) ==
  /\ daemon[d].pc = "idle"
  /\ row.status = "queued"
  /\ row' = claim_task(row, d)
  /\ daemon' = [daemon EXCEPT ![d].pc = "review"]
  /\ UNCHANGED <<reviewed, heard, counters>>

PersistFindings(d) ==
  /\ daemon[d].pc = "review"
  /\ reviewed' = TRUE
  /\ daemon' = [daemon EXCEPT ![d].pc = "found"]
  /\ UNCHANGED <<row, heard, counters>>

Verdict(d, gate) ==
  LET status == IF gate \in ReviewGates THEN "success" ELSE "failed" IN
  /\ \/ daemon[d].pc = "review" /\ gate # "failed"
     \/ daemon[d].pc = "found" /\ gate \in {"failed", "incomplete"}
  /\ row' = update_task_outcome(row, TRUE, status, gate)
  /\ daemon' = [daemon EXCEPT ![d] = Idle]
  /\ UNCHANGED <<reviewed, heard, counters>>

\* A git command has no timeout.  It may never end, in the review of this
\* task or, for a daemon that is idle here, in another one or in the loop.
Hang(d) ==
  /\ daemon[d].pc \in {"idle", "review"}
  /\ daemon' = [daemon EXCEPT ![d].pc = "hung"]
  /\ UNCHANGED <<row, reviewed, heard, counters>>

\* A review that ends on a control request writes no outcome.
Halt(d) ==
  /\ reviewing(d)
  /\ row' \in {cancel_row(row), stop_row(row)}
  /\ daemon' = [daemon EXCEPT ![d] = Idle]
  /\ UNCHANGED <<reviewed, heard, counters>>

\* The lease of a running row may have run out at any time.
RecoverStale(d) ==
  /\ daemon[d].pc = "idle"
  /\ row.status = "running"
  /\ row' = recover_row(row, MaxAttempts)
  /\ UNCHANGED <<reviewed, daemon, heard, counters>>

Cancel ==
  /\ row' = cancel_row(row)
  /\ UNCHANGED <<reviewed, daemon, heard, counters>>

Requeue ==
  /\ requeues < MaxRequeues
  /\ row' = requeue_row(row)
  /\ requeues' = requeues + 1
  /\ UNCHANGED <<reviewed, daemon, heard, acks, crashes>>

Acknowledge ==
  /\ reviewed
  /\ acks < MaxAcks
  /\ row' = update_task_outcome(row, TRUE, "success", "passed")
  /\ acks' = acks + 1
  /\ UNCHANGED <<reviewed, daemon, heard, requeues, crashes>>

Crash(d) ==
  /\ daemon[d].pc # "idle"
  /\ crashes < MaxCrashes
  /\ daemon' = [daemon EXCEPT ![d] = Idle]
  /\ crashes' = crashes + 1
  /\ UNCHANGED <<row, reviewed, heard, acks, requeues>>

-----------------------------------------------------------------------------
Record(d) == Confirm(d) \/ RecordFailure(d)
Send(d) == Acknowledged(d) \/ Unacknowledged(d)
Deliver(d) == ListDue(d) \/ Load(d) \/ Send(d) \/ Record(d)
Review(d) == \/ Claim(d) \/ RecoverStale(d)
             \/ \E gate \in ReviewGates \cup FailedGates : Verdict(d, gate)
Outsider == Cancel \/ Requeue \/ Acknowledge

Next ==
  \/ \E d \in Daemons : Deliver(d) \/ Review(d) \/ Crash(d)
                         \/ PersistFindings(d) \/ Halt(d) \/ Hang(d)
  \/ RetryTimeComes
  \/ Outsider

Spec == Init /\ [][Next]_vars

(* A daemon that has a callback in hand goes on with it, a due callback is *)
(* listed by the next poll, posts are answered or time out, and retry      *)
(* times come.  A review ends, by the turn timeouts, unless it hangs.      *)
DeliveryFairness ==
  /\ \A d \in Daemons : WF_vars(ListDue(d)) /\ WF_vars(Load(d))
                        /\ WF_vars(Send(d)) /\ WF_vars(Record(d))
  /\ \A d \in Daemons : WF_vars(Review(d))
  /\ WF_vars(RetryTimeComes)

FairSpec == Spec /\ DeliveryFairness

-----------------------------------------------------------------------------
(* Properties.                                                             *)

(* The row, the daemons and what CI heard hold values of their kind.       *)
TypeOK ==
  /\ row \in Row
  /\ reviewed \in BOOLEAN
  /\ daemon \in [Daemons -> Daemon]
  /\ heard \in Payloads \cup {"null"}
  /\ acks \in Nat /\ requeues \in Nat /\ crashes \in Nat

(* With one daemon the retry budget of a callback is kept, although each   *)
(* result is written from a snapshot taken before the posts and new        *)
(* verdicts reset the count in between.                                    *)
AttemptsBounded == row.callbackAttempts <= MaxCallbackAttempts

(* A row that says its callback succeeded names the payload CI was given   *)
(* last: no later post, acknowledged or not, has changed CI's mind.        *)
DigestIsHeard == row.callback = "succeeded" => row.digest = heard

(* Every scheduled callback is delivered or given up, whatever crashes or  *)
(* hangs and however the attempts of several daemons overwrite each other, *)
(* unless every daemon hangs.                                              *)
EveryCallbackSettles ==
  row.callback = "retrying"
    ~> row.callback # "retrying" \/ \A d \in Daemons : daemon[d].pc = "hung"

(* Once a callback has succeeded, CI has heard the review verdict that is  *)
(* in the row.  One daemon keeps this over requeues, cancels and crashes.  *)
(* design-cr-v2 l.814 wants it of an acknowledgement too, which may land   *)
(* while the old verdict is being posted.                                  *)
ReviewReachesCI ==
  row.callback = "succeeded" /\ row.gate \in ReviewGates => heard = payload(row)

(* The three properties above need a single daemon; the last one also that *)
(* nothing is acknowledged.  Then this strengthening is inductive: a       *)
(* callback in hand is still scheduled, with budget left, and reports the  *)
(* verdict in the row; a post that was answered is what CI heard last.     *)
InHand(d) == daemon[d].pc \in {"load", "post", "confirm", "fail"}
Loaded(d) == daemon[d].pc \in {"post", "confirm", "fail"}

ScheduledHasBudget ==
  row.callback = "retrying" => row.callbackAttempts < MaxCallbackAttempts

InHandIsScheduled ==
  \A d \in Daemons :
    /\ InHand(d) => row.callback = "retrying"
    /\ Loaded(d) => /\ daemon[d].attempts < MaxCallbackAttempts
                    /\ daemon[d].payload \in Payloads

ConfirmedIsHeard ==
  \A d \in Daemons : daemon[d].pc = "confirm" => heard = daemon[d].payload

LoadedIsCurrent ==
  \A d \in Daemons :
    Loaded(d) /\ row.gate \in ReviewGates => daemon[d].payload = payload(row)

DeliveryInv ==
  /\ TypeOK /\ AttemptsBounded /\ DigestIsHeard
  /\ ScheduledHasBudget /\ InHandIsScheduled /\ ConfirmedIsHeard
=============================================================================
