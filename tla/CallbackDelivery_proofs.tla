----------------------- MODULE CallbackDelivery_proofs -----------------------
(* Theorems on CallbackDelivery for one daemon and every bound.  A single  *)
(* daemon keeps DeliveryInv; without acknowledgements its deliveries also  *)
(* report the verdict in the row.                                          *)
EXTENDS CallbackDelivery, TLAPS

USE CallbackAssumption, NoDaemonAssumption

OneDaemon == \A d, e \in Daemons : d = e

(* A new row is well typed.                                                *)
LEMMA CreateTyped == NoRow \in Row /\ create_task \in Row
BY DEF NoRow, create_task, Row, Statuses, Active, Terminal, Gates, ReviewGates,
       FailedGates, CallbackStates

(* A claimed row is well typed.                                            *)
LEMMA ClaimTyped ==
  ASSUME NEW r \in Row, NEW d \in Daemons
  PROVE  claim_task(r, d) \in Row
<1>1. r.attempts + 1 \in Nat
  BY DEF Row
<1>2. "running" \in Statuses
  BY DEF Statuses, Active
<1>3. QED
  BY <1>1, <1>2, Zenon DEF claim_task, Row

(* A row with an outcome is well typed, whatever the outcome was.          *)
LEMMA OutcomeTyped ==
  ASSUME NEW r \in Row, NEW notify \in BOOLEAN, NEW status \in Terminal,
         NEW gate \in Gates
  PROVE  update_task_outcome(r, notify, status, gate) \in Row
BY DEF update_task_outcome, Row, Statuses, CallbackStates

(* Operators and control requests leave well-typed rows.                   *)
LEMMA OperatorTyped ==
  ASSUME NEW r \in Row
  PROVE  cancel_row(r) \in Row /\ stop_row(r) \in Row /\ requeue_row(r) \in Row
<1>1. {"cancelled", "queued"} \subseteq Statuses /\ {"cancelled", "stopped", "null"} \subseteq Gates
  BY DEF Statuses, Active, Terminal, Gates
<1>2. cancel_row(r) \in Row
  BY <1>1 DEF cancel_row, Row
<1>3. stop_row(r) \in Row
  BY <1>1 DEF stop_row, Row
<1>4. requeue_row(r) \in Row
  BY <1>1 DEF requeue_row, Row
<1>5. QED
  BY <1>2, <1>3, <1>4

(* A recovered row is well typed.                                          *)
LEMMA RecoverTyped ==
  ASSUME NEW r \in Row, NEW max \in Nat
  PROVE  recover_row(r, max) \in Row
<1>1. {"failed", "queued"} \subseteq Statuses /\ "incomplete" \in Gates
  BY DEF Statuses, Active, Terminal, Gates, FailedGates
<1>2. CASE r.attempts >= max
  BY <1>1, <1>2 DEF recover_row, Row
<1>3. CASE ~(r.attempts >= max)
  BY <1>1, <1>3 DEF recover_row, Row
<1>4. QED
  BY <1>2, <1>3

(* The result of a delivery leaves a well-typed row.                       *)
LEMMA CallbackTyped ==
  ASSUME NEW r \in Row, NEW state \in CallbackStates, NEW n \in Nat, NEW digest \in Gates
  PROVE  set_callback_state(r, state, n, digest) \in Row
BY DEF set_callback_state, Row

(* A notified outcome schedules a callback with a fresh count.             *)
LEMMA OutcomeColumns ==
  ASSUME NEW r \in Row, NEW status, NEW gate
  PROVE  /\ update_task_outcome(r, TRUE, status, gate).callback = "retrying"
         /\ update_task_outcome(r, TRUE, status, gate).callbackAttempts = 0
         /\ update_task_outcome(r, TRUE, status, gate).gate = gate
BY DEF update_task_outcome, Row

(* The other transactions leave the callback columns alone, and none of    *)
(* them writes the gate of a review.                                       *)
LEMMA OtherColumns ==
  ASSUME NEW r \in Row, NEW d, NEW max,
         NEW s \in {claim_task(r, d), recover_row(r, max), cancel_row(r), stop_row(r),
                    requeue_row(r)}
  PROVE  /\ s.callback = r.callback /\ s.callbackAttempts = r.callbackAttempts
         /\ s.digest = r.digest
         /\ s.gate = r.gate \/ s.gate \notin ReviewGates
<1>1. "cancelled" \notin ReviewGates /\ "stopped" \notin ReviewGates
      /\ "null" \notin ReviewGates /\ "incomplete" \notin ReviewGates
  BY DEF ReviewGates
<1>2. CASE s = claim_task(r, d)
  BY <1>2 DEF claim_task, Row
<1>3. CASE s = recover_row(r, max)
  <2>1. CASE r.attempts >= max
    BY <1>1, <1>3, <2>1 DEF recover_row, Row
  <2>2. CASE ~(r.attempts >= max)
    BY <1>3, <2>2 DEF recover_row, Row
  <2>3. QED
    BY <2>1, <2>2
<1>4. CASE s = cancel_row(r)
  BY <1>1, <1>4 DEF cancel_row, Row
<1>5. CASE s = stop_row(r)
  BY <1>1, <1>5 DEF stop_row, Row
<1>6. CASE s = requeue_row(r)
  BY <1>1, <1>6 DEF requeue_row, Row
<1>7. QED
  BY <1>2, <1>3, <1>4, <1>5, <1>6

(* The payload made from a row is one CI can be given.                     *)
LEMMA PayloadTyped == ASSUME NEW r \in Row PROVE payload(r) \in Payloads
BY DEF payload, Payloads, Row, Gates, ReviewGates, FailedGates

(* The initial state satisfies the inductive invariant.                    *)
LEMMA DeliveryInit == Init => DeliveryInv /\ LoadedIsCurrent
<1> SUFFICES ASSUME Init PROVE DeliveryInv /\ LoadedIsCurrent
  OBVIOUS
<1>1. create_task \in Row /\ create_task.callback = "null" /\ create_task.callbackAttempts = 0
  BY CreateTyped DEF create_task, NoRow
<1>2. TypeOK
  BY <1>1 DEF Init, TypeOK, Idle, Daemon, Pcs
<1>3. AttemptsBounded /\ DigestIsHeard /\ ScheduledHasBudget
  BY <1>1 DEF Init, AttemptsBounded, DigestIsHeard, ScheduledHasBudget
<1>4. InHandIsScheduled /\ ConfirmedIsHeard /\ LoadedIsCurrent
  BY DEF Init, Idle, InHandIsScheduled, ConfirmedIsHeard, LoadedIsCurrent, InHand, Loaded
<1>5. QED
  BY <1>2, <1>3, <1>4 DEF DeliveryInv

-----------------------------------------------------------------------------
(* What a step does to the row.                                            *)

(* Writers other than a delivery either schedule the callback of a new     *)
(* verdict or leave the callback columns alone.                            *)
RowKept ==
  /\ row' \in Row
  /\ row'.callback = row.callback /\ row'.callbackAttempts = row.callbackAttempts
  /\ row'.digest = row.digest
  /\ row'.gate = row.gate \/ row'.gate \notin ReviewGates

RowScheduled ==
  row' \in Row /\ row'.callback = "retrying" /\ row'.callbackAttempts = 0

(* An outcome with a callback target schedules the callback.               *)
LEMMA OutcomeSchedules ==
  ASSUME row \in Row, NEW status \in Terminal, NEW gate \in Gates,
         row' = update_task_outcome(row, TRUE, status, gate)
  PROVE  RowScheduled /\ row'.gate = gate
<1>1. TRUE \in BOOLEAN
  OBVIOUS
<1>2. row' \in Row
  BY <1>1, OutcomeTyped, Zenon
<1>3. row'.callback = "retrying" /\ row'.callbackAttempts = 0 /\ row'.gate = gate
  BY DEF update_task_outcome, Row
<1>4. QED
  BY <1>2, <1>3 DEF RowScheduled

(* Every step that is not a delivery does one or the other to the row.     *)
LEMMA ReviewOnRow ==
  ASSUME TypeOK, NEW d \in Daemons
  PROVE  /\ Claim(d) \/ RecoverStale(d) \/ Halt(d) => RowKept
         /\ \A gate \in ReviewGates \cup FailedGates : Verdict(d, gate) => RowScheduled
<1>1. row \in Row
  BY DEF TypeOK
<1>2. ASSUME NEW s \in {claim_task(row, d), recover_row(row, MaxAttempts), cancel_row(row),
                        stop_row(row)},
             row' = s
      PROVE  RowKept
  <2>1. row' \in Row
    BY <1>1, <1>2, ClaimTyped, RecoverTyped, OperatorTyped
  <2>2. /\ s.callback = row.callback /\ s.callbackAttempts = row.callbackAttempts
        /\ s.digest = row.digest
        /\ s.gate = row.gate \/ s.gate \notin ReviewGates
    BY <1>1, OtherColumns
  <2>3. QED
    BY <1>2, <2>1, <2>2 DEF RowKept
<1>3. Claim(d) \/ RecoverStale(d) \/ Halt(d) => RowKept
  BY <1>2 DEF Claim, RecoverStale, Halt
<1>4. ASSUME NEW gate \in ReviewGates \cup FailedGates, Verdict(d, gate) PROVE RowScheduled
  <2> DEFINE status == IF gate \in ReviewGates THEN "success" ELSE "failed"
  <2>1. status \in Terminal /\ gate \in Gates
    BY DEF Terminal, Gates
  <2>2. row' = update_task_outcome(row, TRUE, status, gate)
    BY <1>4 DEF Verdict
  <2> HIDE DEF status
  <2>3. QED
    BY <1>1, <2>1, <2>2, OutcomeSchedules
<1>5. QED
  BY <1>3, <1>4

(* Operators and time leave the callback alone; an acknowledgement         *)
(* schedules one.                                                          *)
LEMMA OutsiderOnRow ==
  ASSUME TypeOK
  PROVE  /\ Cancel \/ Requeue \/ RetryTimeComes => RowKept
         /\ Acknowledge => RowScheduled
<1>1. row \in Row
  BY DEF TypeOK
<1>2. Cancel \/ Requeue => RowKept
  <2>1. cancel_row(row) \in Row /\ requeue_row(row) \in Row
    BY <1>1, OperatorTyped
  <2>2. Cancel => RowKept
    BY <1>1, <2>1 DEF Cancel, RowKept, cancel_row, Row, ReviewGates
  <2>3. Requeue => RowKept
    BY <1>1, <2>1 DEF Requeue, RowKept, requeue_row, Row, ReviewGates
  <2>4. QED
    BY <2>2, <2>3
<1>3. RetryTimeComes => RowKept
  BY <1>1 DEF RetryTimeComes, RowKept, Row
<1>4. ASSUME Acknowledge PROVE RowScheduled
  <2>1. "success" \in Terminal /\ "passed" \in Gates
    BY DEF Terminal, Gates, ReviewGates
  <2>2. row' = update_task_outcome(row, TRUE, "success", "passed")
    BY <1>4 DEF Acknowledge
  <2>3. QED
    BY <1>1, <2>1, <2>2, OutcomeSchedules
<1>5. QED
  BY <1>2, <1>3, <1>4

-----------------------------------------------------------------------------
(* What a step does to a daemon.                                           *)

(* A daemon goes idle, or moves to a program counter and keeps the rest.   *)
LEMMA DaemonTyped ==
  ASSUME TypeOK, NEW d \in Daemons, NEW pc \in Pcs,
         daemon' \in {daemon, [daemon EXCEPT ![d] = Idle], [daemon EXCEPT ![d].pc = pc]}
  PROVE  daemon' \in [Daemons -> Daemon]
<1>1. Idle \in Daemon
  BY DEF Idle, Daemon, Pcs
<1>2. daemon \in [Daemons -> Daemon]
  BY DEF TypeOK
<1>3. [daemon[d] EXCEPT !.pc = pc] \in Daemon
  BY <1>2, Zenon DEF Daemon
<1>4. [daemon EXCEPT ![d] = Idle] \in [Daemons -> Daemon]
  BY <1>1, <1>2, Zenon
<1>5. [daemon EXCEPT ![d].pc = pc] \in [Daemons -> Daemon]
  BY <1>2, <1>3, Zenon
<1>6. QED
  BY <1>2, <1>4, <1>5, Zenon

(* A failed post counts a try.                                             *)
LEMMA TryTyped ==
  ASSUME TypeOK, NEW d \in Daemons, NEW pc \in Pcs
  PROVE  [daemon EXCEPT ![d].pc = pc, ![d].tries = @ + 1] \in [Daemons -> Daemon]
<1>1. daemon \in [Daemons -> Daemon]
  BY DEF TypeOK
<1>2. daemon[d].tries + 1 \in Nat
  BY <1>1 DEF Daemon
<1>3. [daemon[d] EXCEPT !.pc = pc, !.tries = @ + 1] \in Daemon
  BY <1>1, <1>2, Zenon DEF Daemon
<1>4. QED
  BY <1>1, <1>3, Zenon

(* Every step keeps every variable well typed.                             *)
LEMMA DeliveryTyped == TypeOK /\ [Next]_vars => TypeOK'
<1> SUFFICES ASSUME TypeOK, [Next]_vars PROVE TypeOK'
  OBVIOUS
<1>1. row \in Row
  BY DEF TypeOK
<1>p. {"review", "found", "hung", "load", "post", "confirm", "fail"} \subseteq Pcs
  BY DEF Pcs
<1>2. CASE UNCHANGED vars
  BY <1>2 DEF vars, TypeOK
<1>3. ASSUME NEW d \in Daemons, Deliver(d) PROVE TypeOK'
  <2>1. CASE ListDue(d) \/ Acknowledged(d)
    <3>1. daemon' \in [Daemons -> Daemon]
      <4>1. daemon' = [daemon EXCEPT ![d].pc = "load"] \/ daemon' = [daemon EXCEPT ![d].pc = "confirm"]
        BY <2>1, Zenon DEF ListDue, Acknowledged
      <4>2. QED
        BY <1>p, <4>1, DaemonTyped, Zenon
    <3>2. heard' \in Payloads \cup {"null"}
      BY <2>1 DEF ListDue, Acknowledged, TypeOK, Daemon
    <3>3. QED
      BY <2>1, <3>1, <3>2 DEF ListDue, Acknowledged, TypeOK, counters
  <2>2. CASE Load(d)
    <3> DEFINE next == [pc |-> "post", attempts |-> row.callbackAttempts,
                        payload |-> payload(row), tries |-> 0]
    <3>1. next \in Daemon
      BY <1>1, PayloadTyped DEF Row, Daemon, Pcs
    <3>2. daemon' = [daemon EXCEPT ![d] = IF already_delivered(row) THEN Idle ELSE next]
      BY <2>2 DEF Load
    <3> HIDE DEF next
    <3>3. Idle \in Daemon
      BY DEF Idle, Daemon, Pcs
    <3>4. daemon \in [Daemons -> Daemon]
      BY DEF TypeOK
    <3>5. daemon' \in [Daemons -> Daemon]
      BY <3>1, <3>2, <3>3, <3>4, Zenon
    <3>6. QED
      BY <2>2, <3>5 DEF Load, TypeOK, counters
  <2>3. CASE Unacknowledged(d)
    <3>1. daemon' \in [Daemons -> Daemon]
      <4> DEFINE pc == IF daemon[d].tries + 1 = PostTries THEN "fail" ELSE "post"
      <4>1. pc \in Pcs
        BY <1>p
      <4>2. daemon' = [daemon EXCEPT ![d].pc = pc, ![d].tries = @ + 1]
        BY <2>3 DEF Unacknowledged
      <4> HIDE DEF pc
      <4>3. QED
        BY <4>1, <4>2, TryTyped
    <3>2. heard' \in Payloads \cup {"null"}
      BY <2>3 DEF Unacknowledged, TypeOK, Daemon
    <3>3. QED
      BY <2>3, <3>1, <3>2 DEF Unacknowledged, TypeOK, counters
  <2>4. CASE Record(d)
    <3>1. /\ daemon[d].attempts + 1 \in Nat /\ daemon[d].payload \in Gates
          /\ "null" \in Gates /\ {"succeeded", "failed", "retrying"} \subseteq CallbackStates
      BY DEF TypeOK, Daemon, Payloads, Gates, CallbackStates
    <3>2. row' \in Row
      BY <1>1, <2>4, <3>1, CallbackTyped DEF Record, Confirm, RecordFailure
    <3>3. daemon' \in [Daemons -> Daemon]
      <4>1. daemon' = [daemon EXCEPT ![d] = Idle]
        BY <2>4, Zenon DEF Record, Confirm, RecordFailure
      <4>2. QED
        BY <1>p, <4>1, DaemonTyped, Zenon
    <3>4. QED
      BY <2>4, <3>2, <3>3 DEF Record, Confirm, RecordFailure, TypeOK, counters
  <2>5. QED
    BY <1>3, <2>1, <2>2, <2>3, <2>4 DEF Deliver, Send
<1>4. ASSUME NEW d \in Daemons, Review(d) \/ PersistFindings(d) \/ Halt(d) \/ Hang(d) \/ Crash(d)
      PROVE  TypeOK'
  <2>1. CASE Review(d) \/ Halt(d)
    <3>1. row' \in Row
      BY <1>1, <2>1, ReviewOnRow DEF Review, RowKept, RowScheduled
    <3>2. daemon' \in [Daemons -> Daemon]
      <4>1. \/ daemon' = daemon \/ daemon' = [daemon EXCEPT ![d] = Idle]
            \/ daemon' = [daemon EXCEPT ![d].pc = "review"]
        BY <2>1, Zenon DEF Review, Claim, RecoverStale, Verdict, Halt
      <4>2. QED
        BY <1>p, <4>1, DaemonTyped, Zenon
    <3>3. QED
      BY <2>1, <3>1, <3>2 DEF Review, Claim, RecoverStale, Verdict, Halt, TypeOK, counters
  <2>2. CASE PersistFindings(d) \/ Hang(d) \/ Crash(d)
    <3>1. daemon' \in [Daemons -> Daemon]
      <4>1. \/ daemon' = [daemon EXCEPT ![d].pc = "found"]
            \/ daemon' = [daemon EXCEPT ![d].pc = "hung"]
            \/ daemon' = [daemon EXCEPT ![d] = Idle]
        BY <2>2, Zenon DEF PersistFindings, Hang, Crash
      <4>2. QED
        BY <1>p, <4>1, DaemonTyped, Zenon
    <3>2. CASE PersistFindings(d) \/ Hang(d)
      BY <3>1, <3>2, Zenon DEF PersistFindings, Hang, TypeOK, counters
    <3>3. CASE Crash(d)
      BY <3>1, <3>3 DEF Crash, TypeOK
    <3>4. QED
      BY <2>2, <3>2, <3>3
  <2>3. QED
    BY <1>4, <2>1, <2>2
<1>5. CASE RetryTimeComes
  <2>1. row' \in Row
    BY <1>1, <1>5 DEF RetryTimeComes, Row
  <2>2. QED
    BY <1>5, <2>1 DEF RetryTimeComes, TypeOK, counters
<1>6. CASE Outsider
  <2>1. row' \in Row
    <3>1. CASE Acknowledge
      BY <3>1, OutsiderOnRow DEF RowScheduled
    <3>2. CASE Cancel \/ Requeue
      BY <3>2, OutsiderOnRow DEF RowKept
    <3>3. QED
      BY <1>6, <3>1, <3>2 DEF Outsider
  <2>2. acks' \in Nat /\ requeues' \in Nat /\ crashes' \in Nat
    <3>1. \/ UNCHANGED counters
          \/ requeues' = requeues + 1 /\ UNCHANGED <<acks, crashes>>
          \/ acks' = acks + 1 /\ UNCHANGED <<requeues, crashes>>
      BY <1>6, Zenon DEF Outsider, Cancel, Requeue, Acknowledge
    <3>2. acks \in Nat /\ requeues \in Nat /\ crashes \in Nat
      BY DEF TypeOK
    <3>3. QED
      BY <3>1, <3>2 DEF counters
  <2>3. QED
    BY <1>6, <2>1, <2>2, Zenon DEF Outsider, Cancel, Requeue, Acknowledge, TypeOK, counters
<1>7. QED
  BY <1>2, <1>3, <1>4, <1>5, <1>6 DEF Next

-----------------------------------------------------------------------------
(* The invariant, without the types; and what it adds while no finding is  *)
(* acknowledged.                                                           *)
Delivered ==
  /\ AttemptsBounded /\ DigestIsHeard
  /\ ScheduledHasBudget /\ InHandIsScheduled /\ ConfirmedIsHeard

Current == LoadedIsCurrent /\ ReviewReachesCI

\* The daemons that have a callback in hand after the step had it before.
HandsKept ==
  \A d \in Daemons : \/ daemon'[d] = daemon[d]
                     \/ daemon'[d].pc \in {"idle", "review", "found", "hung"}

(* A step that leaves the callback columns and CI alone, and puts no       *)
(* callback in hand, keeps everything.                                     *)
LEMMA KeptStep ==
  ASSUME TypeOK, Delivered, RowKept, HandsKept, heard' = heard
  PROVE  Delivered' /\ (Current => Current')
<1>1. \A d \in Daemons : InHand(d)' => InHand(d) /\ daemon'[d] = daemon[d]
  BY DEF HandsKept, InHand
<1>2. \A d \in Daemons : Loaded(d)' => Loaded(d) /\ daemon'[d] = daemon[d]
  BY DEF HandsKept, Loaded
<1>3. AttemptsBounded' /\ DigestIsHeard' /\ ScheduledHasBudget'
  BY DEF Delivered, RowKept, AttemptsBounded, DigestIsHeard, ScheduledHasBudget
<1>4. InHandIsScheduled'
  BY <1>1, <1>2 DEF Delivered, RowKept, InHandIsScheduled
<1>5. ConfirmedIsHeard'
  BY DEF Delivered, HandsKept, ConfirmedIsHeard
<1>6. row'.gate \in ReviewGates => row.gate \in ReviewGates /\ payload(row)' = payload(row)
  BY DEF RowKept, payload
<1>7. Current => Current'
  BY <1>2, <1>6 DEF Current, LoadedIsCurrent, ReviewReachesCI, RowKept
<1>8. QED
  BY <1>3, <1>4, <1>5, <1>7 DEF Delivered

(* So does a step that schedules a new callback with a fresh count; what   *)
(* is in hand is then current only if nothing is.                          *)
LEMMA ScheduledStep ==
  ASSUME TypeOK, Delivered, RowScheduled, HandsKept, heard' = heard
  PROVE  /\ Delivered'
         /\ (\A d \in Daemons : ~Loaded(d)') => Current'
<1>1. \A d \in Daemons : Loaded(d)' => Loaded(d) /\ daemon'[d] = daemon[d]
  BY DEF HandsKept, Loaded
<1>2. AttemptsBounded' /\ DigestIsHeard' /\ ScheduledHasBudget'
  BY DEF RowScheduled, AttemptsBounded, DigestIsHeard, ScheduledHasBudget
<1>3. InHandIsScheduled'
  BY <1>1 DEF Delivered, RowScheduled, InHandIsScheduled
<1>4. ConfirmedIsHeard'
  BY DEF Delivered, HandsKept, ConfirmedIsHeard
<1>5. (\A d \in Daemons : ~Loaded(d)') => Current'
  BY DEF Current, LoadedIsCurrent, ReviewReachesCI, RowScheduled
<1>6. QED
  BY <1>2, <1>3, <1>4, <1>5 DEF Delivered

(* Listing, loading and posting a callback: the row stays scheduled, so    *)
(* nothing is claimed of what CI heard until the post is confirmed.        *)
LEMMA PostStep ==
  ASSUME OneDaemon, TypeOK, Delivered, NEW d \in Daemons,
         ListDue(d) \/ Load(d) \/ Send(d)
  PROVE  Delivered' /\ (Current => Current')
<1>1. row' = row /\ row.callback = "retrying" /\ row.callbackAttempts < MaxCallbackAttempts
  BY DEF ListDue, Load, Send, Acknowledged, Unacknowledged, callback_is_due, Delivered,
         InHandIsScheduled, InHand, ScheduledHasBudget
<1>2. \A e \in Daemons : e = d
  BY DEF OneDaemon
<1>3. daemon \in [Daemons -> Daemon] /\ daemon[d] \in Daemon
  BY DEF TypeOK
<1>4. AttemptsBounded' /\ DigestIsHeard' /\ ScheduledHasBudget'
  BY <1>1 DEF Delivered, AttemptsBounded, DigestIsHeard, ScheduledHasBudget
<1>5. \/ daemon'[d].pc = "load"
      \/ daemon'[d].pc = "idle"
      \/ /\ daemon'[d].attempts = row.callbackAttempts
         /\ daemon'[d].payload = payload(row) /\ daemon'[d].pc = "post"
      \/ /\ Loaded(d)
         /\ daemon'[d].attempts = daemon[d].attempts
         /\ daemon'[d].payload = daemon[d].payload
         /\ daemon'[d].pc = "confirm" => heard' = daemon[d].payload
  <2>1. CASE ListDue(d)
    BY <1>3, <2>1 DEF ListDue, Daemon
  <2>2. CASE Load(d)
    BY <1>3, <2>2 DEF Load, Idle
  <2>3. CASE Acknowledged(d)
    BY <1>3, <2>3 DEF Acknowledged, Loaded, Daemon
  <2>4. CASE Unacknowledged(d)
    <3>1. \/ daemon' = [daemon EXCEPT ![d].pc = "fail", ![d].tries = @ + 1]
          \/ daemon' = [daemon EXCEPT ![d].pc = "post", ![d].tries = @ + 1]
      BY <2>4 DEF Unacknowledged
    <3>2. Loaded(d)
      BY <2>4 DEF Unacknowledged, Loaded
    <3>3. QED
      BY <1>3, <3>1, <3>2 DEF Daemon
  <2>5. QED
    BY <2>1, <2>2, <2>3, <2>4 DEF Send
<1>p. payload(row) \in Payloads
  BY PayloadTyped DEF TypeOK
<1>6. InHandIsScheduled' /\ ConfirmedIsHeard'
  BY <1>p, <1>1, <1>2, <1>5 DEF Delivered, InHandIsScheduled, ConfirmedIsHeard, InHand, Loaded
<1>7. ASSUME Current PROVE Current'
  <2>1. payload(row)' = payload(row)
    BY <1>1 DEF payload
  <2>2. LoadedIsCurrent'
    BY <1>1, <1>2, <1>5, <1>7, <2>1 DEF Current, LoadedIsCurrent, Loaded
  <2>3. QED
    BY <1>1, <2>2 DEF Current, ReviewReachesCI
<1>8. QED
  BY <1>4, <1>6, <1>7 DEF Delivered

(* Writing the result of a delivery back: its attempts were in budget, and *)
(* what it reports as delivered is what CI heard last.                     *)
LEMMA RecordStep ==
  ASSUME OneDaemon, TypeOK, Delivered, NEW d \in Daemons, Record(d)
  PROVE  Delivered' /\ (Current => Current')
<1>1. row \in Row /\ daemon \in [Daemons -> Daemon] /\ daemon[d] \in Daemon
  BY DEF TypeOK
<1>2. \A e \in Daemons : daemon'[e].pc = "idle"
  BY <1>1 DEF OneDaemon, Record, Confirm, RecordFailure, Idle
<1>3. daemon[d].attempts < MaxCallbackAttempts /\ daemon[d].attempts \in Nat
  BY <1>1 DEF Record, Confirm, RecordFailure, Delivered, InHandIsScheduled, Loaded, Daemon
<1>4. InHandIsScheduled' /\ ConfirmedIsHeard' /\ LoadedIsCurrent'
  BY <1>2 DEF InHandIsScheduled, ConfirmedIsHeard, LoadedIsCurrent, InHand, Loaded
<1>5. CASE Confirm(d)
  <2>1. daemon[d].payload \in Payloads /\ daemon[d].payload # "null" /\ heard = daemon[d].payload
    BY <1>5 DEF Confirm, Delivered, InHandIsScheduled, Loaded, ConfirmedIsHeard, Payloads
  <2>2. /\ row'.callback = "succeeded" /\ row'.callbackAttempts = daemon[d].attempts + 1
        /\ row'.digest = daemon[d].payload /\ row'.gate = row.gate
    BY <1>1, <1>5, <2>1 DEF Confirm, set_callback_state, Row
  <2>3. AttemptsBounded' /\ DigestIsHeard' /\ ScheduledHasBudget'
    BY <1>3, <1>5, <2>1, <2>2 DEF Confirm, AttemptsBounded, DigestIsHeard, ScheduledHasBudget
  <2>4. ASSUME Current PROVE ReviewReachesCI'
    <3>1. payload(row)' = payload(row)
      BY <2>2 DEF payload
    <3>2. QED
      BY <1>5, <2>1, <2>2, <2>4, <3>1 DEF Confirm, Current, LoadedIsCurrent, ReviewReachesCI, Loaded
  <2>5. QED
    BY <1>4, <2>3, <2>4 DEF Delivered, Current
<1>6. CASE RecordFailure(d)
  <2>1. PICK state \in {"failed", "retrying"} :
          /\ row' = set_callback_state(row, state, daemon[d].attempts + 1, "null")
          /\ state = "retrying" => daemon[d].attempts + 1 < MaxCallbackAttempts
    <3>1. CASE daemon[d].attempts + 1 >= MaxCallbackAttempts
      BY <1>6, <3>1 DEF RecordFailure
    <3>2. CASE ~(daemon[d].attempts + 1 >= MaxCallbackAttempts)
      BY <1>3, <1>6, <3>2 DEF RecordFailure
    <3>3. QED
      BY <3>1, <3>2
  <2>2. row'.callback = state /\ row'.callbackAttempts = daemon[d].attempts + 1
    BY <1>1, <2>1 DEF set_callback_state, Row
  <2>3. /\ AttemptsBounded' /\ DigestIsHeard' /\ ScheduledHasBudget'
        /\ ReviewReachesCI'
    BY <1>3, <2>1, <2>2 DEF AttemptsBounded, DigestIsHeard, ScheduledHasBudget, ReviewReachesCI
  <2>4. QED
    BY <1>4, <2>3 DEF Delivered, Current
<1>7. QED
  BY <1>5, <1>6 DEF Record

-----------------------------------------------------------------------------
(* Every step of one daemon and of the others keeps the invariant, and     *)
(* what it adds unless a finding can be acknowledged.                      *)
LEMMA DeliveryStep ==
  ASSUME OneDaemon, TypeOK, Delivered, [Next]_vars
  PROVE  Delivered' /\ (MaxAcks = 0 /\ Current => Current')
<1>1. daemon \in [Daemons -> Daemon] /\ acks \in Nat
  BY DEF TypeOK
<1>2. CASE UNCHANGED vars
  BY <1>2 DEF vars, Delivered, Current, AttemptsBounded, DigestIsHeard, ScheduledHasBudget,
              InHandIsScheduled, ConfirmedIsHeard, InHand, Loaded, LoadedIsCurrent,
              ReviewReachesCI, payload
<1>3. ASSUME NEW d \in Daemons, Deliver(d) PROVE Delivered' /\ (Current => Current')
  BY <1>3, PostStep, RecordStep DEF Deliver
<1>4. ASSUME NEW d \in Daemons, Claim(d) \/ RecoverStale(d) \/ Halt(d)
      PROVE  Delivered' /\ (Current => Current')
  <2>1. RowKept
    BY <1>4, ReviewOnRow
  <2>2. HandsKept /\ heard' = heard
    BY <1>1, <1>4 DEF Claim, RecoverStale, Halt, HandsKept, Idle, Daemon
  <2>3. QED
    BY <2>1, <2>2, KeptStep
<1>5. ASSUME NEW d \in Daemons, PersistFindings(d) \/ Hang(d) \/ Crash(d)
      PROVE  Delivered' /\ (Current => Current')
  <2>1. RowKept
    BY <1>5 DEF PersistFindings, Hang, Crash, RowKept, TypeOK
  <2>2. HandsKept /\ heard' = heard
    BY <1>1, <1>5 DEF PersistFindings, Hang, Crash, HandsKept, Idle, Daemon
  <2>3. QED
    BY <2>1, <2>2, KeptStep
<1>6. ASSUME NEW d \in Daemons, NEW gate \in ReviewGates \cup FailedGates, Verdict(d, gate)
      PROVE  Delivered' /\ Current'
  <2>1. RowScheduled
    BY <1>6, ReviewOnRow
  <2>2. HandsKept /\ heard' = heard /\ \A e \in Daemons : ~Loaded(e)'
    BY <1>1, <1>6 DEF Verdict, HandsKept, Idle, Loaded, OneDaemon
  <2>3. QED
    BY <2>1, <2>2, ScheduledStep
<1>7. CASE Cancel \/ Requeue \/ RetryTimeComes
  <2>1. RowKept
    BY <1>7, OutsiderOnRow
  <2>2. HandsKept /\ heard' = heard
    BY <1>7 DEF Cancel, Requeue, RetryTimeComes, HandsKept
  <2>3. QED
    BY <2>1, <2>2, KeptStep
<1>8. CASE Acknowledge
  <2>1. RowScheduled
    BY <1>8, OutsiderOnRow
  <2>2. HandsKept /\ heard' = heard
    BY <1>8 DEF Acknowledge, HandsKept
  <2>3. MaxAcks # 0
    BY <1>1, <1>8 DEF Acknowledge
  <2>4. QED
    BY <2>1, <2>2, <2>3, ScheduledStep
<1>9. QED
  BY <1>2, <1>3, <1>4, <1>5, <1>6, <1>7, <1>8 DEF Next, Review, Outsider

(* With one daemon every bound keeps the inductive invariant.              *)
THEOREM DeliveryInvCorrect == ASSUME OneDaemon PROVE Spec => []DeliveryInv
<1>1. Init => DeliveryInv
  BY DeliveryInit
<1>2. DeliveryInv /\ [Next]_vars => DeliveryInv'
  BY DeliveryTyped, DeliveryStep DEF DeliveryInv, Delivered
<1>3. QED
  BY <1>1, <1>2, PTL DEF Spec

(* With one daemon the row, the daemon and what CI heard keep their types, *)
(* whatever deliveries, reviews and operators write to them.               *)
THEOREM TypeCorrect == ASSUME OneDaemon PROVE Spec => []TypeOK
<1>1. DeliveryInv => TypeOK
  BY DEF DeliveryInv
<1>2. QED
  BY <1>1, DeliveryInvCorrect, PTL

(* With one daemon no callback is retried beyond its budget.               *)
THEOREM AttemptsCorrect == ASSUME OneDaemon PROVE Spec => []AttemptsBounded
<1>1. DeliveryInv => AttemptsBounded
  BY DEF DeliveryInv
<1>2. QED
  BY <1>1, DeliveryInvCorrect, PTL

(* With one daemon the digest of a succeeded callback is what CI heard.    *)
THEOREM DigestCorrect == ASSUME OneDaemon PROVE Spec => []DigestIsHeard
<1>1. DeliveryInv => DigestIsHeard
  BY DEF DeliveryInv
<1>2. QED
  BY <1>1, DeliveryInvCorrect, PTL

(* With one daemon, and no acknowledgement, a succeeded callback of a      *)
(* reviewed task told CI the verdict in the row.                           *)
THEOREM ReviewReachesCICorrect ==
  ASSUME OneDaemon, MaxAcks = 0 PROVE Spec => []ReviewReachesCI
<1>1. Init => DeliveryInv /\ Current
  <2>1. Init => row.callback = "null"
    BY DEF Init, create_task, NoRow
  <2>2. QED
    BY <2>1, DeliveryInit DEF Current, ReviewReachesCI
<1>2. DeliveryInv /\ Current /\ [Next]_vars => (DeliveryInv /\ Current)'
  BY DeliveryTyped, DeliveryStep DEF DeliveryInv, Delivered
<1>3. Current => ReviewReachesCI
  BY DEF Current
<1>4. QED
  BY <1>1, <1>2, <1>3, PTL DEF Spec
=============================================================================
