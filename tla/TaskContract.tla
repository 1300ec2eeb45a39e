---------------------------- MODULE TaskContract ----------------------------
(***************************************************************************)
(* What the v2 queue promises of a review task, without rows, leases,      *)
(* controls or program counters: a task is handed to a daemon only from    *)
(* the queue; each hand-out ends in at most one verdict; recovery spends   *)
(* at most MaxAttempts hand-outs; besides the verdicts of its executions,  *)
(* a task is ended only by recovery, by an operator, or, once findings     *)
(* exist, by their acknowledgement.  TaskLifecycle implements this.        *)
(***************************************************************************)
EXTENDS Naturals

CONSTANTS Tasks, Daemons, MaxAttempts

VARIABLES phase,      \* the status of each task
          handouts,   \* how often each task was handed to a daemon
          executors,  \* the daemons executing each task
          found       \* the tasks an execution has found something in

vars == <<phase, handouts, executors, found>>

Init ==
  /\ phase = [t \in Tasks |-> "absent"]
  /\ handouts = [t \in Tasks |-> 0]
  /\ executors = [t \in Tasks |-> {}]
  /\ found = {}

Exists(t) == phase[t] # "absent"

Become(t, p) == phase' = [phase EXCEPT ![t] = p]
Release(t, d) == /\ d \in executors[t]
                 /\ executors' = [executors EXCEPT ![t] = @ \ {d}]

Submit(t) ==
  /\ ~Exists(t)
  /\ Become(t, "queued")
  /\ UNCHANGED <<handouts, executors, found>>

HandOut(t, d) ==
  /\ phase[t] = "queued"
  /\ \A u \in Tasks : d \notin executors[u]
  /\ Become(t, "running")
  /\ handouts' = [handouts EXCEPT ![t] = @ + 1]
  /\ executors' = [executors EXCEPT ![t] = @ \cup {d}]
  /\ UNCHANGED found

Find(t, d) ==
  /\ d \in executors[t]
  /\ found' = found \cup {t}
  /\ UNCHANGED <<phase, handouts, executors>>

Verdict(t, d) ==
  /\ \E p \in {"success", "failed"} : Become(t, p)
  /\ Release(t, d)
  /\ UNCHANGED <<handouts, found>>

Halt(t, d) ==
  /\ Become(t, "cancelled")
  /\ Release(t, d)
  /\ UNCHANGED <<handouts, found>>

Abandon(t, d) ==
  /\ Release(t, d)
  /\ UNCHANGED <<phase, handouts, found>>

Recover(S) ==
  /\ \A t \in S : phase[t] = "running"
  /\ phase' = [t \in Tasks |-> IF t \notin S THEN phase[t]
                               ELSE IF handouts[t] >= MaxAttempts THEN "failed"
                               ELSE "queued"]
  /\ UNCHANGED <<handouts, executors, found>>

Operate(t) ==
  /\ Exists(t)
  /\ \E p \in {"queued", "cancelled"} : Become(t, p)
  /\ UNCHANGED <<handouts, executors, found>>

Acknowledge(t) ==
  /\ t \in found
  /\ Become(t, "success")
  /\ UNCHANGED <<handouts, executors, found>>

Execute(t, d) == Find(t, d) \/ Verdict(t, d) \/ Halt(t, d) \/ Abandon(t, d)

Next ==
  \/ \E t \in Tasks : Submit(t) \/ Operate(t) \/ Acknowledge(t)
  \/ \E t \in Tasks, d \in Daemons : HandOut(t, d) \/ Execute(t, d)
  \/ \E S \in SUBSET Tasks : Recover(S)

Spec == Init /\ [][Next]_vars
=============================================================================
