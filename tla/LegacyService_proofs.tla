------------------------ MODULE LegacyService_proofs ------------------------
(***************************************************************************)
(* Proofs about LegacyService, for any number of tasks, worker threads,    *)
(* attempts and restarts.                                                  *)
(*                                                                         *)
(* A step is one of one thread on one task, so the invariant is stated for *)
(* each thread and for each task, and a step has to keep it for those two. *)
(* Crashes and restarts are the exception: they touch everything, but they *)
(* leave little to say about it.                                           *)
(***************************************************************************)
EXTENDS LegacyService, FiniteSetTheorems, TLAPS

-----------------------------------------------------------------------------
(* The inductive invariant.                                                *)

AfterWorkerSave == {"checkout", "analyse", "callback", "enqueue", "unmark"}

\* Where a thread can be: it has a task unless it waits or is dead, and knows
\* where to go on after a save.  The sweep counts what it is about to queue.
threadInv(p) ==
  LET v == thread[p] IN
  /\ v.task = NoTask <=> v.pc \in {"idle", "dead"}
  /\ v.pc \notin {"save", "write"} => v.then = "idle"
  /\ p \in Workers =>
       /\ v.pc \notin Sweeping \cup {"dead"}
       /\ v.pc \in {"save", "write"} => v.then \in AfterWorkerSave
  /\ p = Sweeper =>
       /\ v.pc \in Sweeping \cup {"idle", "enqueue", "dead", "save", "write"}
       /\ v.pc \in {"save", "write"} => v.then \in {"idle", "enqueue"}
       /\ "enqueue" \in {v.pc, v.then} => sweeps[v.task] # 0

\* A task is on the disk exactly if it is known, unless it was deleted, and
\* nobody has anything to do with one that is not known or gone.
known(t) ==
  /\ t \notin deleted => (listed(t) <=> record[t].status \notin {"absent", "gone"})
  /\ record[t].status \in {"absent", "gone"} => queue[t] = 0 /\ \A p \in Threads : mine(p) # t

\* The file of a deleted task is gone, unless a thread that had passed its check
\* before writes it.
gone(t) ==
  /\ t \in deleted \ raced => ~listed(t)
  /\ t \in deleted => disk[t].status # "absent"
  /\ \A p \in Threads : thread[p].pc = "write" /\ mine(p) = t /\ t \in deleted => t \in raced

\* What is queued has an attempt left, in memory and on the disk.
attemptsLeft(t) ==
  /\ record[t].status = "queued" => record[t].attempts < MaxAttempts + sweeps[t]
  /\ disk[t].status = "queued" => disk[t].attempts < MaxAttempts + sweeps[t]
  /\ disk[t].attempts <= MaxAttempts + sweeps[t]

\* Threads that run t or will, up to the end of the callback, and threads whose
\* work on it will cost an attempt.
holds(p, v) == IF p = Sweeper THEN "enqueue" \in {v.pc, v.then} ELSE v.pc # "unmark"
claims(p, v) == "enqueue" \in {v.pc, v.then} \/ (p \in Workers /\ v.pc = "picked")
holders(t) == {p \in Threads : mine(p) = t /\ holds(p, thread[p])}
claimants(t) == {p \in Threads : mine(p) = t /\ claims(p, thread[p])}

\* What is queued is in the queue or in some hands, but for the exceptions.
served(t) ==
  up /\ t \notin deleted \cup refused /\ listed(t) /\ record[t].status = "queued" =>
    queue[t] > 0 \/ \E p \in Threads : mine(p) = t /\ claims(p, thread[p])

paid(t) ==
  /\ queue[t] + Cardinality(holders(t)) <= 1 + sweeps[t]
  /\ record[t].attempts + queue[t] + Cardinality(claimants(t)) <= MaxAttempts + sweeps[t]

\* w has a verdict on t that CI has not been told.
callsBack(w, t) == mine(w) = t /\ "callback" \in {thread[w].pc, thread[w].then}

\* Of a task that the sweep left alone: a worker with a verdict has ended it,
\* as a success only if the verdict is one;
verdictIsKnown(t) ==
  sweeps[t] = 0 => \A w \in Workers : callsBack(w, t) =>
    /\ record[t].status \in Finished
    /\ record[t].status = "success" => thread[w].verdict = "passed"

\* what was told is over;
toldIsOver(t) ==
  sweeps[t] = 0 =>
    /\ record[t].told # "none" =>
         /\ record[t].status \in Finished /\ queue[t] = 0
         /\ \A w \in Workers : mine(w) = t => "unmark" \in {thread[w].pc, thread[w].then}
    /\ disk[t].told # "none" => disk[t].status \in Finished

\* a success has been told, or some worker is about to tell it;
successIsHeard(t) ==
  t \notin deleted \cup raced \cup untold /\ sweeps[t] = 0 /\ record[t].status = "success" =>
    heard[t] = "passed" \/ \E w \in Workers : callsBack(w, t)

\* and so has one on the disk, or some worker is not through with its callback.
savedIsHeard(t) ==
  t \notin deleted \cup raced \cup untold /\ sweeps[t] = 0 /\ disk[t].status = "success" =>
    heard[t] = "passed" \/ \E w \in Workers :
      callsBack(w, t) \/ (mine(w) = t /\ thread[w].then = "unmark")

told(t) == verdictIsKnown(t) /\ toldIsOver(t) /\ successIsHeard(t) /\ savedIsHeard(t)

taskInv(t) ==
  known(t) /\ served(t) /\ gone(t) /\ attemptsLeft(t) /\ paid(t) /\ told(t)

\* While the process is down there are the files only.
DownIsEmpty ==
  ~up => /\ \A p \in Threads : thread[p] = Idle
         /\ deleted = {} /\ deleting = {}

Inv == /\ TypeOK
       /\ DownIsEmpty
       /\ \A p \in Threads : threadInv(p)
       /\ \A t \in Tasks : taskInv(t)

-----------------------------------------------------------------------------
(* What a step counts, and what it leaves alone.                           *)

(* What differs in one thread at most changes the count of the threads     *)
(* with some property by one at most.                                      *)
LEMMA OneThread ==
  ASSUME NEW S, NEW T, NEW p, IsFiniteSet(S), S \ {p} = T \ {p}
  PROVE  /\ IsFiniteSet(T) /\ Cardinality(S) \in Nat /\ Cardinality(T) \in Nat
         /\ (p \in S <=> p \in T) => Cardinality(T) = Cardinality(S)
         /\ p \notin S /\ p \in T => Cardinality(T) = Cardinality(S) + 1
         /\ p \in S /\ p \notin T => Cardinality(T) = Cardinality(S) - 1
<1>1. CASE p \in S <=> p \in T
  <2>1. S = T
    BY <1>1
  <2> QED BY <1>1, <2>1, FS_CardinalityType
<1>2. CASE p \notin S /\ p \in T
  <2>1. T = S \cup {p}
    BY <1>2
  <2> QED BY <1>2, <2>1, FS_AddElement, FS_CardinalityType
<1>3. CASE p \in S /\ p \notin T
  <2>1. T = S \ {p}
    BY <1>3
  <2> QED BY <1>3, <2>1, FS_RemoveElement, FS_CardinalityType
<1> QED BY <1>1, <1>2, <1>3

(* The threads that hold a task or will run it can be counted.             *)
LEMMA FiniteThreads ==
  /\ IsFiniteSet(Threads)
  /\ \A t : IsFiniteSet(holders(t)) /\ IsFiniteSet(claimants(t))
<1>1. IsFiniteSet(Threads)
  BY ServiceAssumption, FS_AddElement DEF Threads
<1>2. \A t : holders(t) \in SUBSET Threads /\ claimants(t) \in SUBSET Threads
  BY DEF holders, claimants
<1> QED BY <1>1, <1>2, FS_Subset

(* The counts of t after a step of the thread p.                           *)
LEMMA CountsOfAStep ==
  ASSUME NEW t, NEW p \in Threads, \A q \in Threads \ {p} : thread'[q] = thread[q]
  PROVE  /\ Cardinality(holders(t)) \in Nat /\ Cardinality(holders(t)') \in Nat
         /\ (p \in holders(t) <=> p \in holders(t)') =>
              Cardinality(holders(t)') = Cardinality(holders(t))
         /\ p \notin holders(t) /\ p \in holders(t)' =>
              Cardinality(holders(t)') = Cardinality(holders(t)) + 1
         /\ p \in holders(t) /\ p \notin holders(t)' =>
              Cardinality(holders(t)') = Cardinality(holders(t)) - 1
         /\ Cardinality(claimants(t)) \in Nat /\ Cardinality(claimants(t)') \in Nat
         /\ (p \in claimants(t) <=> p \in claimants(t)') =>
              Cardinality(claimants(t)') = Cardinality(claimants(t))
         /\ p \notin claimants(t) /\ p \in claimants(t)' =>
              Cardinality(claimants(t)') = Cardinality(claimants(t)) + 1
         /\ p \in claimants(t) /\ p \notin claimants(t)' =>
              Cardinality(claimants(t)') = Cardinality(claimants(t)) - 1
<1>1. holders(t) \ {p} = holders(t)' \ {p}
  BY DEF holders, mine
<1>2. claimants(t) \ {p} = claimants(t)' \ {p}
  BY DEF claimants, mine
<1>3. IsFiniteSet(holders(t)) /\ IsFiniteSet(claimants(t))
  BY FiniteThreads
<1> DEFINE H == holders(t)  G == holders(t)'  C == claimants(t)  D == claimants(t)'
<1> HIDE DEF H, G, C, D
<1>4. /\ Cardinality(H) \in Nat /\ Cardinality(G) \in Nat
      /\ (p \in H <=> p \in G) => Cardinality(G) = Cardinality(H)
      /\ p \notin H /\ p \in G => Cardinality(G) = Cardinality(H) + 1
      /\ p \in H /\ p \notin G => Cardinality(G) = Cardinality(H) - 1
  BY <1>1, <1>3, OneThread DEF H, G
<1>5. /\ Cardinality(C) \in Nat /\ Cardinality(D) \in Nat
      /\ (p \in C <=> p \in D) => Cardinality(D) = Cardinality(C)
      /\ p \notin C /\ p \in D => Cardinality(D) = Cardinality(C) + 1
      /\ p \in C /\ p \notin D => Cardinality(D) = Cardinality(C) - 1
  BY <1>2, <1>3, OneThread DEF C, D
<1> QED BY <1>4, <1>5 DEF H, G, C, D

(* Without a sweep, a worker that holds a task is alone with it.           *)
LEMMA Alone ==
  ASSUME Inv, NEW t \in Tasks, sweeps[t] = 0, NEW w \in holders(t)
  PROVE  queue[t] = 0 /\ \A q \in holders(t) : q = w
<1>1. queue[t] \in Nat /\ queue[t] + Cardinality(holders(t)) <= 1
  BY DEF Inv, TypeOK, taskInv, paid
<1>2. IsFiniteSet(holders(t)) /\ Cardinality(holders(t)) \in Nat
  BY FiniteThreads, FS_CardinalityType
<1>3. /\ Cardinality(holders(t) \ {w}) = Cardinality(holders(t)) - 1
      /\ IsFiniteSet(holders(t) \ {w})
  BY <1>2, FS_RemoveElement
<1>4. Cardinality(holders(t) \ {w}) \in Nat
  BY <1>3, FS_CardinalityType
<1>5. queue[t] = 0 /\ Cardinality(holders(t) \ {w}) = 0
  BY <1>1, <1>2, <1>3, <1>4
<1>6. holders(t) \ {w} = {}
  BY <1>3, <1>5, FS_EmptySet
<1> QED BY <1>5, <1>6

(* A worker that runs t, and will not start it again, leaves an attempt    *)
(* for each sweep to the others.                                           *)
LEMMA RunnerIsPaid ==
  ASSUME Inv, NEW t \in Tasks, NEW w \in holders(t), w \notin claimants(t)
  PROVE  queue[t] + Cardinality(claimants(t)) <= sweeps[t]
<1>1. /\ queue[t] \in Nat /\ sweeps[t] \in Nat
      /\ queue[t] + Cardinality(holders(t)) <= 1 + sweeps[t]
  BY DEF Inv, TypeOK, taskInv, paid
<1>2. IsFiniteSet(holders(t)) /\ Cardinality(holders(t)) \in Nat
  BY FiniteThreads, FS_CardinalityType
<1>3. /\ Cardinality(holders(t) \ {w}) = Cardinality(holders(t)) - 1
      /\ IsFiniteSet(holders(t) \ {w})
  BY <1>2, FS_RemoveElement
<1>4. claimants(t) \in SUBSET (holders(t) \ {w})
  BY DEF Inv, threadInv, claimants, holders, claims, holds, Threads
<1>5. Cardinality(claimants(t)) <= Cardinality(holders(t) \ {w}) /\ Cardinality(claimants(t)) \in Nat
  BY <1>3, <1>4, FS_Subset, FiniteThreads, FS_CardinalityType
<1> QED BY <1>1, <1>2, <1>3, <1>5

\* A step that is about t.
touchesOnly(t) ==
  /\ up' = up
  /\ \A u \in Tasks \ {t} :
       /\ record'[u] = record[u] /\ disk'[u] = disk[u] /\ queue'[u] = queue[u]
       /\ heard'[u] = heard[u] /\ sweeps'[u] = sweeps[u]
       /\ (u \in deleted' <=> u \in deleted) /\ (u \in refused' <=> u \in refused)
       /\ (u \in raced' <=> u \in raced) /\ (u \in untold' <=> u \in untold)
  /\ \A q \in Threads : thread'[q] = thread[q]
       \/ (thread[q].task \in {t, NoTask} /\ thread'[q].task \in {t, NoTask})

(* It keeps what holds of the other tasks.                                 *)
LEMMA Elsewhere ==
  ASSUME Inv, NEW t \in Tasks, touchesOnly(t), NEW u \in Tasks \ {t}
  PROVE  taskInv(u)'
<1>1. taskInv(u)
  BY DEF Inv
<1>2. \A q \in Threads : thread'[q] = thread[q] \/ (thread[q].task # u /\ thread'[q].task # u)
  BY ServiceAssumption DEF touchesOnly
<1>3. /\ record'[u] = record[u] /\ disk'[u] = disk[u] /\ queue'[u] = queue[u]
      /\ heard'[u] = heard[u] /\ sweeps'[u] = sweeps[u] /\ up' = up
      /\ (u \in deleted' <=> u \in deleted) /\ (u \in refused' <=> u \in refused)
      /\ (u \in raced' <=> u \in raced) /\ (u \in untold' <=> u \in untold)
  BY DEF touchesOnly
<1>4. Workers \subseteq Threads
  BY DEF Threads
<1>5. known(u)'
  BY <1>1, <1>2, <1>3 DEF taskInv, known, listed, mine
<1>6. served(u)'
  BY <1>1, <1>2, <1>3 DEF taskInv, served, listed, mine
<1>7. gone(u)'
  BY <1>1, <1>2, <1>3 DEF taskInv, gone, listed, mine
<1>8. attemptsLeft(u)'
  BY <1>1, <1>3 DEF taskInv, attemptsLeft
<1>9. paid(u)'
  <2>1. holders(u)' = holders(u) /\ claimants(u)' = claimants(u)
    BY <1>2 DEF holders, claimants, mine
  <2> QED BY <1>1, <1>3, <2>1 DEF taskInv, paid
<1>10. told(u)'
  BY <1>1, <1>2, <1>3, <1>4 DEF taskInv, told, verdictIsKnown, toldIsOver, successIsHeard,
                                savedIsHeard, callsBack, mine
<1> QED BY <1>5, <1>6, <1>7, <1>8, <1>9, <1>10 DEF taskInv

-----------------------------------------------------------------------------
(* The steps of one thread on one task.                                    *)

(* A step about t keeps the invariant if it does so for t and for the      *)
(* threads.                                                                *)
LEMMA StepAboutATask ==
  ASSUME Inv, NEW t \in Tasks, touchesOnly(t), up,
         TypeOK', \A p \in Threads : threadInv(p)', taskInv(t)'
  PROVE  Inv'
<1>1. up'
  BY DEF touchesOnly
<1>2. \A u \in Tasks : taskInv(u)'
  BY Elsewhere
<1> QED BY <1>1, <1>2 DEF Inv, DownIsEmpty

(* A thread that is not idle has a task and lives in a process that does.  *)
LEMMA BusyThread ==
  ASSUME Inv, NEW p \in Threads, thread[p].pc \notin {"idle", "dead"}
  PROVE  mine(p) \in Tasks /\ up /\ thread[p] \in Thread /\ thread \in [Threads -> Thread]
<1>1. thread[p] \in Thread /\ thread \in [Threads -> Thread] /\ thread[p].task # NoTask
  BY DEF Inv, TypeOK, threadInv
<1>2. mine(p) \in Tasks
  BY <1>1 DEF Thread, mine
<1>3. up
  BY DEF Inv, TypeOK, DownIsEmpty, Idle
<1> QED BY <1>1, <1>2, <1>3

(* The other threads stay as they are.                                     *)
LEMMA ThreadInvsKept ==
  ASSUME Inv, NEW p \in Threads, threadInv(p)', \A q \in Threads \ {p} : thread'[q] = thread[q],
         \A u \in Tasks : sweeps[u] # 0 => sweeps'[u] # 0
  PROVE  \A q \in Threads : threadInv(q)'
<1> SUFFICES ASSUME NEW q \in Threads \ {p} PROVE threadInv(q)'
  OBVIOUS
<1>1. threadInv(q) /\ thread'[q] = thread[q] /\ thread[q].task \in Tasks \cup {NoTask}
  BY DEF Inv, TypeOK, Thread
<1> QED BY <1>1 DEF threadInv

(* A thread goes on to pc with what it has.                                *)
LEMMA ThreadGoes ==
  ASSUME thread \in [Threads -> Thread], NEW p \in Threads, NEW pc \in Pcs,
         thread' = [thread EXCEPT ![p].pc = pc]
  PROVE  /\ thread' \in [Threads -> Thread]
         /\ \A q \in Threads \ {p} : thread'[q] = thread[q]
         /\ thread'[p].pc = pc /\ thread'[p].task = thread[p].task
         /\ thread'[p].then = thread[p].then /\ thread'[p].verdict = thread[p].verdict
BY DEF Thread

(* A thread saves a record: the check comes first.                         *)
LEMMA ThreadSaves ==
  ASSUME thread \in [Threads -> Thread], NEW p \in Threads, NEW next \in Pcs,
         _save_record(p, next)
  PROVE  /\ thread' \in [Threads -> Thread]
         /\ \A q \in Threads \ {p} : thread'[q] = thread[q]
         /\ thread'[p].task = thread[p].task /\ thread'[p].verdict = thread[p].verdict
         /\ thread'[p].pc = "save" /\ thread'[p].then = next
BY DEF Thread, _save_record

(* A thread has nothing but its task.                                      *)
LEMMA ThreadRests ==
  ASSUME thread \in [Threads -> Thread], NEW p \in Threads, NEW pc \in Pcs,
         NEW u \in Tasks \cup {NoTask},
         thread' = [thread EXCEPT ![p] = [Idle EXCEPT !.pc = pc, !.task = u]]
  PROVE  /\ thread' \in [Threads -> Thread]
         /\ \A q \in Threads \ {p} : thread'[q] = thread[q]
         /\ thread'[p].pc = pc /\ thread'[p].task = u /\ thread'[p].then = "idle"
BY DEF Thread, Idle, Pcs, Verdicts

(* A thread has nothing, not even a task.                                  *)
LEMMA ThreadEnds ==
  ASSUME thread \in [Threads -> Thread], NEW p \in Threads, NEW pc \in Pcs,
         thread' = [thread EXCEPT ![p] = [Idle EXCEPT !.pc = pc]]
  PROVE  /\ thread' \in [Threads -> Thread]
         /\ \A q \in Threads \ {p} : thread'[q] = thread[q]
         /\ thread'[p].pc = pc /\ thread'[p].task = NoTask /\ thread'[p].then = "idle"
BY DEF Thread, Idle, Pcs, Verdicts

(* What was told of t stays true as long as nothing is told, saved or      *)
(* concluded.                                                              *)
LEMMA ToldKept ==
  ASSUME NEW t \in Tasks, told(t), sweeps'[t] = sweeps[t], heard'[t] = heard[t],
         record'[t].status = record[t].status, record'[t].told = record[t].told,
         disk'[t] = disk[t], deleted' = deleted, raced' = raced, untold' = untold,
         \A q \in Workers : callsBack(q, t)' <=> callsBack(q, t),
         \A q \in Workers : callsBack(q, t) => thread'[q].verdict = thread[q].verdict,
         \A q \in Workers : mine(q) = t /\ thread[q].then = "unmark" =>
                            thread'[q].task = t /\ thread'[q].then = "unmark",
         sweeps[t] = 0 /\ record[t].told # "none" =>
           /\ queue'[t] = 0
           /\ \A q \in Workers : thread'[q].task = t =>
                "unmark" \in {thread'[q].pc, thread'[q].then}
  PROVE  told(t)'
<1>1. verdictIsKnown(t)'
  BY DEF told, verdictIsKnown
<1>2. toldIsOver(t)'
  BY DEF told, toldIsOver, mine
<1>3. successIsHeard(t)'
  BY DEF told, successIsHeard
<1>4. savedIsHeard(t)'
  BY DEF told, savedIsHeard, mine
<1> QED BY <1>1, <1>2, <1>3, <1>4 DEF told

(* Taking a task out of the queue.                                         *)
LEMMA PickKeepsInv ==
  ASSUME Inv, NEW w \in Workers, NEW t \in Tasks, Pick(w, t)
  PROVE  Inv'
<1>1. /\ up /\ thread[w].pc = "idle" /\ queue[t] > 0
      /\ queue' = [queue EXCEPT ![t] = @ - 1] /\ active' = active \cup {t}
      /\ thread' = [thread EXCEPT ![w] = [Idle EXCEPT !.pc = "picked", !.task = t]]
      /\ record' = record /\ disk' = disk /\ deleted' = deleted /\ deleting' = deleting
      /\ up' = up /\ restarts' = restarts /\ heard' = heard /\ sweeps' = sweeps
      /\ refused' = refused /\ raced' = raced /\ untold' = untold
  BY DEF Pick, store, history
<1>2. TypeOK /\ taskInv(t) /\ threadInv(w) /\ w \in Threads /\ w # Sweeper
  BY ServiceAssumption DEF Inv, Threads
<1>3. /\ thread' \in [Threads -> Thread] /\ \A q \in Threads \ {w} : thread'[q] = thread[q]
      /\ thread'[w].pc = "picked" /\ thread'[w].task = t /\ thread'[w].then = "idle"
  BY <1>1, <1>2, ThreadRests DEF TypeOK, Pcs
<1>4. /\ queue \in [Tasks -> Nat] /\ queue' \in [Tasks -> Nat] /\ queue'[t] = queue[t] - 1
      /\ \A u \in Tasks \ {t} : queue'[u] = queue[u]
  BY <1>1, <1>2 DEF TypeOK
<1>5. mine(w) = NoTask
  BY <1>1, <1>2 DEF threadInv, mine
<1>6. TypeOK'
  BY <1>1, <1>2, <1>3, <1>4 DEF TypeOK
<1>7. threadInv(w)'
  BY <1>2, <1>3, ServiceAssumption DEF threadInv, Sweeping
<1>8. touchesOnly(t)
  BY <1>1, <1>3, <1>4, <1>5 DEF touchesOnly, mine
<1>9. known(t)'
  BY <1>1, <1>2, <1>4 DEF taskInv, known, listed
<1>10. served(t)'
  BY <1>2, <1>3 DEF served, claims, mine
<1>11. gone(t)'
  BY <1>1, <1>2, <1>3 DEF taskInv, gone, listed, mine
<1>12. attemptsLeft(t)'
  BY <1>1, <1>2 DEF taskInv, attemptsLeft
<1>13. paid(t)'
  <2>1. /\ w \notin holders(t) /\ w \in holders(t)'
        /\ w \notin claimants(t) /\ w \in claimants(t)'
    BY <1>2, <1>3, <1>5, ServiceAssumption DEF holders, claimants, holds, claims, mine
  <2>2. /\ Cardinality(holders(t)') = Cardinality(holders(t)) + 1
        /\ Cardinality(claimants(t)') = Cardinality(claimants(t)) + 1
        /\ Cardinality(holders(t)) \in Nat /\ Cardinality(claimants(t)) \in Nat
    BY <1>2, <1>3, <2>1, CountsOfAStep
  <2>3. sweeps[t] \in Nat /\ record[t].attempts \in Nat /\ queue[t] \in Nat
    BY <1>2 DEF TypeOK, Record
  <2> QED BY <1>1, <1>2, <1>4, <2>2, <2>3, ServiceAssumption DEF taskInv, paid
<1>14. told(t)'
  <2>1. \A q \in Workers \ {w} : callsBack(q, t)' <=> callsBack(q, t)
    BY <1>2, <1>3 DEF callsBack, mine, Threads
  <2>2. ~callsBack(w, t)' /\ ~callsBack(w, t)
    BY <1>3, <1>5, ServiceAssumption DEF callsBack, mine
  <2>3. ~(sweeps[t] = 0 /\ record[t].told # "none")
    BY <1>1, <1>2, <1>4 DEF taskInv, told, toldIsOver
  <2>4. \A q \in Workers : mine(q) = t => thread'[q] = thread[q]
    BY <1>2, <1>3, <1>5, ServiceAssumption DEF Threads
  <2>5. told(t)
    BY <1>2 DEF taskInv
  <2> QED BY <1>1, <2>1, <2>2, <2>3, <2>4, <2>5, ToldKept DEF callsBack, mine
<1> QED BY <1>1, <1>2, <1>3, <1>6, <1>7, <1>8, <1>9, <1>10, <1>11, <1>12, <1>13, <1>14,
           StepAboutATask, ThreadInvsKept DEF taskInv

(* Without a sweep, nobody else calls back about a task that w holds.      *)
LEMMA NobodyElseTells ==
  ASSUME Inv, NEW t \in Tasks, NEW w \in Workers, thread[w].task = t, thread[w].pc # "unmark",
         sweeps[t] = 0
  PROVE  /\ queue[t] = 0
         /\ \A q \in Workers \ {w} : ~callsBack(q, t) /\ (thread[q].task = t => thread[q].pc = "unmark")
<1>1. w \in holders(t)
  BY ServiceAssumption DEF holders, holds, mine, Threads
<1>2. \A q \in Workers \ {w} : thread[q].task = t => thread[q].pc = "unmark"
  <2> SUFFICES ASSUME NEW q \in Workers \ {w}, thread[q].task = t, thread[q].pc # "unmark" PROVE FALSE
    OBVIOUS
  <2>1. q \in holders(t)
    BY ServiceAssumption DEF holders, holds, mine, Threads
  <2> QED BY <1>1, <2>1, Alone
<1>3. \A q \in Workers : threadInv(q)
  BY DEF Inv, Threads
<1> QED BY <1>1, <1>2, <1>3, Alone DEF callsBack, mine, threadInv

(* What there is to know of a thread that has a task.                      *)
LEMMA TaskOfAThread ==
  ASSUME Inv, NEW p \in Threads, NEW t \in Tasks, mine(p) = t
  PROVE  /\ up /\ thread[p] \in Thread /\ thread \in [Threads -> Thread]
         /\ thread[p].task = t /\ (thread[p].pc \notin {"save", "write"} => thread[p].then = "idle")
         /\ record[t] \in Record /\ record \in [Tasks -> Record] /\ record[t].attempts \in Nat
         /\ queue[t] \in Nat /\ sweeps[t] \in Nat
<1>1. thread[p].task = t /\ t # NoTask /\ threadInv(p) /\ TypeOK /\ thread[p].pc \notin {"idle", "dead"}
  BY ServiceAssumption DEF mine, Inv, threadInv
<1>2. /\ record[t] \in Record /\ record \in [Tasks -> Record] /\ queue[t] \in Nat /\ sweeps[t] \in Nat
      /\ record[t].attempts \in Nat
  BY <1>1 DEF TypeOK, Record
<1> QED BY <1>1, <1>2, BusyThread DEF threadInv

(* After a write a thread goes on, or rests.                               *)
LEMMA WriteGoes ==
  ASSUME thread \in [Threads -> Thread], NEW p \in Threads, Write(p), thread[p].then # "idle"
  PROVE  /\ thread' \in [Threads -> Thread]
         /\ \A q \in Threads \ {p} : thread'[q] = thread[q]
         /\ thread'[p].task = thread[p].task /\ thread'[p].verdict = thread[p].verdict
         /\ thread'[p].pc = thread[p].then /\ thread'[p].then = "idle"
<1>1. thread' = [thread EXCEPT ![p] = [thread[p] EXCEPT !.pc = thread[p].then, !.then = "idle"]]
  BY DEF Write, saved
<1> QED BY <1>1 DEF Thread, Pcs, Sweeping

(* The attempts of a task are paid for.                                    *)
LEMMA AttemptsArePaid ==
  ASSUME Inv, NEW t \in Tasks
  PROVE  record[t].attempts <= MaxAttempts + sweeps[t]
<1>1. /\ record[t].attempts \in Nat /\ queue[t] \in Nat /\ sweeps[t] \in Nat
      /\ Cardinality(claimants(t)) \in Nat
  BY FiniteThreads, FS_CardinalityType DEF Inv, TypeOK, Record
<1> QED BY <1>1, ServiceAssumption DEF Inv, taskInv, paid

(* A step of p alone, which goes on, or leaves the task, without claiming  *)
(* or giving up anything: it keeps the invariant.                          *)
LEMMA ThreadMoves ==
  ASSUME Inv, NEW p \in Threads, NEW t \in Tasks, mine(p) = t,
         UNCHANGED <<store, queue, active, deleted, deleting, up, restarts, heard, history>>,
         thread' \in [Threads -> Thread], \A q \in Threads \ {p} : thread'[q] = thread[q],
         thread'[p].task \in {t, NoTask}, threadInv(p)',
         thread'[p].pc = "write" => t \notin deleted,
         p \in holders(t)' => p \in holders(t),
         p \in claimants(t)' <=> p \in claimants(t),
         p \in Workers =>
           /\ thread'[p].task = t /\ thread'[p].verdict = thread[p].verdict
           /\ callsBack(p, t)' <=> callsBack(p, t)
           /\ thread[p].then = "unmark" => thread'[p].then = "unmark" \/ t \in deleted
           /\ "unmark" \in {thread[p].pc, thread[p].then} =>
                "unmark" \in {thread'[p].pc, thread'[p].then}
  PROVE  Inv'
<1>1. /\ record' = record /\ disk' = disk /\ queue' = queue /\ active' = active
      /\ deleted' = deleted /\ deleting' = deleting /\ up' = up /\ restarts' = restarts
      /\ heard' = heard /\ sweeps' = sweeps /\ refused' = refused /\ raced' = raced
      /\ untold' = untold
  BY DEF store, history
<1>2. /\ TypeOK /\ taskInv(t) /\ up /\ thread[p].task = t /\ Workers \subseteq Threads
      /\ queue[t] \in Nat /\ sweeps[t] \in Nat /\ record[t].attempts \in Nat /\ t # NoTask
  BY TaskOfAThread, ServiceAssumption DEF Inv, Threads
<1>3. TypeOK'
  BY <1>1, <1>2 DEF TypeOK
<1>4. touchesOnly(t)
  BY <1>1, <1>2 DEF touchesOnly
<1>5. known(t)'
  BY <1>1, <1>2 DEF taskInv, known, listed, mine
<1>6. served(t)'
  <2>1. \A q \in Threads : q \in claimants(t) <=> q \in claimants(t)'
    BY DEF claimants, mine
  <2> QED BY <1>1, <1>2, <2>1 DEF taskInv, served, listed, claimants
<1>7. gone(t)'
  BY <1>1, <1>2 DEF taskInv, gone, listed, mine
<1>8. attemptsLeft(t)'
  BY <1>1, <1>2 DEF taskInv, attemptsLeft
<1>9. paid(t)'
  <2>1. /\ Cardinality(holders(t)') <= Cardinality(holders(t))
        /\ Cardinality(claimants(t)') = Cardinality(claimants(t))
        /\ Cardinality(holders(t)) \in Nat /\ Cardinality(holders(t)') \in Nat
        /\ Cardinality(claimants(t)) \in Nat
    BY CountsOfAStep
  <2> QED BY <1>1, <1>2, <2>1, ServiceAssumption DEF taskInv, paid
<1>10. told(t)'
  <2>1. \A q \in Workers : mine(q)' = t <=> mine(q) = t
    BY <1>2 DEF mine
  <2>2. \A q \in Workers : callsBack(q, t)' <=> callsBack(q, t)
    BY <1>2 DEF callsBack, mine
  <2>3. \A q \in Workers : thread'[q].verdict = thread[q].verdict
    BY <1>2
  <2>4. verdictIsKnown(t)'
    BY <1>1, <1>2, <2>2, <2>3 DEF taskInv, told, verdictIsKnown
  <2>5. toldIsOver(t)'
    <3>1. \A q \in Workers : "unmark" \in {thread[q].pc, thread[q].then} =>
                               "unmark" \in {thread'[q].pc, thread'[q].then}
      BY <1>2
    <3> QED BY <1>1, <1>2, <2>1, <3>1 DEF taskInv, told, toldIsOver
  <2>6. successIsHeard(t)'
    BY <1>1, <1>2, <2>2 DEF taskInv, told, successIsHeard
  <2>7. savedIsHeard(t)'
    <3>1. \A q \in Workers : thread[q].then = "unmark" /\ mine(q) = t =>
                               thread'[q].then = "unmark" \/ t \in deleted
      BY <1>2
    <3> QED BY <1>1, <1>2, <2>1, <2>2, <3>1 DEF taskInv, told, savedIsHeard
  <2> QED BY <2>4, <2>5, <2>6, <2>7 DEF told
<1> QED BY <1>1, <1>2, <1>3, <1>4, <1>5, <1>6, <1>7, <1>8, <1>9, <1>10,
           StepAboutATask, ThreadInvsKept DEF taskInv

(* The check of a save: the write comes next, or is dropped.               *)
LEMMA SaveKeepsInv ==
  ASSUME Inv, NEW p \in Threads, NEW t \in Tasks, mine(p) = t, Save(p)
  PROVE  Inv'
<1>1. /\ thread[p].pc = "save"
      /\ UNCHANGED <<store, queue, active, deleted, deleting, up, restarts, heard, history>>
  BY DEF Save
<1>2. /\ threadInv(p) /\ thread[p] \in Thread /\ thread \in [Threads -> Thread]
      /\ thread[p].task = t /\ sweeps' = sweeps /\ t # NoTask
      /\ (p \in Workers <=> p # Sweeper)
  BY <1>1, TaskOfAThread, ServiceAssumption DEF Inv, history, Threads
<1>3. CASE t \notin deleted
  <2>1. thread' = [thread EXCEPT ![p].pc = "write"]
    BY <1>2, <1>3 DEF Save, mine
  <2>2. /\ thread' \in [Threads -> Thread] /\ \A q \in Threads \ {p} : thread'[q] = thread[q]
        /\ thread'[p].task = t /\ thread'[p].verdict = thread[p].verdict
        /\ thread'[p].pc = "write" /\ thread'[p].then = thread[p].then
    BY <1>2, <2>1 DEF Thread
  <2>3. threadInv(p)'
    BY <1>1, <1>2, <2>2 DEF threadInv, Sweeping
  <2>4. /\ p \in holders(t)' <=> p \in holders(t)
        /\ p \in claimants(t)' <=> p \in claimants(t)
    BY <1>1, <1>2, <2>2 DEF holders, claimants, holds, claims, mine
  <2>5. callsBack(p, t)' <=> callsBack(p, t)
    BY <1>1, <1>2, <2>2 DEF callsBack, mine
  <2> QED BY <1>1, <1>2, <1>3, <2>2, <2>3, <2>4, <2>5, ThreadMoves
<1>4. CASE t \in deleted /\ thread[p].then # "idle"
  <2>1. thread' = [thread EXCEPT ![p] = [thread[p] EXCEPT !.pc = thread[p].then, !.then = "idle"]]
    BY <1>2, <1>4 DEF Save, saved, mine
  <2>2. /\ thread' \in [Threads -> Thread] /\ \A q \in Threads \ {p} : thread'[q] = thread[q]
        /\ thread'[p].task = t /\ thread'[p].verdict = thread[p].verdict
        /\ thread'[p].pc = thread[p].then /\ thread'[p].then = "idle"
    BY <1>2, <2>1 DEF Thread, Pcs, Sweeping
  <2>3. threadInv(p)' /\ thread'[p].pc \notin {"save", "write", "picked"}
    BY <1>1, <1>2, <1>4, <2>2 DEF threadInv, Sweeping, AfterWorkerSave
  <2>4. /\ p \in holders(t)' => p \in holders(t)
        /\ p \in claimants(t)' <=> p \in claimants(t)
    BY <1>1, <1>2, <2>2, <2>3 DEF holders, claimants, holds, claims, mine
  <2>5. callsBack(p, t)' <=> callsBack(p, t)
    BY <1>1, <1>2, <2>2 DEF callsBack, mine
  <2> QED BY <1>1, <1>2, <1>4, <2>2, <2>3, <2>4, <2>5, ThreadMoves
<1>5. CASE t \in deleted /\ thread[p].then = "idle"
  <2>1. p = Sweeper /\ thread' = [thread EXCEPT ![p] = [Idle EXCEPT !.pc = "idle", !.task = NoTask]]
    BY <1>1, <1>2, <1>5 DEF Save, saved, mine, Idle, threadInv, AfterWorkerSave
  <2>2. /\ thread' \in [Threads -> Thread] /\ \A q \in Threads \ {p} : thread'[q] = thread[q]
        /\ thread'[p].pc = "idle" /\ thread'[p].task = NoTask /\ thread'[p].then = "idle"
    BY <1>2, <2>1, ServiceAssumption DEF Thread, Idle, Pcs, Sweeping, Verdicts
  <2>3. threadInv(p)'
    BY <1>2, <2>1, <2>2 DEF threadInv, Sweeping
  <2>4. p \notin holders(t)' /\ p \notin claimants(t)' /\ p \notin claimants(t)
    BY <1>1, <1>2, <1>5, <2>1, <2>2 DEF holders, claimants, holds, claims, mine
  <2> QED BY <1>1, <1>2, <2>1, <2>2, <2>3, <2>4, ThreadMoves
<1> QED BY <1>3, <1>4, <1>5

(* Starting a run, or leaving a task that is gone.                         *)
LEMMA StartKeepsInv ==
  ASSUME Inv, NEW w \in Workers, NEW t \in Tasks, mine(w) = t, Start(w)
  PROVE  Inv'
<1>1. /\ thread[w].pc = "picked"
      /\ disk' = disk /\ queue' = queue /\ active' = active /\ deleted' = deleted
      /\ deleting' = deleting /\ up' = up /\ restarts' = restarts /\ heard' = heard
      /\ sweeps' = sweeps /\ refused' = refused /\ raced' = raced /\ untold' = untold
  BY DEF Start, store, history
<1>2. /\ TypeOK /\ taskInv(t) /\ threadInv(w) /\ w \in Threads
      /\ (w \in Workers <=> w # Sweeper)
  BY ServiceAssumption DEF Inv, Threads
<1>3. /\ up /\ thread[w] \in Thread /\ thread \in [Threads -> Thread]
      /\ thread[w].task = t /\ (thread[w].pc \notin {"save", "write"} => thread[w].then = "idle")
      /\ record[t] \in Record /\ record \in [Tasks -> Record] /\ record[t].attempts \in Nat
      /\ queue[t] \in Nat /\ sweeps[t] \in Nat
  BY <1>2, TaskOfAThread
<1>4. CASE listed(t) /\ t \notin deleted
  <2>1. /\ record' = [record EXCEPT ![t].status = "running", ![t].started = "recent",
                                ![t].attempts = @ + 1]
        /\ _save_record(w, "checkout") /\ listed(t) /\ t \notin deleted
    BY <1>4 DEF Start
  <2>2. /\ thread' \in [Threads -> Thread] /\ \A q \in Threads \ {w} : thread'[q] = thread[q]
        /\ thread'[w].task = t /\ thread'[w].verdict = thread[w].verdict
        /\ thread'[w].pc = "save" /\ thread'[w].then = "checkout"
    BY <1>2, <1>3, <2>1, ThreadSaves DEF Pcs, Sweeping
  <2>3. /\ record' \in [Tasks -> Record] /\ \A u \in Tasks \ {t} : record'[u] = record[u]
        /\ record'[t].status = "running" /\ record'[t].told = record[t].told
        /\ record'[t].attempts = record[t].attempts + 1
    BY <1>3, <2>1 DEF Record, InFlight
  <2>4. TypeOK'
    BY <1>1, <1>2, <1>3, <2>1, <2>2, <2>3 DEF TypeOK
  <2>5. threadInv(w)'
    BY <1>1, <1>2, <1>3, <2>1, <2>2, <2>3, ServiceAssumption DEF threadInv, AfterWorkerSave, Sweeping, Threads
  <2>6. touchesOnly(t)
    BY <1>1, <1>2, <1>3, <2>1, <2>2, <2>3 DEF touchesOnly
  <2>7. known(t)'
    BY <1>1, <1>2, <1>3, <2>1, <2>2, <2>3 DEF taskInv, known, listed, mine
  <2>8. served(t)'
    BY <1>1, <1>2, <1>3, <2>1, <2>2, <2>3 DEF taskInv, served, listed, mine, claims
  <2>9. gone(t)'
    BY <1>1, <1>2, <1>3, <2>1, <2>2, <2>3 DEF taskInv, gone, listed, mine
  <2>10. attemptsLeft(t)'
    BY <1>1, <1>2, <1>3, <2>1, <2>2, <2>3 DEF taskInv, attemptsLeft
  <2>11. paid(t)'
    <3>1. w \in holders(t) /\ w \in claimants(t)
      BY <1>1, <1>2, <1>3, <2>1, <2>2, <2>3 DEF holders, claimants, holds, claims, mine
    <3>2. w \in holders(t)' /\ w \notin claimants(t)'
      BY <1>1, <1>2, <1>3, <2>1, <2>2, <2>3 DEF holders, claimants, holds, claims, mine
    <3>3. /\ Cardinality(holders(t)') = Cardinality(holders(t))
          /\ Cardinality(claimants(t)') = Cardinality(claimants(t)) - 1
          /\ Cardinality(holders(t)) \in Nat /\ Cardinality(claimants(t)) \in Nat
      BY <1>1, <1>2, <1>3, <2>1, <2>2, <2>3, <3>1, <3>2, CountsOfAStep
    <3> QED BY <1>1, <1>2, <1>3, <2>1, <2>2, <2>3, <3>3, ServiceAssumption DEF taskInv, paid
  <2>12. told(t)'
    <3>1. ~(sweeps[t] = 0 /\ record[t].told # "none")
      BY <1>1, <1>2, <1>3 DEF taskInv, told, toldIsOver, mine
    <3>2. verdictIsKnown(t)' /\ successIsHeard(t)'
      <4>1. sweeps[t] = 0 => \A q \in Workers : ~callsBack(q, t)'
        BY <1>1, <1>2, <1>3, <2>1, <2>2, <2>3, NobodyElseTells DEF callsBack, mine, Threads
      <4> QED BY <1>1, <2>3, <4>1 DEF verdictIsKnown, successIsHeard
    <3>3. toldIsOver(t)'
      BY <1>1, <1>2, <2>3, <3>1 DEF taskInv, told, toldIsOver
    <3>4. savedIsHeard(t)'
      <4>1. \A q \in Workers : callsBack(q, t) => callsBack(q, t)'
        BY <1>1, <1>2, <1>3, <2>1, <2>2, <2>3 DEF callsBack, mine, Threads
      <4>2. \A q \in Workers : mine(q) = t /\ thread[q].then = "unmark" => mine(q)' = t /\ thread'[q].then = "unmark"
        BY <1>1, <1>2, <1>3, <2>1, <2>2, <2>3 DEF mine, Threads
      <4> QED BY <1>1, <1>2, <4>1, <4>2 DEF taskInv, told, savedIsHeard
    <3> QED BY <3>2, <3>3, <3>4 DEF told
  <2> QED BY <1>1, <1>2, <1>3, <2>2, <2>4, <2>5, <2>6, <2>7, <2>8, <2>9, <2>10, <2>11, <2>12,
             StepAboutATask, ThreadInvsKept DEF taskInv
<1>5. CASE ~(listed(t) /\ t \notin deleted)
  <2>1. thread' = [thread EXCEPT ![w].pc = "unmark"] /\ record' = record
        /\ ~(listed(t) /\ t \notin deleted)
    BY <1>5 DEF Start
  <2>2. /\ thread' \in [Threads -> Thread] /\ \A q \in Threads \ {w} : thread'[q] = thread[q]
        /\ thread'[w].task = t /\ thread'[w].verdict = thread[w].verdict
        /\ thread'[w].pc = "unmark" /\ thread'[w].then = "idle"
    BY <1>1, <1>2, <1>3, <2>1, ThreadGoes DEF Pcs, Sweeping
  <2>3. record' \in [Tasks -> Record] /\ \A u \in Tasks \ {t} : record'[u] = record[u]
    BY <1>2, <1>3, <2>1 DEF TypeOK
  <2>4. TypeOK'
    BY <1>1, <1>2, <1>3, <2>1, <2>2, <2>3 DEF TypeOK
  <2>5. threadInv(w)'
    BY <1>1, <1>2, <1>3, <2>1, <2>2, <2>3, ServiceAssumption DEF threadInv, AfterWorkerSave, Sweeping, Threads
  <2>6. touchesOnly(t)
    BY <1>1, <1>2, <1>3, <2>1, <2>2, <2>3 DEF touchesOnly
  <2>7. known(t)'
    BY <1>1, <1>2, <1>3, <2>1, <2>2, <2>3 DEF taskInv, known, listed, mine
  <2>8. served(t)'
    BY <1>1, <1>2, <1>3, <2>1, <2>2, <2>3 DEF taskInv, served, listed, mine, claims
  <2>9. gone(t)'
    BY <1>1, <1>2, <1>3, <2>1, <2>2, <2>3 DEF taskInv, gone, listed, mine
  <2>10. attemptsLeft(t)'
    BY <1>1, <1>2, <1>3, <2>1, <2>2, <2>3 DEF taskInv, attemptsLeft
  <2>11. paid(t)'
    <3>1. w \in holders(t) /\ w \in claimants(t)
      BY <1>1, <1>2, <1>3, <2>1, <2>2, <2>3 DEF holders, claimants, holds, claims, mine
    <3>2. w \notin holders(t)' /\ w \notin claimants(t)'
      BY <1>1, <1>2, <1>3, <2>1, <2>2, <2>3 DEF holders, claimants, holds, claims, mine
    <3>3. /\ Cardinality(holders(t)') = Cardinality(holders(t)) - 1
          /\ Cardinality(claimants(t)') = Cardinality(claimants(t)) - 1
          /\ Cardinality(holders(t)) \in Nat /\ Cardinality(claimants(t)) \in Nat
      BY <1>1, <1>2, <1>3, <2>1, <2>2, <2>3, <3>1, <3>2, CountsOfAStep
    <3> QED BY <1>1, <1>2, <1>3, <2>1, <2>2, <2>3, <3>3, ServiceAssumption DEF taskInv, paid
  <2>12. told(t)'
    <3>1. \A q \in Workers : callsBack(q, t)' <=> callsBack(q, t)
      BY <1>1, <1>2, <1>3, <2>1, <2>2, <2>3, ServiceAssumption DEF callsBack, mine, Threads
    <3>2. sweeps[t] = 0 /\ record[t].told # "none" =>
           /\ queue'[t] = 0
           /\ \A q \in Workers : thread'[q].task = t =>
                "unmark" \in {thread'[q].pc, thread'[q].then}
      BY <1>1, <1>2, <1>3, <2>1, <2>2, <2>3 DEF taskInv, told, toldIsOver, mine, Threads
    <3>3. \A q \in Workers :
           /\ callsBack(q, t) => thread'[q].verdict = thread[q].verdict
           /\ mine(q) = t /\ thread[q].then = "unmark" =>
                thread'[q].task = t /\ thread'[q].then = "unmark"
      BY <1>1, <1>2, <1>3, <2>1, <2>2, <2>3 DEF callsBack, mine, Threads
    <3> QED BY <1>1, <1>2, <1>3, <2>1, <2>2, <2>3, <3>1, <3>2, <3>3, ToldKept DEF taskInv, callsBack
  <2> QED BY <1>1, <1>2, <1>3, <2>2, <2>4, <2>5, <2>6, <2>7, <2>8, <2>9, <2>10, <2>11, <2>12,
             StepAboutATask, ThreadInvsKept DEF taskInv
<1> QED BY <1>4, <1>5

(* The checkout, which only finds out the commit.                         *)
LEMMA CheckoutKeepsInv ==
  ASSUME Inv, NEW w \in Workers, NEW t \in Tasks, mine(w) = t, Checkout(w)
  PROVE  Inv'
<1>1. /\ thread[w].pc = "checkout"
      /\ disk' = disk /\ queue' = queue /\ active' = active /\ deleted' = deleted
      /\ deleting' = deleting /\ up' = up /\ restarts' = restarts /\ heard' = heard
      /\ sweeps' = sweeps /\ refused' = refused /\ raced' = raced /\ untold' = untold
  BY DEF Checkout, store, history
<1>2. /\ TypeOK /\ taskInv(t) /\ threadInv(w) /\ w \in Threads
      /\ (w \in Workers <=> w # Sweeper)
  BY ServiceAssumption DEF Inv, Threads
<1>3. /\ up /\ thread[w] \in Thread /\ thread \in [Threads -> Thread]
      /\ thread[w].task = t /\ (thread[w].pc \notin {"save", "write"} => thread[w].then = "idle")
      /\ record[t] \in Record /\ record \in [Tasks -> Record] /\ record[t].attempts \in Nat
      /\ queue[t] \in Nat /\ sweeps[t] \in Nat
  BY <1>2, TaskOfAThread
<1> QED
  <2>1. /\ record' = [record EXCEPT ![t].resolved = TRUE]
        /\ thread' = [thread EXCEPT ![w].pc = "analyse"] \/ _save_record(w, "analyse")
    BY DEF Checkout
  <2>2. /\ thread' \in [Threads -> Thread] /\ \A q \in Threads \ {w} : thread'[q] = thread[q]
        /\ thread'[w].task = t /\ thread'[w].verdict = thread[w].verdict
        /\ \/ thread'[w].pc = "save" /\ thread'[w].then = "analyse"
           \/ thread'[w].pc = "analyse" /\ thread'[w].then = "idle"
    BY <1>1, <1>2, <1>3, <2>1, ThreadGoes, ThreadSaves DEF Pcs, Sweeping
  <2>3. /\ record' \in [Tasks -> Record] /\ \A u \in Tasks \ {t} : record'[u] = record[u]
        /\ record'[t].status = record[t].status /\ record'[t].told = record[t].told
        /\ record'[t].attempts = record[t].attempts
    BY <1>3, <2>1 DEF Record
  <2>4. TypeOK'
    BY <1>1, <1>2, <1>3, <2>1, <2>2, <2>3 DEF TypeOK
  <2>5. threadInv(w)'
    BY <1>1, <1>2, <1>3, <2>1, <2>2, <2>3, ServiceAssumption DEF threadInv, AfterWorkerSave, Sweeping, Threads
  <2>6. touchesOnly(t)
    BY <1>1, <1>2, <1>3, <2>1, <2>2, <2>3 DEF touchesOnly
  <2>7. known(t)'
    BY <1>1, <1>2, <1>3, <2>1, <2>2, <2>3 DEF taskInv, known, listed, mine
  <2>8. served(t)'
    BY <1>1, <1>2, <1>3, <2>1, <2>2, <2>3 DEF taskInv, served, listed, mine, claims
  <2>9. gone(t)'
    BY <1>1, <1>2, <1>3, <2>1, <2>2, <2>3 DEF taskInv, gone, listed, mine
  <2>10. attemptsLeft(t)'
    BY <1>1, <1>2, <1>3, <2>1, <2>2, <2>3 DEF taskInv, attemptsLeft
  <2>11. paid(t)'
    <3>1. w \in holders(t) /\ w \notin claimants(t)
      BY <1>1, <1>2, <1>3, <2>1, <2>2, <2>3 DEF holders, claimants, holds, claims, mine
    <3>2. w \in holders(t)' /\ w \notin claimants(t)'
      BY <1>1, <1>2, <1>3, <2>1, <2>2, <2>3 DEF holders, claimants, holds, claims, mine
    <3>3. /\ Cardinality(holders(t)') = Cardinality(holders(t))
          /\ Cardinality(claimants(t)') = Cardinality(claimants(t))
          /\ Cardinality(holders(t)) \in Nat /\ Cardinality(claimants(t)) \in Nat
      BY <1>1, <1>2, <1>3, <2>1, <2>2, <2>3, <3>1, <3>2, CountsOfAStep
    <3> QED BY <1>1, <1>2, <1>3, <2>1, <2>2, <2>3, <3>3, ServiceAssumption DEF taskInv, paid
  <2>12. told(t)'
    <3>1. \A q \in Workers : callsBack(q, t)' <=> callsBack(q, t)
      BY <1>1, <1>2, <1>3, <2>1, <2>2, <2>3, ServiceAssumption DEF callsBack, mine, Threads
    <3>2. sweeps[t] = 0 /\ record[t].told # "none" =>
           /\ queue'[t] = 0
           /\ \A q \in Workers : thread'[q].task = t =>
                "unmark" \in {thread'[q].pc, thread'[q].then}
      BY <1>1, <1>2, <1>3, <2>1, <2>2, <2>3 DEF taskInv, told, toldIsOver, mine, Threads
    <3>3. \A q \in Workers :
           /\ callsBack(q, t) => thread'[q].verdict = thread[q].verdict
           /\ mine(q) = t /\ thread[q].then = "unmark" =>
                thread'[q].task = t /\ thread'[q].then = "unmark"
      BY <1>1, <1>2, <1>3, <2>1, <2>2, <2>3 DEF callsBack, mine, Threads
    <3> QED BY <1>1, <1>2, <1>3, <2>1, <2>2, <2>3, <3>1, <3>2, <3>3, ToldKept DEF taskInv, callsBack
  <2> QED BY <1>1, <1>2, <1>3, <2>2, <2>4, <2>5, <2>6, <2>7, <2>8, <2>9, <2>10, <2>11, <2>12,
             StepAboutATask, ThreadInvsKept DEF taskInv

(* A verdict.                                                              *)
LEMMA FinishKeepsInv ==
  ASSUME Inv, NEW w \in Workers, NEW t \in Tasks, mine(w) = t, Finish(w)
  PROVE  Inv'
<1>1. /\ thread[w].pc = "analyse" /\ t \notin deleted
      /\ disk' = disk /\ queue' = queue /\ active' = active /\ deleted' = deleted
      /\ deleting' = deleting /\ up' = up /\ restarts' = restarts /\ heard' = heard
      /\ sweeps' = sweeps /\ refused' = refused /\ raced' = raced /\ untold' = untold
  BY DEF Finish, store, history
<1>2. /\ TypeOK /\ taskInv(t) /\ threadInv(w) /\ w \in Threads
      /\ (w \in Workers <=> w # Sweeper)
  BY ServiceAssumption DEF Inv, Threads
<1>3. /\ up /\ thread[w] \in Thread /\ thread \in [Threads -> Thread]
      /\ thread[w].task = t /\ (thread[w].pc \notin {"save", "write"} => thread[w].then = "idle")
      /\ record[t] \in Record /\ record \in [Tasks -> Record] /\ record[t].attempts \in Nat
      /\ queue[t] \in Nat /\ sweeps[t] \in Nat
  BY <1>2, TaskOfAThread
<1>4. PICK v \in Verdicts :
        /\ record' = [record EXCEPT ![t].status = IF v = "passed" THEN "success" ELSE "failed"]
        /\ thread' = [thread EXCEPT ![w].pc = "save", ![w].then = "callback", ![w].verdict = v]
  BY DEF Finish
<1> QED
  <2>1. /\ record' = [record EXCEPT ![t].status = IF v = "passed" THEN "success" ELSE "failed"]
        /\ thread' = [thread EXCEPT ![w].pc = "save", ![w].then = "callback", ![w].verdict = v]
    BY <1>4
  <2>2. /\ thread' \in [Threads -> Thread] /\ \A q \in Threads \ {w} : thread'[q] = thread[q]
        /\ thread'[w].task = t /\ thread'[w].pc = "save"
        /\ thread'[w].then = "callback" /\ thread'[w].verdict = v
    BY <1>2, <1>3, <2>1 DEF Thread, Pcs
  <2>3. /\ record' \in [Tasks -> Record] /\ \A u \in Tasks \ {t} : record'[u] = record[u]
        /\ record'[t].status = (IF v = "passed" THEN "success" ELSE "failed")
        /\ record'[t].told = record[t].told /\ record'[t].attempts = record[t].attempts
    BY <1>3, <2>1 DEF Record, Finished
  <2>4. TypeOK'
    BY <1>1, <1>2, <1>3, <2>1, <2>2, <2>3 DEF TypeOK
  <2>5. threadInv(w)'
    BY <1>1, <1>2, <1>3, <2>1, <2>2, <2>3, ServiceAssumption DEF threadInv, AfterWorkerSave, Sweeping, Threads
  <2>6. touchesOnly(t)
    BY <1>1, <1>2, <1>3, <2>1, <2>2, <2>3 DEF touchesOnly
  <2>7. known(t)'
    BY <1>1, <1>2, <1>3, <2>1, <2>2, <2>3 DEF taskInv, known, listed, mine
  <2>8. served(t)'
    BY <1>1, <1>2, <1>3, <2>1, <2>2, <2>3 DEF taskInv, served, listed, mine, claims
  <2>9. gone(t)'
    BY <1>1, <1>2, <1>3, <2>1, <2>2, <2>3 DEF taskInv, gone, listed, mine
  <2>10. attemptsLeft(t)'
    BY <1>1, <1>2, <1>3, <2>1, <2>2, <2>3 DEF taskInv, attemptsLeft
  <2>11. paid(t)'
    <3>1. w \in holders(t) /\ w \notin claimants(t)
      BY <1>1, <1>2, <1>3, <2>1, <2>2, <2>3 DEF holders, claimants, holds, claims, mine
    <3>2. w \in holders(t)' /\ w \notin claimants(t)'
      BY <1>1, <1>2, <1>3, <2>1, <2>2, <2>3 DEF holders, claimants, holds, claims, mine
    <3>3. /\ Cardinality(holders(t)') = Cardinality(holders(t))
          /\ Cardinality(claimants(t)') = Cardinality(claimants(t))
          /\ Cardinality(holders(t)) \in Nat /\ Cardinality(claimants(t)) \in Nat
      BY <1>1, <1>2, <1>3, <2>1, <2>2, <2>3, <3>1, <3>2, CountsOfAStep
    <3> QED BY <1>1, <1>2, <1>3, <2>1, <2>2, <2>3, <3>3, ServiceAssumption DEF taskInv, paid
  <2>12. told(t)'
    <3>1. sweeps[t] = 0 => record[t].told = "none"
      BY <1>1, <1>2, <1>3 DEF taskInv, told, toldIsOver, mine
    <3>2. callsBack(w, t)'
      BY <2>2 DEF callsBack, mine
    <3>3. verdictIsKnown(t)'
      <4>1. sweeps[t] = 0 => \A q \in Workers \ {w} : ~callsBack(q, t)'
        BY <1>1, <1>2, <1>3, <2>1, <2>2, <2>3, NobodyElseTells DEF callsBack, mine, Threads
      <4> QED BY <1>1, <2>2, <2>3, <4>1 DEF verdictIsKnown, Finished
    <3>4. toldIsOver(t)'
      BY <1>1, <1>2, <2>3, <3>1 DEF taskInv, told, toldIsOver
    <3>5. successIsHeard(t)'
      BY <3>2 DEF successIsHeard
    <3>6. savedIsHeard(t)'
      BY <3>2 DEF savedIsHeard
    <3> QED BY <3>3, <3>4, <3>5, <3>6 DEF told
  <2> QED BY <1>1, <1>2, <1>3, <2>2, <2>4, <2>5, <2>6, <2>7, <2>8, <2>9, <2>10, <2>11, <2>12,
             StepAboutATask, ThreadInvsKept DEF taskInv

(* A callback that CI had already: only after a sweep.                     *)
LEMMA CallbackSkippedKeepsInv ==
  ASSUME Inv, NEW w \in Workers, NEW t \in Tasks, mine(w) = t, CallbackSkipped(w)
  PROVE  Inv'
<1>1. /\ thread[w].pc = "callback" /\ record[t].told = thread[w].verdict
      /\ record' = record /\ disk' = disk /\ queue' = queue /\ active' = active
      /\ deleted' = deleted /\ deleting' = deleting /\ up' = up /\ restarts' = restarts
      /\ heard' = heard /\ sweeps' = sweeps /\ refused' = refused /\ raced' = raced
      /\ untold' = untold
  BY DEF CallbackSkipped, store, history
<1>2. /\ TypeOK /\ taskInv(t) /\ threadInv(w) /\ w \in Threads
      /\ (w \in Workers <=> w # Sweeper)
  BY ServiceAssumption DEF Inv, Threads
<1>3. /\ up /\ thread[w] \in Thread /\ thread \in [Threads -> Thread]
      /\ thread[w].task = t /\ (thread[w].pc \notin {"save", "write"} => thread[w].then = "idle")
      /\ record[t] \in Record /\ record \in [Tasks -> Record] /\ record[t].attempts \in Nat
      /\ queue[t] \in Nat /\ sweeps[t] \in Nat
  BY <1>2, TaskOfAThread
<1> QED
  <2>1. thread' = [thread EXCEPT ![w].pc = "unmark"]
    BY DEF CallbackSkipped
  <2>2. /\ thread' \in [Threads -> Thread] /\ \A q \in Threads \ {w} : thread'[q] = thread[q]
        /\ thread'[w].task = t /\ thread'[w].verdict = thread[w].verdict
        /\ thread'[w].pc = "unmark" /\ thread'[w].then = "idle"
    BY <1>1, <1>2, <1>3, <2>1, ThreadGoes DEF Pcs, Sweeping
  <2>3. record[t].told # "none"
    BY <1>1, <1>3 DEF Thread, Verdicts
  <2>4. TypeOK'
    BY <1>1, <1>2, <1>3, <2>1, <2>2, <2>3 DEF TypeOK
  <2>5. threadInv(w)'
    BY <1>1, <1>2, <1>3, <2>1, <2>2, <2>3, ServiceAssumption DEF threadInv, AfterWorkerSave, Sweeping, Threads
  <2>6. touchesOnly(t)
    BY <1>1, <1>2, <1>3, <2>1, <2>2, <2>3 DEF touchesOnly
  <2>7. known(t)'
    BY <1>1, <1>2, <1>3, <2>1, <2>2, <2>3 DEF taskInv, known, listed, mine
  <2>8. served(t)'
    BY <1>1, <1>2, <1>3, <2>1, <2>2, <2>3 DEF taskInv, served, listed, mine, claims
  <2>9. gone(t)'
    BY <1>1, <1>2, <1>3, <2>1, <2>2, <2>3 DEF taskInv, gone, listed, mine
  <2>10. attemptsLeft(t)'
    BY <1>1, <1>2, <1>3, <2>1, <2>2, <2>3 DEF taskInv, attemptsLeft
  <2>11. paid(t)'
    <3>1. w \in holders(t) /\ w \notin claimants(t)
      BY <1>1, <1>2, <1>3, <2>1, <2>2, <2>3 DEF holders, claimants, holds, claims, mine
    <3>2. w \notin holders(t)' /\ w \notin claimants(t)'
      BY <1>1, <1>2, <1>3, <2>1, <2>2, <2>3 DEF holders, claimants, holds, claims, mine
    <3>3. /\ Cardinality(holders(t)') = Cardinality(holders(t)) - 1
          /\ Cardinality(claimants(t)') = Cardinality(claimants(t))
          /\ Cardinality(holders(t)) \in Nat /\ Cardinality(claimants(t)) \in Nat
      BY <1>1, <1>2, <1>3, <2>1, <2>2, <2>3, <3>1, <3>2, CountsOfAStep
    <3> QED BY <1>1, <1>2, <1>3, <2>1, <2>2, <2>3, <3>3, ServiceAssumption DEF taskInv, paid
  <2>12. told(t)'
    <3>1. sweeps[t] # 0
      BY <1>1, <1>2, <1>3, <2>3 DEF taskInv, told, toldIsOver, mine
    <3> QED BY <1>1, <3>1 DEF told, verdictIsKnown, toldIsOver, successIsHeard, savedIsHeard
  <2> QED BY <1>1, <1>2, <1>3, <2>2, <2>4, <2>5, <2>6, <2>7, <2>8, <2>9, <2>10, <2>11, <2>12,
             StepAboutATask, ThreadInvsKept DEF taskInv

(* CI acknowledges a verdict.                                             *)
LEMMA CallbackAcknowledgedKeepsInv ==
  ASSUME Inv, NEW w \in Workers, NEW t \in Tasks, mine(w) = t, CallbackAcknowledged(w)
  PROVE  Inv'
<1>1. /\ thread[w].pc = "callback"
      /\ disk' = disk /\ queue' = queue /\ active' = active /\ deleted' = deleted
      /\ deleting' = deleting /\ up' = up /\ restarts' = restarts /\ sweeps' = sweeps
      /\ refused' = refused /\ raced' = raced /\ untold' = untold
  BY DEF CallbackAcknowledged, store, history
<1>2. /\ TypeOK /\ taskInv(t) /\ threadInv(w) /\ w \in Threads
      /\ (w \in Workers <=> w # Sweeper)
  BY ServiceAssumption DEF Inv, Threads
<1>3. /\ up /\ thread[w] \in Thread /\ thread \in [Threads -> Thread]
      /\ thread[w].task = t /\ (thread[w].pc \notin {"save", "write"} => thread[w].then = "idle")
      /\ record[t] \in Record /\ record \in [Tasks -> Record] /\ record[t].attempts \in Nat
      /\ queue[t] \in Nat /\ sweeps[t] \in Nat
  BY <1>2, TaskOfAThread
<1> QED
  <2>1. /\ heard' = [heard EXCEPT ![t] = thread[w].verdict]
        /\ record' = [record EXCEPT ![t].told = thread[w].verdict]
        /\ _save_record(w, "unmark")
    BY DEF CallbackAcknowledged
  <2>2. /\ thread' \in [Threads -> Thread] /\ \A q \in Threads \ {w} : thread'[q] = thread[q]
        /\ thread'[w].task = t /\ thread'[w].verdict = thread[w].verdict
        /\ thread'[w].pc = "save" /\ thread'[w].then = "unmark"
    BY <1>1, <1>2, <1>3, <2>1, ThreadSaves DEF Pcs, Sweeping
  <2>3. /\ record' \in [Tasks -> Record] /\ \A u \in Tasks \ {t} : record'[u] = record[u]
        /\ record'[t].status = record[t].status /\ record'[t].told = thread[w].verdict
        /\ record'[t].attempts = record[t].attempts
        /\ heard' \in [Tasks -> Verdicts \cup {"none"}] /\ heard'[t] = thread[w].verdict
        /\ \A u \in Tasks \ {t} : heard'[u] = heard[u]
    BY <1>2, <1>3, <2>1 DEF Record, Thread, TypeOK
  <2>4. TypeOK'
    BY <1>1, <1>2, <1>3, <2>1, <2>2, <2>3 DEF TypeOK
  <2>5. threadInv(w)'
    BY <1>1, <1>2, <1>3, <2>1, <2>2, <2>3, ServiceAssumption DEF threadInv, AfterWorkerSave, Sweeping, Threads
  <2>6. touchesOnly(t)
    BY <1>1, <1>2, <1>3, <2>1, <2>2, <2>3 DEF touchesOnly
  <2>7. known(t)'
    BY <1>1, <1>2, <1>3, <2>1, <2>2, <2>3 DEF taskInv, known, listed, mine
  <2>8. served(t)'
    BY <1>1, <1>2, <1>3, <2>1, <2>2, <2>3 DEF taskInv, served, listed, mine, claims
  <2>9. gone(t)'
    BY <1>1, <1>2, <1>3, <2>1, <2>2, <2>3 DEF taskInv, gone, listed, mine
  <2>10. attemptsLeft(t)'
    BY <1>1, <1>2, <1>3, <2>1, <2>2, <2>3 DEF taskInv, attemptsLeft
  <2>11. paid(t)'
    <3>1. w \in holders(t) /\ w \notin claimants(t)
      BY <1>1, <1>2, <1>3, <2>1, <2>2, <2>3 DEF holders, claimants, holds, claims, mine
    <3>2. w \in holders(t)' /\ w \notin claimants(t)'
      BY <1>1, <1>2, <1>3, <2>1, <2>2, <2>3 DEF holders, claimants, holds, claims, mine
    <3>3. /\ Cardinality(holders(t)') = Cardinality(holders(t))
          /\ Cardinality(claimants(t)') = Cardinality(claimants(t))
          /\ Cardinality(holders(t)) \in Nat /\ Cardinality(claimants(t)) \in Nat
      BY <1>1, <1>2, <1>3, <2>1, <2>2, <2>3, <3>1, <3>2, CountsOfAStep
    <3> QED BY <1>1, <1>2, <1>3, <2>1, <2>2, <2>3, <3>3, ServiceAssumption DEF taskInv, paid
  <2>12. told(t)'
    <3>1. sweeps[t] = 0 =>
           /\ queue[t] = 0
           /\ \A q \in Workers \ {w} : ~callsBack(q, t)' /\ (thread'[q].task = t => thread'[q].pc = "unmark")
      BY <1>1, <1>2, <1>3, <2>1, <2>2, <2>3, NobodyElseTells DEF callsBack, mine, Threads
    <3>2. ~callsBack(w, t)' /\ callsBack(w, t)
      BY <1>1, <1>3, <2>2 DEF callsBack, mine
    <3>3. verdictIsKnown(t)'
      BY <1>1, <3>1, <3>2 DEF verdictIsKnown
    <3>4. toldIsOver(t)'
      <4>1. sweeps[t] = 0 => record'[t].status \in Finished
        BY <1>2, <2>3, <3>2 DEF taskInv, told, verdictIsKnown
      <4>2. sweeps[t] = 0 => \A q \in Workers : thread'[q].task = t => "unmark" \in {thread'[q].pc, thread'[q].then}
        BY <2>2, <3>1
      <4> QED BY <1>1, <1>2, <3>1, <4>1, <4>2 DEF taskInv, told, toldIsOver, mine
    <3>5. successIsHeard(t)'
      BY <1>1, <1>2, <2>3, <3>2 DEF successIsHeard, taskInv, told, verdictIsKnown
    <3>6. savedIsHeard(t)'
      BY <2>2 DEF savedIsHeard, mine
    <3> QED BY <3>3, <3>4, <3>5, <3>6 DEF told
  <2> QED BY <1>1, <1>2, <1>3, <2>2, <2>4, <2>5, <2>6, <2>7, <2>8, <2>9, <2>10, <2>11, <2>12,
             StepAboutATask, ThreadInvsKept DEF taskInv

(* No acknowledgement: the task fails, whatever CI has heard.              *)
LEMMA CallbackFailsKeepsInv ==
  ASSUME Inv, NEW w \in Workers, NEW t \in Tasks, mine(w) = t, CallbackFails(w)
  PROVE  Inv'
<1>1. /\ thread[w].pc = "callback"
      /\ disk' = disk /\ queue' = queue /\ active' = active /\ deleted' = deleted
      /\ deleting' = deleting /\ up' = up /\ restarts' = restarts /\ sweeps' = sweeps
      /\ refused' = refused /\ raced' = raced /\ untold' = untold
  BY DEF CallbackFails, store, history
<1>2. /\ TypeOK /\ taskInv(t) /\ threadInv(w) /\ w \in Threads
      /\ (w \in Workers <=> w # Sweeper)
  BY ServiceAssumption DEF Inv, Threads
<1>3. /\ up /\ thread[w] \in Thread /\ thread \in [Threads -> Thread]
      /\ thread[w].task = t /\ (thread[w].pc \notin {"save", "write"} => thread[w].then = "idle")
      /\ record[t] \in Record /\ record \in [Tasks -> Record] /\ record[t].attempts \in Nat
      /\ queue[t] \in Nat /\ sweeps[t] \in Nat
  BY <1>2, TaskOfAThread
<1>4. PICK h \in {heard[t], thread[w].verdict} : heard' = [heard EXCEPT ![t] = h]
  BY DEF CallbackFails
<1>5. /\ heard' \in [Tasks -> Verdicts \cup {"none"}] /\ \A u \in Tasks \ {t} : heard'[u] = heard[u]
  BY <1>2, <1>3, <1>4 DEF TypeOK, Thread
<1>6. CASE t \in deleted
  <2>1. /\ thread' = [thread EXCEPT ![w].pc = "unmark"] /\ record' = record /\ t \in deleted
        /\ heard' \in [Tasks -> Verdicts \cup {"none"}]
        /\ \A u \in Tasks \ {t} : heard'[u] = heard[u]
    BY <1>5, <1>6 DEF CallbackFails, fail
  <2>2. /\ thread' \in [Threads -> Thread] /\ \A q \in Threads \ {w} : thread'[q] = thread[q]
        /\ thread'[w].task = t /\ thread'[w].verdict = thread[w].verdict
        /\ thread'[w].pc = "unmark" /\ thread'[w].then = "idle"
    BY <1>1, <1>2, <1>3, <2>1, ThreadGoes DEF Pcs, Sweeping
  <2>3. record' \in [Tasks -> Record] /\ \A u \in Tasks \ {t} : record'[u] = record[u]
    BY <1>2, <1>3, <2>1 DEF TypeOK
  <2>4. TypeOK'
    BY <1>1, <1>2, <1>3, <2>1, <2>2, <2>3 DEF TypeOK
  <2>5. threadInv(w)'
    BY <1>1, <1>2, <1>3, <2>1, <2>2, <2>3, ServiceAssumption DEF threadInv, AfterWorkerSave, Sweeping, Threads
  <2>6. touchesOnly(t)
    BY <1>1, <1>2, <1>3, <2>1, <2>2, <2>3 DEF touchesOnly
  <2>7. known(t)'
    BY <1>1, <1>2, <1>3, <2>1, <2>2, <2>3 DEF taskInv, known, listed, mine
  <2>8. served(t)'
    BY <1>1, <1>2, <1>3, <2>1, <2>2, <2>3 DEF taskInv, served, listed, mine, claims
  <2>9. gone(t)'
    BY <1>1, <1>2, <1>3, <2>1, <2>2, <2>3 DEF taskInv, gone, listed, mine
  <2>10. attemptsLeft(t)'
    BY <1>1, <1>2, <1>3, <2>1, <2>2, <2>3 DEF taskInv, attemptsLeft
  <2>11. paid(t)'
    <3>1. w \in holders(t) /\ w \notin claimants(t)
      BY <1>1, <1>2, <1>3, <2>1, <2>2, <2>3 DEF holders, claimants, holds, claims, mine
    <3>2. w \notin holders(t)' /\ w \notin claimants(t)'
      BY <1>1, <1>2, <1>3, <2>1, <2>2, <2>3 DEF holders, claimants, holds, claims, mine
    <3>3. /\ Cardinality(holders(t)') = Cardinality(holders(t)) - 1
          /\ Cardinality(claimants(t)') = Cardinality(claimants(t))
          /\ Cardinality(holders(t)) \in Nat /\ Cardinality(claimants(t)) \in Nat
      BY <1>1, <1>2, <1>3, <2>1, <2>2, <2>3, <3>1, <3>2, CountsOfAStep
    <3> QED BY <1>1, <1>2, <1>3, <2>1, <2>2, <2>3, <3>3, ServiceAssumption DEF taskInv, paid
  <2>12. told(t)'
    <3>1. sweeps[t] = 0 => record[t].told = "none"
      BY <1>1, <1>2, <1>3 DEF taskInv, told, toldIsOver, mine
    <3>2. ~callsBack(w, t)' /\ \A q \in Workers \ {w} : thread'[q] = thread[q]
      BY <1>1, <1>2, <1>3, <2>1, <2>2, <2>3 DEF callsBack, mine, Threads
    <3>3. verdictIsKnown(t)'
      BY <1>1, <1>2, <2>1, <3>2 DEF taskInv, told, verdictIsKnown, callsBack, mine
    <3>4. toldIsOver(t)'
      BY <1>1, <1>2, <2>1, <3>1 DEF taskInv, told, toldIsOver
    <3>5. successIsHeard(t)' /\ savedIsHeard(t)'
      BY <1>1, <2>1 DEF successIsHeard, savedIsHeard
    <3> QED BY <3>3, <3>4, <3>5 DEF told
  <2> QED BY <1>1, <1>2, <1>3, <2>2, <2>4, <2>5, <2>6, <2>7, <2>8, <2>9, <2>10, <2>11, <2>12,
             StepAboutATask, ThreadInvsKept DEF taskInv
<1>7. CASE t \notin deleted
  <2>1. /\ record' = [record EXCEPT ![t].status = "failed"]
        /\ _save_record(w, "unmark") /\ t \notin deleted
        /\ heard' \in [Tasks -> Verdicts \cup {"none"}]
        /\ \A u \in Tasks \ {t} : heard'[u] = heard[u]
    BY <1>5, <1>7 DEF CallbackFails, fail
  <2>2. /\ thread' \in [Threads -> Thread] /\ \A q \in Threads \ {w} : thread'[q] = thread[q]
        /\ thread'[w].task = t /\ thread'[w].verdict = thread[w].verdict
        /\ thread'[w].pc = "save" /\ thread'[w].then = "unmark"
    BY <1>1, <1>2, <1>3, <2>1, ThreadSaves DEF Pcs, Sweeping
  <2>3. /\ record' \in [Tasks -> Record] /\ \A u \in Tasks \ {t} : record'[u] = record[u]
        /\ record'[t].status = "failed" /\ record'[t].told = record[t].told
        /\ record'[t].attempts = record[t].attempts
    BY <1>3, <2>1 DEF Record, Finished
  <2>4. TypeOK'
    BY <1>1, <1>2, <1>3, <2>1, <2>2, <2>3 DEF TypeOK
  <2>5. threadInv(w)'
    BY <1>1, <1>2, <1>3, <2>1, <2>2, <2>3, ServiceAssumption DEF threadInv, AfterWorkerSave, Sweeping, Threads
  <2>6. touchesOnly(t)
    BY <1>1, <1>2, <1>3, <2>1, <2>2, <2>3 DEF touchesOnly
  <2>7. known(t)'
    BY <1>1, <1>2, <1>3, <2>1, <2>2, <2>3 DEF taskInv, known, listed, mine
  <2>8. served(t)'
    BY <1>1, <1>2, <1>3, <2>1, <2>2, <2>3 DEF taskInv, served, listed, mine, claims
  <2>9. gone(t)'
    BY <1>1, <1>2, <1>3, <2>1, <2>2, <2>3 DEF taskInv, gone, listed, mine
  <2>10. attemptsLeft(t)'
    BY <1>1, <1>2, <1>3, <2>1, <2>2, <2>3 DEF taskInv, attemptsLeft
  <2>11. paid(t)'
    <3>1. w \in holders(t) /\ w \notin claimants(t)
      BY <1>1, <1>2, <1>3, <2>1, <2>2, <2>3 DEF holders, claimants, holds, claims, mine
    <3>2. w \in holders(t)' /\ w \notin claimants(t)'
      BY <1>1, <1>2, <1>3, <2>1, <2>2, <2>3 DEF holders, claimants, holds, claims, mine
    <3>3. /\ Cardinality(holders(t)') = Cardinality(holders(t))
          /\ Cardinality(claimants(t)') = Cardinality(claimants(t))
          /\ Cardinality(holders(t)) \in Nat /\ Cardinality(claimants(t)) \in Nat
      BY <1>1, <1>2, <1>3, <2>1, <2>2, <2>3, <3>1, <3>2, CountsOfAStep
    <3> QED BY <1>1, <1>2, <1>3, <2>1, <2>2, <2>3, <3>3, ServiceAssumption DEF taskInv, paid
  <2>12. told(t)'
    <3>1. sweeps[t] = 0 => record[t].told = "none"
      BY <1>1, <1>2, <1>3 DEF taskInv, told, toldIsOver, mine
    <3>2. verdictIsKnown(t)' /\ successIsHeard(t)'
      BY <2>3 DEF verdictIsKnown, successIsHeard, Finished
    <3>3. toldIsOver(t)'
      BY <1>1, <1>2, <2>3, <3>1 DEF taskInv, told, toldIsOver
    <3>4. savedIsHeard(t)'
      BY <2>2 DEF savedIsHeard, mine
    <3> QED BY <3>2, <3>3, <3>4 DEF told
  <2> QED BY <1>1, <1>2, <1>3, <2>2, <2>4, <2>5, <2>6, <2>7, <2>8, <2>9, <2>10, <2>11, <2>12,
             StepAboutATask, ThreadInvsKept DEF taskInv
<1> QED BY <1>6, <1>7

(* A run without a verdict.                                               *)
LEMMA FailKeepsInv ==
  ASSUME Inv, NEW w \in Workers, NEW t \in Tasks, mine(w) = t, Fail(w)
  PROVE  Inv'
<1>1. /\ thread[w].pc \in {"checkout", "analyse"}
      /\ disk' = disk /\ queue' = queue /\ active' = active /\ deleted' = deleted
      /\ deleting' = deleting /\ up' = up /\ restarts' = restarts /\ heard' = heard
      /\ sweeps' = sweeps /\ refused' = refused /\ raced' = raced /\ untold' = untold
  BY DEF Fail, store, history
<1>2. /\ TypeOK /\ taskInv(t) /\ threadInv(w) /\ w \in Threads
      /\ (w \in Workers <=> w # Sweeper)
  BY ServiceAssumption DEF Inv, Threads
<1>3. /\ up /\ thread[w] \in Thread /\ thread \in [Threads -> Thread]
      /\ thread[w].task = t /\ (thread[w].pc \notin {"save", "write"} => thread[w].then = "idle")
      /\ record[t] \in Record /\ record \in [Tasks -> Record] /\ record[t].attempts \in Nat
      /\ queue[t] \in Nat /\ sweeps[t] \in Nat
  BY <1>2, TaskOfAThread
<1>4. CASE t \in deleted
  <2>1. /\ thread' = [thread EXCEPT ![w].pc = "unmark"] /\ record' = record /\ t \in deleted
    BY <1>4 DEF Fail, fail
  <2>2. /\ thread' \in [Threads -> Thread] /\ \A q \in Threads \ {w} : thread'[q] = thread[q]
        /\ thread'[w].task = t /\ thread'[w].verdict = thread[w].verdict
        /\ thread'[w].pc = "unmark" /\ thread'[w].then = "idle"
    BY <1>1, <1>2, <1>3, <2>1, ThreadGoes DEF Pcs, Sweeping
  <2>3. record' \in [Tasks -> Record] /\ \A u \in Tasks \ {t} : record'[u] = record[u]
    BY <1>2, <1>3, <2>1 DEF TypeOK
  <2>4. TypeOK'
    BY <1>1, <1>2, <1>3, <2>1, <2>2, <2>3 DEF TypeOK
  <2>5. threadInv(w)'
    BY <1>1, <1>2, <1>3, <2>1, <2>2, <2>3, ServiceAssumption DEF threadInv, AfterWorkerSave, Sweeping, Threads
  <2>6. touchesOnly(t)
    BY <1>1, <1>2, <1>3, <2>1, <2>2, <2>3 DEF touchesOnly
  <2>7. known(t)'
    BY <1>1, <1>2, <1>3, <2>1, <2>2, <2>3 DEF taskInv, known, listed, mine
  <2>8. served(t)'
    BY <1>1, <1>2, <1>3, <2>1, <2>2, <2>3 DEF taskInv, served, listed, mine, claims
  <2>9. gone(t)'
    BY <1>1, <1>2, <1>3, <2>1, <2>2, <2>3 DEF taskInv, gone, listed, mine
  <2>10. attemptsLeft(t)'
    BY <1>1, <1>2, <1>3, <2>1, <2>2, <2>3 DEF taskInv, attemptsLeft
  <2>11. paid(t)'
    <3>1. w \in holders(t) /\ w \notin claimants(t)
      BY <1>1, <1>2, <1>3, <2>1, <2>2, <2>3 DEF holders, claimants, holds, claims, mine
    <3>2. w \notin holders(t)' /\ w \notin claimants(t)'
      BY <1>1, <1>2, <1>3, <2>1, <2>2, <2>3 DEF holders, claimants, holds, claims, mine
    <3>3. /\ Cardinality(holders(t)') = Cardinality(holders(t)) - 1
          /\ Cardinality(claimants(t)') = Cardinality(claimants(t))
          /\ Cardinality(holders(t)) \in Nat /\ Cardinality(claimants(t)) \in Nat
      BY <1>1, <1>2, <1>3, <2>1, <2>2, <2>3, <3>1, <3>2, CountsOfAStep
    <3> QED BY <1>1, <1>2, <1>3, <2>1, <2>2, <2>3, <3>3, ServiceAssumption DEF taskInv, paid
  <2>12. told(t)'
    <3>1. \A q \in Workers : callsBack(q, t)' <=> callsBack(q, t)
      BY <1>1, <1>2, <1>3, <2>1, <2>2, <2>3, ServiceAssumption DEF callsBack, mine, Threads
    <3>2. sweeps[t] = 0 /\ record[t].told # "none" =>
           /\ queue'[t] = 0
           /\ \A q \in Workers : thread'[q].task = t =>
                "unmark" \in {thread'[q].pc, thread'[q].then}
      BY <1>1, <1>2, <1>3, <2>1, <2>2, <2>3 DEF taskInv, told, toldIsOver, mine, Threads
    <3>3. \A q \in Workers :
           /\ callsBack(q, t) => thread'[q].verdict = thread[q].verdict
           /\ mine(q) = t /\ thread[q].then = "unmark" =>
                thread'[q].task = t /\ thread'[q].then = "unmark"
      BY <1>1, <1>2, <1>3, <2>1, <2>2, <2>3 DEF callsBack, mine, Threads
    <3> QED BY <1>1, <1>2, <1>3, <2>1, <2>2, <2>3, <3>1, <3>2, <3>3, ToldKept DEF taskInv, callsBack
  <2> QED BY <1>1, <1>2, <1>3, <2>2, <2>4, <2>5, <2>6, <2>7, <2>8, <2>9, <2>10, <2>11, <2>12,
             StepAboutATask, ThreadInvsKept DEF taskInv
<1>5. CASE t \notin deleted
  <2>1. /\ record' = [record EXCEPT ![t].status = "failed"]
        /\ _save_record(w, "unmark") /\ t \notin deleted
    BY <1>5 DEF Fail, fail
  <2>2. /\ thread' \in [Threads -> Thread] /\ \A q \in Threads \ {w} : thread'[q] = thread[q]
        /\ thread'[w].task = t /\ thread'[w].verdict = thread[w].verdict
        /\ thread'[w].pc = "save" /\ thread'[w].then = "unmark"
    BY <1>1, <1>2, <1>3, <2>1, ThreadSaves DEF Pcs, Sweeping
  <2>3. /\ record' \in [Tasks -> Record] /\ \A u \in Tasks \ {t} : record'[u] = record[u]
        /\ record'[t].status = "failed" /\ record'[t].told = record[t].told
        /\ record'[t].attempts = record[t].attempts
    BY <1>3, <2>1 DEF Record, Finished
  <2>4. TypeOK'
    BY <1>1, <1>2, <1>3, <2>1, <2>2, <2>3 DEF TypeOK
  <2>5. threadInv(w)'
    BY <1>1, <1>2, <1>3, <2>1, <2>2, <2>3, ServiceAssumption DEF threadInv, AfterWorkerSave, Sweeping, Threads
  <2>6. touchesOnly(t)
    BY <1>1, <1>2, <1>3, <2>1, <2>2, <2>3 DEF touchesOnly
  <2>7. known(t)'
    BY <1>1, <1>2, <1>3, <2>1, <2>2, <2>3 DEF taskInv, known, listed, mine
  <2>8. served(t)'
    BY <1>1, <1>2, <1>3, <2>1, <2>2, <2>3 DEF taskInv, served, listed, mine, claims
  <2>9. gone(t)'
    BY <1>1, <1>2, <1>3, <2>1, <2>2, <2>3 DEF taskInv, gone, listed, mine
  <2>10. attemptsLeft(t)'
    BY <1>1, <1>2, <1>3, <2>1, <2>2, <2>3 DEF taskInv, attemptsLeft
  <2>11. paid(t)'
    <3>1. w \in holders(t) /\ w \notin claimants(t)
      BY <1>1, <1>2, <1>3, <2>1, <2>2, <2>3 DEF holders, claimants, holds, claims, mine
    <3>2. w \in holders(t)' /\ w \notin claimants(t)'
      BY <1>1, <1>2, <1>3, <2>1, <2>2, <2>3 DEF holders, claimants, holds, claims, mine
    <3>3. /\ Cardinality(holders(t)') = Cardinality(holders(t))
          /\ Cardinality(claimants(t)') = Cardinality(claimants(t))
          /\ Cardinality(holders(t)) \in Nat /\ Cardinality(claimants(t)) \in Nat
      BY <1>1, <1>2, <1>3, <2>1, <2>2, <2>3, <3>1, <3>2, CountsOfAStep
    <3> QED BY <1>1, <1>2, <1>3, <2>1, <2>2, <2>3, <3>3, ServiceAssumption DEF taskInv, paid
  <2>12. told(t)'
    <3>1. sweeps[t] = 0 => record[t].told = "none"
      BY <1>1, <1>2, <1>3 DEF taskInv, told, toldIsOver, mine
    <3>2. verdictIsKnown(t)' /\ successIsHeard(t)'
      BY <2>3 DEF verdictIsKnown, successIsHeard, Finished
    <3>3. toldIsOver(t)'
      BY <1>1, <1>2, <2>3, <3>1 DEF taskInv, told, toldIsOver
    <3>4. savedIsHeard(t)'
      BY <2>2 DEF savedIsHeard, mine
    <3> QED BY <3>2, <3>3, <3>4 DEF told
  <2> QED BY <1>1, <1>2, <1>3, <2>2, <2>4, <2>5, <2>6, <2>7, <2>8, <2>9, <2>10, <2>11, <2>12,
             StepAboutATask, ThreadInvsKept DEF taskInv
<1> QED BY <1>4, <1>5

(* A timeout with attempts left.                                          *)
LEMMA TimeoutKeepsInv ==
  ASSUME Inv, NEW w \in Workers, NEW t \in Tasks, mine(w) = t, Timeout(w)
  PROVE  Inv'
<1>1. /\ thread[w].pc = "analyse" /\ t \notin deleted /\ record[t].attempts < MaxAttempts
      /\ disk' = disk /\ queue' = queue /\ active' = active /\ deleted' = deleted
      /\ deleting' = deleting /\ up' = up /\ restarts' = restarts /\ heard' = heard
      /\ sweeps' = sweeps /\ refused' = refused /\ raced' = raced /\ untold' = untold
  BY DEF Timeout, store, history
<1>2. /\ TypeOK /\ taskInv(t) /\ threadInv(w) /\ w \in Threads
      /\ (w \in Workers <=> w # Sweeper)
  BY ServiceAssumption DEF Inv, Threads
<1>3. /\ up /\ thread[w] \in Thread /\ thread \in [Threads -> Thread]
      /\ thread[w].task = t /\ (thread[w].pc \notin {"save", "write"} => thread[w].then = "idle")
      /\ record[t] \in Record /\ record \in [Tasks -> Record] /\ record[t].attempts \in Nat
      /\ queue[t] \in Nat /\ sweeps[t] \in Nat
  BY <1>2, TaskOfAThread
<1> QED
  <2>1. record' = [record EXCEPT ![t] = back_to_queue(@)] /\ _save_record(w, "enqueue")
    BY DEF Timeout
  <2>2. /\ thread' \in [Threads -> Thread] /\ \A q \in Threads \ {w} : thread'[q] = thread[q]
        /\ thread'[w].task = t /\ thread'[w].verdict = thread[w].verdict
        /\ thread'[w].pc = "save" /\ thread'[w].then = "enqueue"
    BY <1>1, <1>2, <1>3, <2>1, ThreadSaves DEF Pcs, Sweeping
  <2>3. /\ record' \in [Tasks -> Record] /\ \A u \in Tasks \ {t} : record'[u] = record[u]
        /\ record'[t].status = "queued" /\ record'[t].told = record[t].told
        /\ record'[t].attempts = record[t].attempts
    BY <1>3, <2>1 DEF Record, InFlight, back_to_queue
  <2>4. TypeOK'
    BY <1>1, <1>2, <1>3, <2>1, <2>2, <2>3 DEF TypeOK
  <2>5. threadInv(w)'
    BY <1>1, <1>2, <1>3, <2>1, <2>2, <2>3, ServiceAssumption DEF threadInv, AfterWorkerSave, Sweeping, Threads
  <2>6. touchesOnly(t)
    BY <1>1, <1>2, <1>3, <2>1, <2>2, <2>3 DEF touchesOnly
  <2>7. known(t)'
    BY <1>1, <1>2, <1>3, <2>1, <2>2, <2>3 DEF taskInv, known, listed, mine
  <2>8. served(t)'
    BY <1>2, <2>2 DEF served, claims, mine
  <2>9. gone(t)'
    BY <1>1, <1>2, <1>3, <2>1, <2>2, <2>3 DEF taskInv, gone, listed, mine
  <2>10. attemptsLeft(t)'
    BY <1>1, <1>2, <1>3, <2>3, ServiceAssumption DEF taskInv, attemptsLeft
  <2>11. paid(t)'
    <3>1. w \in holders(t) /\ w \notin claimants(t)
      BY <1>1, <1>2, <1>3, <2>1, <2>2, <2>3 DEF holders, claimants, holds, claims, mine
    <3>2. w \in holders(t)' /\ w \in claimants(t)'
      BY <1>1, <1>2, <1>3, <2>1, <2>2, <2>3 DEF holders, claimants, holds, claims, mine
    <3>3. /\ Cardinality(holders(t)') = Cardinality(holders(t))
          /\ Cardinality(claimants(t)') = Cardinality(claimants(t)) + 1
          /\ Cardinality(holders(t)) \in Nat /\ Cardinality(claimants(t)) \in Nat
      BY <1>1, <1>2, <1>3, <2>1, <2>2, <2>3, <3>1, <3>2, CountsOfAStep
    <3>4. queue[t] + Cardinality(claimants(t)) <= sweeps[t]
      BY <3>1, RunnerIsPaid
    <3> QED BY <1>1, <1>2, <1>3, <2>1, <2>2, <2>3, <3>3, <3>4, ServiceAssumption DEF taskInv, paid
  <2>12. told(t)'
    <3>1. sweeps[t] = 0 => record[t].told = "none"
      BY <1>1, <1>2, <1>3 DEF taskInv, told, toldIsOver, mine
    <3>2. sweeps[t] = 0 => \A q \in Workers : ~callsBack(q, t)'
      BY <1>1, <1>2, <1>3, <2>1, <2>2, <2>3, NobodyElseTells DEF callsBack, mine, Threads
    <3>3. verdictIsKnown(t)' /\ successIsHeard(t)'
      BY <1>1, <2>3, <3>2 DEF verdictIsKnown, successIsHeard
    <3>4. toldIsOver(t)'
      BY <1>1, <1>2, <2>3, <3>1 DEF taskInv, told, toldIsOver
    <3>5. savedIsHeard(t)'
      <4>1. \A q \in Workers : callsBack(q, t) => callsBack(q, t)'
        BY <1>1, <1>2, <1>3, <2>1, <2>2, <2>3 DEF callsBack, mine, Threads
      <4>2. \A q \in Workers : mine(q) = t /\ thread[q].then = "unmark" => mine(q)' = t /\ thread'[q].then = "unmark"
        BY <1>1, <1>2, <1>3, <2>1, <2>2, <2>3 DEF mine, Threads
      <4> QED BY <1>1, <1>2, <1>3, <2>1, <2>2, <2>3, <4>1, <4>2 DEF taskInv, told, savedIsHeard
    <3> QED BY <3>3, <3>4, <3>5 DEF told
  <2> QED BY <1>1, <1>2, <1>3, <2>2, <2>4, <2>5, <2>6, <2>7, <2>8, <2>9, <2>10, <2>11, <2>12,
             StepAboutATask, ThreadInvsKept DEF taskInv

(* A step that never ends, and the deletion that ends it after all.        *)
LEMMA HangKeepsInv ==
  ASSUME Inv, NEW w \in Workers, NEW t \in Tasks, mine(w) = t, Hang(w) \/ Freed(w)
  PROVE  Inv'
<1>1. PICK pc \in {"hung", "unmark"} :
        /\ thread' = [thread EXCEPT ![w].pc = pc]
        /\ thread[w].pc \in {"checkout", "analyse", "hung"}
        /\ UNCHANGED <<store, queue, active, deleted, deleting, up, restarts, heard, history>>
  BY DEF Hang, Freed
<1>2. /\ threadInv(w) /\ w \in Threads /\ thread[w] \in Thread /\ thread \in [Threads -> Thread]
      /\ thread[w].task = t /\ t # NoTask /\ w # Sweeper /\ thread[w].then = "idle"
  BY <1>1, TaskOfAThread, ServiceAssumption DEF Inv, Threads
<1>3. /\ thread' \in [Threads -> Thread] /\ \A q \in Threads \ {w} : thread'[q] = thread[q]
      /\ thread'[w].task = t /\ thread'[w].verdict = thread[w].verdict
      /\ thread'[w].pc = pc /\ thread'[w].then = "idle"
  BY <1>1, <1>2, ThreadGoes DEF Pcs
<1>4. threadInv(w)'
  BY <1>1, <1>2, <1>3 DEF threadInv, Sweeping
<1>5. /\ w \in holders(t) /\ w \notin claimants(t) /\ w \notin claimants(t)'
      /\ ~callsBack(w, t) /\ ~callsBack(w, t)'
  BY <1>1, <1>2, <1>3 DEF holders, claimants, holds, claims, callsBack, mine
<1> QED BY <1>1, <1>2, <1>3, <1>4, <1>5, ThreadMoves

(* Putting a task back, or finding the queue full.                        *)
LEMMA EnqueueKeepsInv ==
  ASSUME Inv, NEW w \in Workers, NEW t \in Tasks, mine(w) = t, Enqueue(w)
  PROVE  Inv'
<1>1. /\ thread[w].pc = "enqueue"
      /\ record' = record /\ disk' = disk /\ active' = active /\ deleted' = deleted
      /\ deleting' = deleting /\ up' = up /\ restarts' = restarts /\ heard' = heard
      /\ sweeps' = sweeps /\ raced' = raced /\ untold' = untold
  BY DEF Enqueue, store, history
<1>2. /\ TypeOK /\ taskInv(t) /\ threadInv(w) /\ w \in Threads
      /\ (w \in Workers <=> w # Sweeper)
  BY ServiceAssumption DEF Inv, Threads
<1>3. /\ up /\ thread[w] \in Thread /\ thread \in [Threads -> Thread]
      /\ thread[w].task = t /\ (thread[w].pc \notin {"save", "write"} => thread[w].then = "idle")
      /\ record[t] \in Record /\ record \in [Tasks -> Record] /\ record[t].attempts \in Nat
      /\ queue[t] \in Nat /\ sweeps[t] \in Nat
  BY <1>2, TaskOfAThread
<1>4. CASE queue' = [queue EXCEPT ![t] = @ + 1] /\ refused' = refused
  <2>1. /\ queue' = [queue EXCEPT ![t] = @ + 1] /\ refused' = refused
        /\ thread' = [thread EXCEPT ![w].pc = "unmark"]
    BY <1>4 DEF Enqueue
  <2>2. /\ thread' \in [Threads -> Thread] /\ \A q \in Threads \ {w} : thread'[q] = thread[q]
        /\ thread'[w].task = t /\ thread'[w].verdict = thread[w].verdict
        /\ thread'[w].pc = "unmark" /\ thread'[w].then = "idle"
    BY <1>1, <1>2, <1>3, <2>1, ThreadGoes DEF Pcs, Sweeping
  <2>3. /\ queue' \in [Tasks -> Nat] /\ \A u \in Tasks \ {t} : queue'[u] = queue[u]
        /\ queue'[t] = queue[t] + 1
        /\ record[t].status \notin {"absent", "gone"}
    BY <1>2, <1>3, <2>1 DEF TypeOK, taskInv, known, mine
  <2>4. TypeOK'
    BY <1>1, <1>2, <1>3, <2>1, <2>2, <2>3 DEF TypeOK
  <2>5. threadInv(w)'
    BY <1>1, <1>2, <1>3, <2>1, <2>2, <2>3, ServiceAssumption DEF threadInv, AfterWorkerSave, Sweeping, Threads
  <2>6. touchesOnly(t)
    BY <1>1, <1>2, <1>3, <2>1, <2>2, <2>3 DEF touchesOnly
  <2>7. known(t)'
    BY <1>1, <1>2, <1>3, <2>1, <2>2, <2>3 DEF taskInv, known, listed, mine
  <2>8. served(t)'
    BY <1>3, <2>3 DEF served
  <2>9. gone(t)'
    BY <1>1, <1>2, <1>3, <2>1, <2>2, <2>3 DEF taskInv, gone, listed, mine
  <2>10. attemptsLeft(t)'
    BY <1>1, <1>2, <1>3, <2>1, <2>2, <2>3 DEF taskInv, attemptsLeft
  <2>11. paid(t)'
    <3>1. w \in holders(t) /\ w \in claimants(t)
      BY <1>1, <1>2, <1>3, <2>1, <2>2, <2>3 DEF holders, claimants, holds, claims, mine
    <3>2. w \notin holders(t)' /\ w \notin claimants(t)'
      BY <1>1, <1>2, <1>3, <2>1, <2>2, <2>3 DEF holders, claimants, holds, claims, mine
    <3>3. /\ Cardinality(holders(t)') = Cardinality(holders(t)) - 1
          /\ Cardinality(claimants(t)') = Cardinality(claimants(t)) - 1
          /\ Cardinality(holders(t)) \in Nat /\ Cardinality(claimants(t)) \in Nat
      BY <1>1, <1>2, <1>3, <2>1, <2>2, <2>3, <3>1, <3>2, CountsOfAStep
    <3> QED BY <1>1, <1>2, <1>3, <2>1, <2>2, <2>3, <3>3, ServiceAssumption DEF taskInv, paid
  <2>12. told(t)'
    <3>1. \A q \in Workers : callsBack(q, t)' <=> callsBack(q, t)
      BY <1>1, <1>2, <1>3, <2>1, <2>2, <2>3, ServiceAssumption DEF callsBack, mine, Threads
    <3>2. sweeps[t] = 0 /\ record[t].told # "none" =>
           /\ queue'[t] = 0
           /\ \A q \in Workers : thread'[q].task = t =>
                "unmark" \in {thread'[q].pc, thread'[q].then}
      BY <1>1, <1>2, <1>3, <2>1, <2>2, <2>3 DEF taskInv, told, toldIsOver, mine, Threads
    <3>3. \A q \in Workers :
           /\ callsBack(q, t) => thread'[q].verdict = thread[q].verdict
           /\ mine(q) = t /\ thread[q].then = "unmark" =>
                thread'[q].task = t /\ thread'[q].then = "unmark"
      BY <1>1, <1>2, <1>3, <2>1, <2>2, <2>3 DEF callsBack, mine, Threads
    <3> QED BY <1>1, <1>2, <1>3, <2>1, <2>2, <2>3, <3>1, <3>2, <3>3, ToldKept DEF taskInv, callsBack
  <2> QED BY <1>1, <1>2, <1>3, <2>2, <2>4, <2>5, <2>6, <2>7, <2>8, <2>9, <2>10, <2>11, <2>12,
             StepAboutATask, ThreadInvsKept DEF taskInv
<1>5. CASE queue' = queue /\ refused' = refused \cup {t}
  <2>1. /\ queue' = queue /\ refused' = refused \cup {t}
        /\ thread' = [thread EXCEPT ![w].pc = "unmark"]
    BY <1>5 DEF Enqueue
  <2>2. /\ thread' \in [Threads -> Thread] /\ \A q \in Threads \ {w} : thread'[q] = thread[q]
        /\ thread'[w].task = t /\ thread'[w].verdict = thread[w].verdict
        /\ thread'[w].pc = "unmark" /\ thread'[w].then = "idle"
    BY <1>1, <1>2, <1>3, <2>1, ThreadGoes DEF Pcs, Sweeping
  <2>3. /\ queue' \in [Tasks -> Nat] /\ \A u \in Tasks \ {t} : queue'[u] = queue[u]
        /\ queue'[t] = queue[t]
        /\ record[t].status \notin {"absent", "gone"}
    BY <1>2, <1>3, <2>1 DEF TypeOK, taskInv, known, mine
  <2>4. TypeOK'
    BY <1>1, <1>2, <1>3, <2>1, <2>2, <2>3 DEF TypeOK
  <2>5. threadInv(w)'
    BY <1>1, <1>2, <1>3, <2>1, <2>2, <2>3, ServiceAssumption DEF threadInv, AfterWorkerSave, Sweeping, Threads
  <2>6. touchesOnly(t)
    BY <1>1, <1>2, <1>3, <2>1, <2>2, <2>3 DEF touchesOnly
  <2>7. known(t)'
    BY <1>1, <1>2, <1>3, <2>1, <2>2, <2>3 DEF taskInv, known, listed, mine
  <2>8. served(t)'
    BY <1>1, <1>2, <1>3, <2>1, <2>2, <2>3 DEF taskInv, served, listed, mine, claims
  <2>9. gone(t)'
    BY <1>1, <1>2, <1>3, <2>1, <2>2, <2>3 DEF taskInv, gone, listed, mine
  <2>10. attemptsLeft(t)'
    BY <1>1, <1>2, <1>3, <2>1, <2>2, <2>3 DEF taskInv, attemptsLeft
  <2>11. paid(t)'
    <3>1. w \in holders(t) /\ w \in claimants(t)
      BY <1>1, <1>2, <1>3, <2>1, <2>2, <2>3 DEF holders, claimants, holds, claims, mine
    <3>2. w \notin holders(t)' /\ w \notin claimants(t)'
      BY <1>1, <1>2, <1>3, <2>1, <2>2, <2>3 DEF holders, claimants, holds, claims, mine
    <3>3. /\ Cardinality(holders(t)') = Cardinality(holders(t)) - 1
          /\ Cardinality(claimants(t)') = Cardinality(claimants(t)) - 1
          /\ Cardinality(holders(t)) \in Nat /\ Cardinality(claimants(t)) \in Nat
      BY <1>1, <1>2, <1>3, <2>1, <2>2, <2>3, <3>1, <3>2, CountsOfAStep
    <3> QED BY <1>1, <1>2, <1>3, <2>1, <2>2, <2>3, <3>3, ServiceAssumption DEF taskInv, paid
  <2>12. told(t)'
    <3>1. \A q \in Workers : callsBack(q, t)' <=> callsBack(q, t)
      BY <1>1, <1>2, <1>3, <2>1, <2>2, <2>3, ServiceAssumption DEF callsBack, mine, Threads
    <3>2. sweeps[t] = 0 /\ record[t].told # "none" =>
           /\ queue'[t] = 0
           /\ \A q \in Workers : thread'[q].task = t =>
                "unmark" \in {thread'[q].pc, thread'[q].then}
      BY <1>1, <1>2, <1>3, <2>1, <2>2, <2>3 DEF taskInv, told, toldIsOver, mine, Threads
    <3>3. \A q \in Workers :
           /\ callsBack(q, t) => thread'[q].verdict = thread[q].verdict
           /\ mine(q) = t /\ thread[q].then = "unmark" =>
                thread'[q].task = t /\ thread'[q].then = "unmark"
      BY <1>1, <1>2, <1>3, <2>1, <2>2, <2>3 DEF callsBack, mine, Threads
    <3> QED BY <1>1, <1>2, <1>3, <2>1, <2>2, <2>3, <3>1, <3>2, <3>3, ToldKept DEF taskInv, callsBack
  <2> QED BY <1>1, <1>2, <1>3, <2>2, <2>4, <2>5, <2>6, <2>7, <2>8, <2>9, <2>10, <2>11, <2>12,
             StepAboutATask, ThreadInvsKept DEF taskInv
<1> QED BY <1>4, <1>5 DEF Enqueue, _enqueue_task

(* The worker is through with the task.                                   *)
LEMMA UnmarkKeepsInv ==
  ASSUME Inv, NEW w \in Workers, NEW t \in Tasks, mine(w) = t, Unmark(w)
  PROVE  Inv'
<1>1. /\ thread[w].pc = "unmark" /\ active' = active \ {t}
      /\ record' = record /\ disk' = disk /\ queue' = queue /\ deleted' = deleted
      /\ deleting' = deleting /\ up' = up /\ restarts' = restarts /\ heard' = heard
      /\ sweeps' = sweeps /\ refused' = refused /\ raced' = raced /\ untold' = untold
  BY DEF Unmark, store, history
<1>2. /\ TypeOK /\ taskInv(t) /\ threadInv(w) /\ w \in Threads
      /\ (w \in Workers <=> w # Sweeper)
  BY ServiceAssumption DEF Inv, Threads
<1>3. /\ up /\ thread[w] \in Thread /\ thread \in [Threads -> Thread]
      /\ thread[w].task = t /\ (thread[w].pc \notin {"save", "write"} => thread[w].then = "idle")
      /\ record[t] \in Record /\ record \in [Tasks -> Record] /\ record[t].attempts \in Nat
      /\ queue[t] \in Nat /\ sweeps[t] \in Nat
  BY <1>2, TaskOfAThread
<1> QED
  <2>1. thread' = [thread EXCEPT ![w] = [Idle EXCEPT !.pc = "idle", !.task = NoTask]]
    BY DEF Unmark, Idle
  <2>2. /\ thread' \in [Threads -> Thread] /\ \A q \in Threads \ {w} : thread'[q] = thread[q]
        /\ thread'[w].pc = "idle" /\ thread'[w].task = NoTask /\ thread'[w].then = "idle"
    BY <1>2, <1>3, <2>1, ThreadRests DEF Pcs, Sweeping
  <2>3. NoTask # t
    BY ServiceAssumption
  <2>4. TypeOK'
    BY <1>1, <1>2, <1>3, <2>1, <2>2, <2>3 DEF TypeOK
  <2>5. threadInv(w)'
    BY <1>1, <1>2, <1>3, <2>1, <2>2, <2>3, ServiceAssumption DEF threadInv, AfterWorkerSave, Sweeping, Threads
  <2>6. touchesOnly(t)
    BY <1>1, <1>2, <1>3, <2>1, <2>2, <2>3 DEF touchesOnly
  <2>7. known(t)'
    BY <1>1, <1>2, <1>3, <2>1, <2>2, <2>3 DEF taskInv, known, listed, mine
  <2>8. served(t)'
    BY <1>1, <1>2, <1>3, <2>1, <2>2, <2>3 DEF taskInv, served, listed, mine, claims
  <2>9. gone(t)'
    BY <1>1, <1>2, <1>3, <2>1, <2>2, <2>3 DEF taskInv, gone, listed, mine
  <2>10. attemptsLeft(t)'
    BY <1>1, <1>2, <1>3, <2>1, <2>2, <2>3 DEF taskInv, attemptsLeft
  <2>11. paid(t)'
    <3>1. w \notin holders(t) /\ w \notin claimants(t)
      BY <1>1, <1>2, <1>3, <2>1, <2>2, <2>3 DEF holders, claimants, holds, claims, mine
    <3>2. w \notin holders(t)' /\ w \notin claimants(t)'
      BY <1>1, <1>2, <1>3, <2>1, <2>2, <2>3 DEF holders, claimants, holds, claims, mine
    <3>3. /\ Cardinality(holders(t)') = Cardinality(holders(t))
          /\ Cardinality(claimants(t)') = Cardinality(claimants(t))
          /\ Cardinality(holders(t)) \in Nat /\ Cardinality(claimants(t)) \in Nat
      BY <1>1, <1>2, <1>3, <2>1, <2>2, <2>3, <3>1, <3>2, CountsOfAStep
    <3> QED BY <1>1, <1>2, <1>3, <2>1, <2>2, <2>3, <3>3, ServiceAssumption DEF taskInv, paid
  <2>12. told(t)'
    <3>1. \A q \in Workers : callsBack(q, t)' <=> callsBack(q, t)
      BY <1>1, <1>2, <1>3, <2>1, <2>2, <2>3, ServiceAssumption DEF callsBack, mine, Threads
    <3>2. sweeps[t] = 0 /\ record[t].told # "none" =>
           /\ queue'[t] = 0
           /\ \A q \in Workers : thread'[q].task = t =>
                "unmark" \in {thread'[q].pc, thread'[q].then}
      BY <1>1, <1>2, <1>3, <2>1, <2>2, <2>3 DEF taskInv, told, toldIsOver, mine, Threads
    <3>3. \A q \in Workers :
           /\ callsBack(q, t) => thread'[q].verdict = thread[q].verdict
           /\ mine(q) = t /\ thread[q].then = "unmark" =>
                thread'[q].task = t /\ thread'[q].then = "unmark"
      BY <1>1, <1>2, <1>3, <2>1, <2>2, <2>3 DEF callsBack, mine, Threads
    <3> QED BY <1>1, <1>2, <1>3, <2>1, <2>2, <2>3, <3>1, <3>2, <3>3, ToldKept DEF taskInv, callsBack
  <2> QED BY <1>1, <1>2, <1>3, <2>2, <2>4, <2>5, <2>6, <2>7, <2>8, <2>9, <2>10, <2>11, <2>12,
             StepAboutATask, ThreadInvsKept DEF taskInv

(* The write of a save: the disk catches up with the record.              *)
LEMMA WriteKeepsInv ==
  ASSUME Inv, NEW w \in Workers, NEW t \in Tasks, mine(w) = t, Write(w)
  PROVE  Inv'
<1>1. /\ thread[w].pc = "write"
      /\ record' = record /\ queue' = queue /\ active' = active /\ deleted' = deleted
      /\ deleting' = deleting /\ up' = up /\ restarts' = restarts /\ heard' = heard
      /\ sweeps' = sweeps /\ refused' = refused /\ raced' = raced /\ untold' = untold
  BY DEF Write, store, history
<1>2. /\ TypeOK /\ taskInv(t) /\ threadInv(w) /\ w \in Threads
      /\ (w \in Workers <=> w # Sweeper)
  BY ServiceAssumption DEF Inv, Threads
<1>3. /\ up /\ thread[w] \in Thread /\ thread \in [Threads -> Thread]
      /\ thread[w].task = t /\ (thread[w].pc \notin {"save", "write"} => thread[w].then = "idle")
      /\ record[t] \in Record /\ record \in [Tasks -> Record] /\ record[t].attempts \in Nat
      /\ queue[t] \in Nat /\ sweeps[t] \in Nat
  BY <1>2, TaskOfAThread
<1>4. CASE thread[w].then = "unmark"
  <2>1. /\ disk' \in [Tasks -> Record] /\ disk'[t] = record[t]
        /\ \A u \in Tasks \ {t} : disk'[u] = disk[u]
        /\ thread[w].then = "unmark"
        /\ t \in deleted => t \in raced
    BY <1>1, <1>2, <1>3, <1>4 DEF Write, TypeOK, taskInv, gone, mine
  <2>2. /\ thread' \in [Threads -> Thread] /\ \A q \in Threads \ {w} : thread'[q] = thread[q]
        /\ thread'[w].task = t /\ thread'[w].verdict = thread[w].verdict
        /\ thread'[w].pc = thread[w].then /\ thread'[w].then = "idle"
    BY <1>1, <1>2, <1>3, <1>4, <2>1, WriteGoes
  <2>3. record[t].status \notin {"absent", "gone"} /\ (t \notin deleted => listed(t))
    BY <1>2, <1>3 DEF taskInv, known, mine
  <2>4. TypeOK'
    BY <1>1, <1>2, <1>3, <2>1, <2>2, <2>3 DEF TypeOK
  <2>5. threadInv(w)'
    BY <1>1, <1>2, <1>3, <2>1, <2>2, <2>3, ServiceAssumption DEF threadInv, AfterWorkerSave, Sweeping, Threads
  <2>6. touchesOnly(t)
    BY <1>1, <1>2, <1>3, <2>1, <2>2, <2>3 DEF touchesOnly
  <2>7. known(t)'
    BY <1>1, <1>2, <1>3, <2>1, <2>2, <2>3 DEF taskInv, known, listed, mine
  <2>8. served(t)'
    BY <1>1, <1>2, <1>3, <2>1, <2>2, <2>3 DEF taskInv, served, listed, mine, claims
  <2>9. gone(t)'
    BY <1>1, <1>2, <1>3, <2>1, <2>2, <2>3 DEF taskInv, gone, listed, mine
  <2>10. attemptsLeft(t)'
    BY <1>1, <1>2, <1>3, <2>1, AttemptsArePaid, ServiceAssumption DEF taskInv, attemptsLeft
  <2>11. paid(t)'
    <3>1. w \in holders(t) /\ w \notin claimants(t)
      BY <1>1, <1>2, <1>3, <2>1, <2>2, <2>3 DEF holders, claimants, holds, claims, mine
    <3>2. w \notin holders(t)' /\ w \notin claimants(t)'
      BY <1>1, <1>2, <1>3, <2>1, <2>2, <2>3 DEF holders, claimants, holds, claims, mine
    <3>3. /\ Cardinality(holders(t)') = Cardinality(holders(t)) - 1
          /\ Cardinality(claimants(t)') = Cardinality(claimants(t))
          /\ Cardinality(holders(t)) \in Nat /\ Cardinality(claimants(t)) \in Nat
      BY <1>1, <1>2, <1>3, <2>1, <2>2, <2>3, <3>1, <3>2, CountsOfAStep
    <3> QED BY <1>1, <1>2, <1>3, <2>1, <2>2, <2>3, <3>3, ServiceAssumption DEF taskInv, paid
  <2>12. told(t)'
    <3>1. \A q \in Workers : callsBack(q, t)' <=> callsBack(q, t)
      BY <1>1, <1>2, <1>3, <2>1, <2>2, <2>3 DEF callsBack, mine, Threads, threadInv, AfterWorkerSave, Sweeping
    <3>2. \A q \in Workers : thread'[q].verdict = thread[q].verdict
      BY <1>1, <1>2, <1>3, <2>1, <2>2, <2>3 DEF Threads
    <3>3. verdictIsKnown(t)' /\ successIsHeard(t)'
      BY <1>1, <1>2, <3>1, <3>2 DEF taskInv, told, verdictIsKnown, successIsHeard
    <3>4. toldIsOver(t)'
      <4>1. \A q \in Workers : mine(q)' = mine(q) /\
               ("unmark" \in {thread[q].pc, thread[q].then} => "unmark" \in {thread'[q].pc, thread'[q].then})
        BY <1>1, <1>2, <1>3, <2>1, <2>2, <2>3 DEF mine, Threads
      <4> QED BY <1>1, <1>2, <2>1, <4>1 DEF taskInv, told, toldIsOver
    <3>5. savedIsHeard(t)'
      BY <1>1, <1>2, <2>1, <3>1 DEF taskInv, told, successIsHeard, savedIsHeard
    <3> QED BY <3>3, <3>4, <3>5 DEF told
  <2> QED BY <1>1, <1>2, <1>3, <2>2, <2>4, <2>5, <2>6, <2>7, <2>8, <2>9, <2>10, <2>11, <2>12,
             StepAboutATask, ThreadInvsKept DEF taskInv
<1>5. CASE thread[w].then = "enqueue"
  <2>1. /\ disk' \in [Tasks -> Record] /\ disk'[t] = record[t]
        /\ \A u \in Tasks \ {t} : disk'[u] = disk[u]
        /\ thread[w].then = "enqueue"
        /\ t \in deleted => t \in raced
    BY <1>1, <1>2, <1>3, <1>5 DEF Write, TypeOK, taskInv, gone, mine
  <2>2. /\ thread' \in [Threads -> Thread] /\ \A q \in Threads \ {w} : thread'[q] = thread[q]
        /\ thread'[w].task = t /\ thread'[w].verdict = thread[w].verdict
        /\ thread'[w].pc = thread[w].then /\ thread'[w].then = "idle"
    BY <1>1, <1>2, <1>3, <1>5, <2>1, WriteGoes
  <2>3. record[t].status \notin {"absent", "gone"} /\ (t \notin deleted => listed(t))
    BY <1>2, <1>3 DEF taskInv, known, mine
  <2>4. TypeOK'
    BY <1>1, <1>2, <1>3, <2>1, <2>2, <2>3 DEF TypeOK
  <2>5. threadInv(w)'
    BY <1>1, <1>2, <1>3, <2>1, <2>2, <2>3, ServiceAssumption DEF threadInv, AfterWorkerSave, Sweeping, Threads
  <2>6. touchesOnly(t)
    BY <1>1, <1>2, <1>3, <2>1, <2>2, <2>3 DEF touchesOnly
  <2>7. known(t)'
    BY <1>1, <1>2, <1>3, <2>1, <2>2, <2>3 DEF taskInv, known, listed, mine
  <2>8. served(t)'
    BY <1>1, <1>2, <1>3, <2>1, <2>2, <2>3 DEF taskInv, served, listed, mine, claims
  <2>9. gone(t)'
    BY <1>1, <1>2, <1>3, <2>1, <2>2, <2>3 DEF taskInv, gone, listed, mine
  <2>10. attemptsLeft(t)'
    BY <1>1, <1>2, <1>3, <2>1, AttemptsArePaid, ServiceAssumption DEF taskInv, attemptsLeft
  <2>11. paid(t)'
    <3>1. w \in holders(t) /\ w \in claimants(t)
      BY <1>1, <1>2, <1>3, <2>1, <2>2, <2>3 DEF holders, claimants, holds, claims, mine
    <3>2. w \in holders(t)' /\ w \in claimants(t)'
      BY <1>1, <1>2, <1>3, <2>1, <2>2, <2>3 DEF holders, claimants, holds, claims, mine
    <3>3. /\ Cardinality(holders(t)') = Cardinality(holders(t))
          /\ Cardinality(claimants(t)') = Cardinality(claimants(t))
          /\ Cardinality(holders(t)) \in Nat /\ Cardinality(claimants(t)) \in Nat
      BY <1>1, <1>2, <1>3, <2>1, <2>2, <2>3, <3>1, <3>2, CountsOfAStep
    <3> QED BY <1>1, <1>2, <1>3, <2>1, <2>2, <2>3, <3>3, ServiceAssumption DEF taskInv, paid
  <2>12. told(t)'
    <3>1. \A q \in Workers : callsBack(q, t)' <=> callsBack(q, t)
      BY <1>1, <1>2, <1>3, <2>1, <2>2, <2>3 DEF callsBack, mine, Threads, threadInv, AfterWorkerSave, Sweeping
    <3>2. \A q \in Workers : thread'[q].verdict = thread[q].verdict
      BY <1>1, <1>2, <1>3, <2>1, <2>2, <2>3 DEF Threads
    <3>3. verdictIsKnown(t)' /\ successIsHeard(t)'
      BY <1>1, <1>2, <3>1, <3>2 DEF taskInv, told, verdictIsKnown, successIsHeard
    <3>4. toldIsOver(t)'
      <4>1. \A q \in Workers : mine(q)' = mine(q) /\
               ("unmark" \in {thread[q].pc, thread[q].then} => "unmark" \in {thread'[q].pc, thread'[q].then})
        BY <1>1, <1>2, <1>3, <2>1, <2>2, <2>3 DEF mine, Threads
      <4> QED BY <1>1, <1>2, <2>1, <4>1 DEF taskInv, told, toldIsOver
    <3>5. savedIsHeard(t)'
      BY <1>1, <1>2, <2>1, <3>1 DEF taskInv, told, successIsHeard, savedIsHeard
    <3> QED BY <3>3, <3>4, <3>5 DEF told
  <2> QED BY <1>1, <1>2, <1>3, <2>2, <2>4, <2>5, <2>6, <2>7, <2>8, <2>9, <2>10, <2>11, <2>12,
             StepAboutATask, ThreadInvsKept DEF taskInv
<1>6. CASE thread[w].then \in {"checkout", "analyse", "callback"}
  <2>1. /\ disk' \in [Tasks -> Record] /\ disk'[t] = record[t]
        /\ \A u \in Tasks \ {t} : disk'[u] = disk[u]
        /\ thread[w].then \in {"checkout", "analyse", "callback"}
        /\ t \in deleted => t \in raced
    BY <1>1, <1>2, <1>3, <1>6 DEF Write, TypeOK, taskInv, gone, mine
  <2>2. /\ thread' \in [Threads -> Thread] /\ \A q \in Threads \ {w} : thread'[q] = thread[q]
        /\ thread'[w].task = t /\ thread'[w].verdict = thread[w].verdict
        /\ thread'[w].pc = thread[w].then /\ thread'[w].then = "idle"
    BY <1>1, <1>2, <1>3, <1>6, <2>1, WriteGoes
  <2>3. record[t].status \notin {"absent", "gone"} /\ (t \notin deleted => listed(t))
    BY <1>2, <1>3 DEF taskInv, known, mine
  <2>4. TypeOK'
    BY <1>1, <1>2, <1>3, <2>1, <2>2, <2>3 DEF TypeOK
  <2>5. threadInv(w)'
    BY <1>1, <1>2, <1>3, <2>1, <2>2, <2>3, ServiceAssumption DEF threadInv, AfterWorkerSave, Sweeping, Threads
  <2>6. touchesOnly(t)
    BY <1>1, <1>2, <1>3, <2>1, <2>2, <2>3 DEF touchesOnly
  <2>7. known(t)'
    BY <1>1, <1>2, <1>3, <2>1, <2>2, <2>3 DEF taskInv, known, listed, mine
  <2>8. served(t)'
    BY <1>1, <1>2, <1>3, <2>1, <2>2, <2>3 DEF taskInv, served, listed, mine, claims
  <2>9. gone(t)'
    BY <1>1, <1>2, <1>3, <2>1, <2>2, <2>3 DEF taskInv, gone, listed, mine
  <2>10. attemptsLeft(t)'
    BY <1>1, <1>2, <1>3, <2>1, AttemptsArePaid, ServiceAssumption DEF taskInv, attemptsLeft
  <2>11. paid(t)'
    <3>1. w \in holders(t) /\ w \notin claimants(t)
      BY <1>1, <1>2, <1>3, <2>1, <2>2, <2>3 DEF holders, claimants, holds, claims, mine
    <3>2. w \in holders(t)' /\ w \notin claimants(t)'
      BY <1>1, <1>2, <1>3, <2>1, <2>2, <2>3 DEF holders, claimants, holds, claims, mine
    <3>3. /\ Cardinality(holders(t)') = Cardinality(holders(t))
          /\ Cardinality(claimants(t)') = Cardinality(claimants(t))
          /\ Cardinality(holders(t)) \in Nat /\ Cardinality(claimants(t)) \in Nat
      BY <1>1, <1>2, <1>3, <2>1, <2>2, <2>3, <3>1, <3>2, CountsOfAStep
    <3> QED BY <1>1, <1>2, <1>3, <2>1, <2>2, <2>3, <3>3, ServiceAssumption DEF taskInv, paid
  <2>12. told(t)'
    <3>1. \A q \in Workers : callsBack(q, t)' <=> callsBack(q, t)
      BY <1>1, <1>2, <1>3, <2>1, <2>2, <2>3 DEF callsBack, mine, Threads, threadInv, AfterWorkerSave, Sweeping
    <3>2. \A q \in Workers : thread'[q].verdict = thread[q].verdict
      BY <1>1, <1>2, <1>3, <2>1, <2>2, <2>3 DEF Threads
    <3>3. verdictIsKnown(t)' /\ successIsHeard(t)'
      BY <1>1, <1>2, <3>1, <3>2 DEF taskInv, told, verdictIsKnown, successIsHeard
    <3>4. toldIsOver(t)'
      <4>1. \A q \in Workers : mine(q)' = mine(q) /\
               ("unmark" \in {thread[q].pc, thread[q].then} => "unmark" \in {thread'[q].pc, thread'[q].then})
        BY <1>1, <1>2, <1>3, <2>1, <2>2, <2>3 DEF mine, Threads
      <4> QED BY <1>1, <1>2, <2>1, <4>1 DEF taskInv, told, toldIsOver
    <3>5. savedIsHeard(t)'
      BY <1>1, <1>2, <2>1, <3>1 DEF taskInv, told, successIsHeard, savedIsHeard
    <3> QED BY <3>3, <3>4, <3>5 DEF told
  <2> QED BY <1>1, <1>2, <1>3, <2>2, <2>4, <2>5, <2>6, <2>7, <2>8, <2>9, <2>10, <2>11, <2>12,
             StepAboutATask, ThreadInvsKept DEF taskInv
<1> QED BY <1>1, <1>2, <1>4, <1>5, <1>6 DEF threadInv, AfterWorkerSave, Sweeping

-----------------------------------------------------------------------------
(* The steps of the recovery thread.                                       *)

(* They leave the workers where they are.                                  *)
LEMMA WorkersStay ==
  ASSUME NEW t \in Tasks, \A q \in Threads \ {Sweeper} : thread'[q] = thread[q]
  PROVE  \A q \in Workers : thread'[q] = thread[q] /\ mine(q)' = mine(q) /\ (callsBack(q, t)' <=> callsBack(q, t))
BY ServiceAssumption DEF Threads, mine, callsBack

(* Looking at a running record.                                            *)
LEMMA SweepLookKeepsInv ==
  ASSUME Inv, NEW t \in Tasks, SweepLook(t)
  PROVE  Inv'
<1>1. /\ up /\ thread[Sweeper].pc = "idle" /\ record[t].status = "running"
      /\ record' = record /\ disk' = disk /\ queue' = queue /\ active' = active
      /\ deleted' = deleted /\ deleting' = deleting /\ up' = up /\ restarts' = restarts
      /\ heard' = heard /\ sweeps' = sweeps /\ refused' = refused /\ raced' = raced
      /\ untold' = untold
  BY DEF SweepLook, store, history
<1>2. TypeOK /\ taskInv(t) /\ threadInv(Sweeper) /\ Sweeper \in Threads /\ Sweeper \notin Workers
  BY ServiceAssumption DEF Inv, Threads
<1>3. thread \in [Threads -> Thread] /\ thread[Sweeper].task = NoTask /\ thread[Sweeper].then = "idle" /\ NoTask # t
  BY <1>1, <1>2, ServiceAssumption DEF TypeOK, threadInv
<1>4. /\ thread' \in [Threads -> Thread] /\ \A q \in Threads \ {Sweeper} : thread'[q] = thread[q]
      /\ thread'[Sweeper].pc = "judge" /\ thread'[Sweeper].task = t /\ thread'[Sweeper].then = "idle"
  <2>1. thread' = [thread EXCEPT ![Sweeper].pc = "judge", ![Sweeper].task = t]
    BY DEF SweepLook
  <2> QED BY <1>2, <1>3, <2>1 DEF Thread, Pcs
<1>5. TypeOK'
  BY <1>1, <1>2, <1>4 DEF TypeOK
<1>6. threadInv(Sweeper)'
  BY <1>2, <1>3, <1>4 DEF threadInv, Sweeping
<1>7. touchesOnly(t)
  BY <1>1, <1>3, <1>4 DEF touchesOnly
<1>8. known(t)'
  BY <1>1, <1>2 DEF taskInv, known, listed
<1>9. served(t)'
  BY <1>1 DEF served
<1>10. gone(t)'
  BY <1>1, <1>2, <1>4 DEF taskInv, gone, listed, mine
<1>11. attemptsLeft(t)'
  BY <1>1, <1>2 DEF taskInv, attemptsLeft
<1>12. paid(t)'
  <2>1. holders(t)' = holders(t) /\ claimants(t)' = claimants(t)
    BY <1>2, <1>3, <1>4 DEF holders, claimants, holds, claims, mine
  <2> QED BY <1>1, <1>2, <2>1 DEF taskInv, paid
<1>13. told(t)'
  <2>1. \A q \in Workers : thread'[q] = thread[q] /\ mine(q)' = mine(q) /\ (callsBack(q, t)' <=> callsBack(q, t))
    BY <1>4, WorkersStay
  <2> QED BY <1>1, <1>2, <2>1 DEF taskInv, told, verdictIsKnown, toldIsOver, successIsHeard, savedIsHeard
<1> QED BY <1>1, <1>2, <1>4, <1>5, <1>6, <1>7, <1>8, <1>9, <1>10, <1>11, <1>12, <1>13,
           StepAboutATask, ThreadInvsKept DEF taskInv

(* The tests: the recovery thread goes on, or leaves the record.           *)
LEMMA SweepLooksOn ==
  ASSUME Inv, NEW t \in Tasks, mine(Sweeper) = t, SweepActive \/ SweepAge \/ SweepAttempts
  PROVE  Inv'
<1>1. /\ thread[Sweeper].pc \in {"judge", "age", "recover"}
      /\ UNCHANGED <<store, queue, active, deleted, deleting, up, restarts, heard, history>>
      /\ \/ \E pc \in {"age", "recover", "give up", "requeue"} : thread' = [thread EXCEPT ![Sweeper].pc = pc]
         \/ thread' = [thread EXCEPT ![Sweeper] = [Idle EXCEPT !.pc = "idle", !.task = NoTask]]
  BY DEF SweepActive, SweepAge, SweepAttempts, judged, Idle
<1>2. /\ threadInv(Sweeper) /\ Sweeper \in Threads /\ Sweeper \notin Workers /\ t # NoTask
      /\ thread \in [Threads -> Thread] /\ thread[Sweeper].task = t /\ thread[Sweeper].then = "idle"
  BY <1>1, TaskOfAThread, ServiceAssumption DEF Inv, Threads
<1>3. /\ thread' \in [Threads -> Thread] /\ \A q \in Threads \ {Sweeper} : thread'[q] = thread[q]
      /\ thread'[Sweeper].then = "idle"
      /\ \/ thread'[Sweeper].pc \in Sweeping /\ thread'[Sweeper].task = t
         \/ thread'[Sweeper].pc = "idle" /\ thread'[Sweeper].task = NoTask
  <2>1. CASE \E pc \in {"age", "recover", "give up", "requeue"} : thread' = [thread EXCEPT ![Sweeper].pc = pc]
    BY <1>2, <2>1, ThreadGoes DEF Pcs, Sweeping
  <2>2. CASE thread' = [thread EXCEPT ![Sweeper] = [Idle EXCEPT !.pc = "idle", !.task = NoTask]]
    BY <1>2, <2>2, ThreadRests DEF Pcs, Sweeping
  <2> QED BY <1>1, <2>1, <2>2
<1>4. threadInv(Sweeper)' /\ thread'[Sweeper].pc # "write"
  BY <1>2, <1>3 DEF threadInv, Sweeping
<1>5. Sweeper \notin holders(t)' /\ Sweeper \notin claimants(t)' /\ Sweeper \notin claimants(t)
  BY <1>1, <1>2, <1>3 DEF holders, claimants, holds, claims, mine, Sweeping
<1> QED BY <1>1, <1>2, <1>3, <1>4, <1>5, ThreadMoves

(* Giving it up.                                                           *)
LEMMA SweepGivesUpKeepsInv ==
  ASSUME Inv, NEW t \in Tasks, mine(Sweeper) = t, SweepGivesUp
  PROVE  Inv'
<1>1. /\ thread[Sweeper].pc = "give up"
      /\ disk' = disk /\ queue' = queue /\ active' = active /\ deleted' = deleted
      /\ deleting' = deleting /\ up' = up /\ restarts' = restarts /\ heard' = heard
      /\ refused' = refused /\ raced' = raced /\ untold' = untold
  BY DEF SweepGivesUp, store, history
<1>2. /\ TypeOK /\ taskInv(t) /\ threadInv(Sweeper) /\ Sweeper \in Threads
      /\ Sweeper \notin Workers
  BY ServiceAssumption DEF Inv, Threads
<1>3. /\ up /\ thread[Sweeper] \in Thread /\ thread \in [Threads -> Thread]
      /\ thread[Sweeper].task = t /\ (thread[Sweeper].pc \notin {"save", "write"} => thread[Sweeper].then = "idle")
      /\ record[t] \in Record /\ record \in [Tasks -> Record] /\ record[t].attempts \in Nat
      /\ queue[t] \in Nat /\ sweeps[t] \in Nat
  BY <1>2, TaskOfAThread
<1> QED
  <2>1. /\ record' = [record EXCEPT ![t].status = "failed"] /\ sweeps' = sweeps
        /\ _save_record(Sweeper, "idle")
    BY DEF SweepGivesUp, history
  <2>2. /\ thread' \in [Threads -> Thread] /\ \A q \in Threads \ {Sweeper} : thread'[q] = thread[q]
        /\ thread'[Sweeper].task = t /\ NoTask # t
        /\ thread'[Sweeper].pc = "save" /\ thread'[Sweeper].then = "idle"
    BY <1>1, <1>2, <1>3, <2>1, ThreadSaves, ServiceAssumption DEF Pcs
  <2>3. /\ record' \in [Tasks -> Record] /\ \A u \in Tasks \ {t} : record'[u] = record[u]
        /\ record'[t].status = "failed" /\ record'[t].told = record[t].told
        /\ record'[t].attempts = record[t].attempts
        /\ record[t].status \notin {"absent", "gone"}
    BY <1>2, <1>3, <2>1 DEF Record, Finished, taskInv, known, mine
  <2>4. TypeOK'
    BY <1>1, <1>2, <1>3, <2>1, <2>2, <2>3 DEF TypeOK
  <2>5. threadInv(Sweeper)'
    BY <1>1, <1>2, <1>3, <2>1, <2>2, <2>3, ServiceAssumption DEF threadInv, AfterWorkerSave, Sweeping, Threads
  <2>6. touchesOnly(t)
    BY <1>1, <1>2, <1>3, <2>1, <2>2, <2>3 DEF touchesOnly
  <2>7. known(t)'
    BY <1>1, <1>2, <1>3, <2>1, <2>2, <2>3 DEF taskInv, known, listed, mine
  <2>8. served(t)'
    BY <1>1, <1>2, <1>3, <2>1, <2>2, <2>3 DEF taskInv, served, listed, mine, claims
  <2>9. gone(t)'
    BY <1>1, <1>2, <1>3, <2>2 DEF taskInv, gone, listed, mine
  <2>10. attemptsLeft(t)'
    BY <1>1, <1>2, <1>3, <2>1, <2>2, <2>3 DEF taskInv, attemptsLeft
  <2>11. paid(t)'
    <3>1. Sweeper \notin holders(t) /\ Sweeper \notin claimants(t)
      BY <1>1, <1>2, <1>3, <2>1, <2>2, <2>3 DEF holders, claimants, holds, claims, mine
    <3>2. Sweeper \notin holders(t)' /\ Sweeper \notin claimants(t)'
      BY <1>1, <1>2, <1>3, <2>1, <2>2, <2>3 DEF holders, claimants, holds, claims, mine
    <3>3. /\ Cardinality(holders(t)') = Cardinality(holders(t))
          /\ Cardinality(claimants(t)') = Cardinality(claimants(t))
          /\ Cardinality(holders(t)) \in Nat /\ Cardinality(claimants(t)) \in Nat
      BY <1>1, <1>2, <1>3, <2>1, <2>2, <2>3, <3>1, <3>2, CountsOfAStep
    <3> QED BY <1>1, <1>2, <1>3, <2>1, <2>2, <2>3, <3>3, ServiceAssumption DEF taskInv, paid
  <2>12. told(t)'
    <3>1. \A q \in Workers : thread'[q] = thread[q] /\ mine(q)' = mine(q) /\ (callsBack(q, t)' <=> callsBack(q, t))
      BY <2>2, WorkersStay
    <3> QED BY <1>1, <1>2, <2>1, <2>3, <3>1 DEF taskInv, told, verdictIsKnown, toldIsOver, successIsHeard,
                                                       savedIsHeard, Finished
  <2> QED BY <1>1, <1>2, <1>3, <2>1, <2>2, <2>4, <2>5, <2>6, <2>7, <2>8, <2>9, <2>10, <2>11, <2>12,
             StepAboutATask, ThreadInvsKept DEF taskInv

(* Putting it back, though its attempts may be used up by now: the sweep  *)
(* pays for the next one.                                                  *)
LEMMA SweepRequeuesKeepsInv ==
  ASSUME Inv, NEW t \in Tasks, mine(Sweeper) = t, SweepRequeues
  PROVE  Inv'
<1>1. /\ thread[Sweeper].pc = "requeue"
      /\ disk' = disk /\ queue' = queue /\ active' = active /\ deleted' = deleted
      /\ deleting' = deleting /\ up' = up /\ restarts' = restarts /\ heard' = heard
      /\ refused' = refused /\ raced' = raced /\ untold' = untold
  BY DEF SweepRequeues, store, history
<1>2. /\ TypeOK /\ taskInv(t) /\ threadInv(Sweeper) /\ Sweeper \in Threads
      /\ Sweeper \notin Workers
  BY ServiceAssumption DEF Inv, Threads
<1>3. /\ up /\ thread[Sweeper] \in Thread /\ thread \in [Threads -> Thread]
      /\ thread[Sweeper].task = t /\ (thread[Sweeper].pc \notin {"save", "write"} => thread[Sweeper].then = "idle")
      /\ record[t] \in Record /\ record \in [Tasks -> Record] /\ record[t].attempts \in Nat
      /\ queue[t] \in Nat /\ sweeps[t] \in Nat
  BY <1>2, TaskOfAThread
<1> QED
  <2>1. /\ record' = [record EXCEPT ![t] = back_to_queue(@)] /\ sweeps' = [sweeps EXCEPT ![t] = @ + 1]
        /\ _save_record(Sweeper, "enqueue")
    BY DEF SweepRequeues
  <2>2. /\ thread' \in [Threads -> Thread] /\ \A q \in Threads \ {Sweeper} : thread'[q] = thread[q]
        /\ thread'[Sweeper].task = t
        /\ thread'[Sweeper].pc = "save" /\ thread'[Sweeper].then = "enqueue"
    BY <1>1, <1>2, <1>3, <2>1, ThreadSaves DEF Pcs
  <2>3. /\ record' \in [Tasks -> Record] /\ \A u \in Tasks \ {t} : record'[u] = record[u]
        /\ record'[t].status = "queued" /\ record'[t].told = record[t].told
        /\ record'[t].attempts = record[t].attempts
        /\ record[t].status \notin {"absent", "gone"}
        /\ sweeps' \in [Tasks -> Nat] /\ sweeps'[t] = sweeps[t] + 1 /\ sweeps'[t] # 0
        /\ \A u \in Tasks \ {t} : sweeps'[u] = sweeps[u]
    <3>1. /\ record' \in [Tasks -> Record] /\ \A u \in Tasks \ {t} : record'[u] = record[u]
          /\ record'[t].status = "queued" /\ record'[t].told = record[t].told
          /\ record'[t].attempts = record[t].attempts
      BY <1>3, <2>1 DEF Record, InFlight, back_to_queue
    <3>2. record[t].status \notin {"absent", "gone"}
      BY <1>2, <1>3 DEF taskInv, known, mine
    <3>3. sweeps \in [Tasks -> Nat]
      BY <1>2 DEF TypeOK
    <3> QED BY <1>3, <2>1, <3>1, <3>2, <3>3
  <2>4. TypeOK'
    BY <1>1, <1>2, <1>3, <2>1, <2>2, <2>3 DEF TypeOK
  <2>5. threadInv(Sweeper)'
    BY <1>1, <1>2, <1>3, <2>1, <2>2, <2>3, ServiceAssumption DEF threadInv, AfterWorkerSave, Sweeping, Threads
  <2>6. touchesOnly(t)
    BY <1>1, <1>2, <1>3, <2>1, <2>2, <2>3 DEF touchesOnly
  <2>7. known(t)'
    BY <1>1, <1>2, <1>3, <2>1, <2>2, <2>3 DEF taskInv, known, listed, mine
  <2>8. served(t)'
    BY <1>1, <1>2, <1>3, <2>1, <2>2, <2>3 DEF taskInv, served, listed, mine, claims
  <2>9. gone(t)'
    BY <1>1, <1>2, <1>3, <2>1, <2>2, <2>3 DEF taskInv, gone, listed, mine
  <2>10. attemptsLeft(t)'
    BY <1>1, <1>2, <1>3, <2>1, <2>3, AttemptsArePaid, ServiceAssumption DEF TypeOK, Record, taskInv, attemptsLeft
  <2>11. paid(t)'
    <3>1. Sweeper \notin holders(t) /\ Sweeper \notin claimants(t)
      BY <1>1, <1>2, <1>3, <2>1, <2>2, <2>3 DEF holders, claimants, holds, claims, mine
    <3>2. Sweeper \in holders(t)' /\ Sweeper \in claimants(t)'
      BY <1>1, <1>2, <1>3, <2>1, <2>2, <2>3 DEF holders, claimants, holds, claims, mine
    <3>3. /\ Cardinality(holders(t)') = Cardinality(holders(t)) + 1
          /\ Cardinality(claimants(t)') = Cardinality(claimants(t)) + 1
          /\ Cardinality(holders(t)) \in Nat /\ Cardinality(claimants(t)) \in Nat
      BY <1>1, <1>2, <1>3, <2>1, <2>2, <2>3, <3>1, <3>2, CountsOfAStep
    <3> QED BY <1>1, <1>2, <1>3, <2>1, <2>2, <2>3, <3>3, ServiceAssumption DEF taskInv, paid
  <2>12. told(t)'
    <3> QED BY <2>3 DEF told, verdictIsKnown, toldIsOver, successIsHeard, savedIsHeard
  <2> QED BY <1>1, <1>2, <1>3, <2>2, <2>3, <2>4, <2>5, <2>6, <2>7, <2>8, <2>9, <2>10, <2>11, <2>12,
             StepAboutATask, ThreadInvsKept DEF taskInv

(* Putting it into the queue, or ending at a full one.                     *)
LEMMA SweepEnqueueKeepsInv ==
  ASSUME Inv, NEW t \in Tasks, mine(Sweeper) = t, SweepEnqueue
  PROVE  Inv'
<1>1. /\ thread[Sweeper].pc = "enqueue"
      /\ record' = record /\ disk' = disk /\ active' = active /\ deleted' = deleted
      /\ deleting' = deleting /\ up' = up /\ restarts' = restarts /\ heard' = heard
      /\ sweeps' = sweeps /\ raced' = raced /\ untold' = untold
  BY DEF SweepEnqueue, store, history
<1>2. /\ TypeOK /\ taskInv(t) /\ threadInv(Sweeper) /\ Sweeper \in Threads
      /\ Sweeper \notin Workers
  BY ServiceAssumption DEF Inv, Threads
<1>3. /\ up /\ thread[Sweeper] \in Thread /\ thread \in [Threads -> Thread]
      /\ thread[Sweeper].task = t /\ (thread[Sweeper].pc \notin {"save", "write"} => thread[Sweeper].then = "idle")
      /\ record[t] \in Record /\ record \in [Tasks -> Record] /\ record[t].attempts \in Nat
      /\ queue[t] \in Nat /\ sweeps[t] \in Nat
  BY <1>2, TaskOfAThread
<1>4. CASE queue' = [queue EXCEPT ![t] = @ + 1] /\ refused' = refused
  <2>1. /\ queue' = [queue EXCEPT ![t] = @ + 1] /\ refused' = refused
        /\ thread' = [thread EXCEPT ![Sweeper] = [Idle EXCEPT !.pc = "idle"]]
        /\ sweeps[t] # 0
    <3>1. queue' # queue
      BY <1>2, <1>3, <1>4 DEF TypeOK
    <3>2. thread' = [thread EXCEPT ![Sweeper] = [Idle EXCEPT !.pc = "idle"]]
      BY <3>1 DEF SweepEnqueue
    <3>3. sweeps[t] # 0
      BY <1>1, <1>2, <1>3 DEF threadInv
    <3> QED BY <1>4, <3>2, <3>3
  <2>2. /\ thread' \in [Threads -> Thread] /\ \A q \in Threads \ {Sweeper} : thread'[q] = thread[q]
        /\ thread'[Sweeper].pc = "idle" /\ thread'[Sweeper].task = NoTask /\ thread'[Sweeper].then = "idle"
        /\ NoTask # t
    BY <1>2, <1>3, <2>1, ThreadEnds, ServiceAssumption DEF Pcs, Sweeping
  <2>3. /\ queue' \in [Tasks -> Nat] /\ \A u \in Tasks \ {t} : queue'[u] = queue[u]
        /\ queue'[t] = queue[t] + 1
        /\ record[t].status \notin {"absent", "gone"}
    BY <1>2, <1>3, <2>1 DEF TypeOK, taskInv, known, mine
  <2>4. TypeOK'
    BY <1>1, <1>2, <1>3, <2>1, <2>2, <2>3 DEF TypeOK
  <2>5. threadInv(Sweeper)'
    BY <1>1, <1>2, <1>3, <2>1, <2>2, <2>3, ServiceAssumption DEF threadInv, AfterWorkerSave, Sweeping, Threads
  <2>6. touchesOnly(t)
    BY <1>1, <1>2, <1>3, <2>1, <2>2, <2>3 DEF touchesOnly
  <2>7. known(t)'
    BY <1>1, <1>2, <1>3, <2>1, <2>2, <2>3 DEF taskInv, known, listed, mine
  <2>8. served(t)'
    BY <1>3, <2>3 DEF served
  <2>9. gone(t)'
    BY <1>1, <1>2, <1>3, <2>1, <2>2, <2>3 DEF taskInv, gone, listed, mine
  <2>10. attemptsLeft(t)'
    BY <1>1, <1>2, <1>3, <2>1, <2>2, <2>3 DEF taskInv, attemptsLeft
  <2>11. paid(t)'
    <3>1. Sweeper \in holders(t) /\ Sweeper \in claimants(t)
      BY <1>1, <1>2, <1>3, <2>1, <2>2, <2>3 DEF holders, claimants, holds, claims, mine
    <3>2. Sweeper \notin holders(t)' /\ Sweeper \notin claimants(t)'
      BY <1>1, <1>2, <1>3, <2>1, <2>2, <2>3 DEF holders, claimants, holds, claims, mine
    <3>3. /\ Cardinality(holders(t)') = Cardinality(holders(t)) - 1
          /\ Cardinality(claimants(t)') = Cardinality(claimants(t)) - 1
          /\ Cardinality(holders(t)) \in Nat /\ Cardinality(claimants(t)) \in Nat
      BY <1>1, <1>2, <1>3, <2>1, <2>2, <2>3, <3>1, <3>2, CountsOfAStep
    <3> QED BY <1>1, <1>2, <1>3, <2>1, <2>2, <2>3, <3>3, ServiceAssumption DEF taskInv, paid
  <2>12. told(t)'
    <3>1. \A q \in Workers : thread'[q] = thread[q] /\ mine(q)' = mine(q) /\ (callsBack(q, t)' <=> callsBack(q, t))
      BY <2>2, WorkersStay
    <3> QED BY <1>1, <1>2, <2>1, <3>1 DEF taskInv, told, verdictIsKnown, toldIsOver, successIsHeard, savedIsHeard
  <2> QED BY <1>1, <1>2, <1>3, <2>2, <2>4, <2>5, <2>6, <2>7, <2>8, <2>9, <2>10, <2>11, <2>12,
             StepAboutATask, ThreadInvsKept DEF taskInv
<1>5. CASE queue' = queue /\ refused' = refused \cup {t}
  <2>1. /\ queue' = queue /\ refused' = refused \cup {t}
        /\ thread' = [thread EXCEPT ![Sweeper] = [Idle EXCEPT !.pc = "dead"]]
        /\ sweeps[t] # 0
    <3>1. queue' = queue
      BY <1>2, <1>3, <1>5 DEF TypeOK
    <3>2. thread' = [thread EXCEPT ![Sweeper] = [Idle EXCEPT !.pc = "dead"]]
      BY <3>1 DEF SweepEnqueue
    <3>3. sweeps[t] # 0
      BY <1>1, <1>2, <1>3 DEF threadInv
    <3> QED BY <1>5, <3>2, <3>3
  <2>2. /\ thread' \in [Threads -> Thread] /\ \A q \in Threads \ {Sweeper} : thread'[q] = thread[q]
        /\ thread'[Sweeper].pc = "dead" /\ thread'[Sweeper].task = NoTask /\ thread'[Sweeper].then = "idle"
        /\ NoTask # t
    BY <1>2, <1>3, <2>1, ThreadEnds, ServiceAssumption DEF Pcs, Sweeping
  <2>3. /\ queue' \in [Tasks -> Nat] /\ \A u \in Tasks \ {t} : queue'[u] = queue[u]
        /\ queue'[t] = queue[t]
        /\ record[t].status \notin {"absent", "gone"}
    BY <1>2, <1>3, <2>1 DEF TypeOK, taskInv, known, mine
  <2>4. TypeOK'
    BY <1>1, <1>2, <1>3, <2>1, <2>2, <2>3 DEF TypeOK
  <2>5. threadInv(Sweeper)'
    BY <1>1, <1>2, <1>3, <2>1, <2>2, <2>3, ServiceAssumption DEF threadInv, AfterWorkerSave, Sweeping, Threads
  <2>6. touchesOnly(t)
    BY <1>1, <1>2, <1>3, <2>1, <2>2, <2>3 DEF touchesOnly
  <2>7. known(t)'
    BY <1>1, <1>2, <1>3, <2>1, <2>2, <2>3 DEF taskInv, known, listed, mine
  <2>8. served(t)'
    BY <1>1, <1>2, <1>3, <2>1, <2>2, <2>3 DEF taskInv, served, listed, mine, claims
  <2>9. gone(t)'
    BY <1>1, <1>2, <1>3, <2>1, <2>2, <2>3 DEF taskInv, gone, listed, mine
  <2>10. attemptsLeft(t)'
    BY <1>1, <1>2, <1>3, <2>1, <2>2, <2>3 DEF taskInv, attemptsLeft
  <2>11. paid(t)'
    <3>1. Sweeper \in holders(t) /\ Sweeper \in claimants(t)
      BY <1>1, <1>2, <1>3, <2>1, <2>2, <2>3 DEF holders, claimants, holds, claims, mine
    <3>2. Sweeper \notin holders(t)' /\ Sweeper \notin claimants(t)'
      BY <1>1, <1>2, <1>3, <2>1, <2>2, <2>3 DEF holders, claimants, holds, claims, mine
    <3>3. /\ Cardinality(holders(t)') = Cardinality(holders(t)) - 1
          /\ Cardinality(claimants(t)') = Cardinality(claimants(t)) - 1
          /\ Cardinality(holders(t)) \in Nat /\ Cardinality(claimants(t)) \in Nat
      BY <1>1, <1>2, <1>3, <2>1, <2>2, <2>3, <3>1, <3>2, CountsOfAStep
    <3> QED BY <1>1, <1>2, <1>3, <2>1, <2>2, <2>3, <3>3, ServiceAssumption DEF taskInv, paid
  <2>12. told(t)'
    <3>1. \A q \in Workers : thread'[q] = thread[q] /\ mine(q)' = mine(q) /\ (callsBack(q, t)' <=> callsBack(q, t))
      BY <2>2, WorkersStay
    <3> QED BY <1>1, <1>2, <2>1, <3>1 DEF taskInv, told, verdictIsKnown, toldIsOver, successIsHeard, savedIsHeard
  <2> QED BY <1>1, <1>2, <1>3, <2>2, <2>4, <2>5, <2>6, <2>7, <2>8, <2>9, <2>10, <2>11, <2>12,
             StepAboutATask, ThreadInvsKept DEF taskInv
<1> QED BY <1>4, <1>5 DEF SweepEnqueue, _enqueue_task

(* The write of a save of the recovery thread.                             *)
LEMMA SweepWriteKeepsInv ==
  ASSUME Inv, NEW t \in Tasks, mine(Sweeper) = t, Write(Sweeper)
  PROVE  Inv'
<1>1. /\ thread[Sweeper].pc = "write"
      /\ record' = record /\ queue' = queue /\ active' = active /\ deleted' = deleted
      /\ deleting' = deleting /\ up' = up /\ restarts' = restarts /\ heard' = heard
      /\ sweeps' = sweeps /\ refused' = refused /\ raced' = raced /\ untold' = untold
  BY DEF Write, store, history
<1>2. /\ TypeOK /\ taskInv(t) /\ threadInv(Sweeper) /\ Sweeper \in Threads
      /\ Sweeper \notin Workers
  BY ServiceAssumption DEF Inv, Threads
<1>3. /\ up /\ thread[Sweeper] \in Thread /\ thread \in [Threads -> Thread]
      /\ thread[Sweeper].task = t /\ (thread[Sweeper].pc \notin {"save", "write"} => thread[Sweeper].then = "idle")
      /\ record[t] \in Record /\ record \in [Tasks -> Record] /\ record[t].attempts \in Nat
      /\ queue[t] \in Nat /\ sweeps[t] \in Nat
  BY <1>2, TaskOfAThread
<1>4. CASE thread[Sweeper].then = "idle"
  <2>1. /\ disk' \in [Tasks -> Record] /\ disk'[t] = record[t]
        /\ \A u \in Tasks \ {t} : disk'[u] = disk[u]
        /\ thread[Sweeper].then = "idle"
        /\ t \in deleted => t \in raced
        /\ thread' = [thread EXCEPT ![Sweeper] = [Idle EXCEPT !.pc = "idle", !.task = NoTask]]
    BY <1>1, <1>2, <1>3, <1>4 DEF Write, saved, TypeOK, taskInv, gone, mine, Idle
  <2>2. /\ thread' \in [Threads -> Thread] /\ \A q \in Threads \ {Sweeper} : thread'[q] = thread[q]
        /\ thread'[Sweeper].pc = "idle" /\ thread'[Sweeper].task = NoTask /\ thread'[Sweeper].then = "idle"
        /\ NoTask # t
    BY <1>2, <1>3, <2>1, ThreadRests, ServiceAssumption DEF Pcs, Sweeping
  <2>3. record[t].status \notin {"absent", "gone"} /\ (t \notin deleted => listed(t))
    BY <1>2, <1>3 DEF taskInv, known, mine
  <2>4. TypeOK'
    BY <1>1, <1>2, <1>3, <2>1, <2>2, <2>3 DEF TypeOK
  <2>5. threadInv(Sweeper)'
    BY <1>1, <1>2, <1>3, <2>1, <2>2, <2>3, ServiceAssumption DEF threadInv, AfterWorkerSave, Sweeping, Threads
  <2>6. touchesOnly(t)
    BY <1>1, <1>2, <1>3, <2>1, <2>2, <2>3 DEF touchesOnly
  <2>7. known(t)'
    BY <1>1, <1>2, <1>3, <2>1, <2>2, <2>3 DEF taskInv, known, listed, mine
  <2>8. served(t)'
    BY <1>1, <1>2, <1>3, <2>1, <2>2, <2>3 DEF taskInv, served, listed, mine, claims
  <2>9. gone(t)'
    BY <1>1, <1>2, <1>3, <2>1, <2>2, <2>3 DEF taskInv, gone, listed, mine
  <2>10. attemptsLeft(t)'
    BY <1>1, <1>2, <1>3, <2>1, AttemptsArePaid, ServiceAssumption DEF taskInv, attemptsLeft
  <2>11. paid(t)'
    <3>1. Sweeper \notin holders(t) /\ Sweeper \notin claimants(t)
      BY <1>1, <1>2, <1>3, <2>1, <2>2, <2>3 DEF holders, claimants, holds, claims, mine
    <3>2. Sweeper \notin holders(t)' /\ Sweeper \notin claimants(t)'
      BY <1>1, <1>2, <1>3, <2>1, <2>2, <2>3 DEF holders, claimants, holds, claims, mine
    <3>3. /\ Cardinality(holders(t)') = Cardinality(holders(t))
          /\ Cardinality(claimants(t)') = Cardinality(claimants(t))
          /\ Cardinality(holders(t)) \in Nat /\ Cardinality(claimants(t)) \in Nat
      BY <1>1, <1>2, <1>3, <2>1, <2>2, <2>3, <3>1, <3>2, CountsOfAStep
    <3> QED BY <1>1, <1>2, <1>3, <2>1, <2>2, <2>3, <3>3, ServiceAssumption DEF taskInv, paid
  <2>12. told(t)'
    <3>1. \A q \in Workers : thread'[q] = thread[q] /\ mine(q)' = mine(q) /\ (callsBack(q, t)' <=> callsBack(q, t))
      BY <2>2, WorkersStay
    <3> QED BY <1>1, <1>2, <2>1, <3>1 DEF taskInv, told, verdictIsKnown, toldIsOver, successIsHeard, savedIsHeard
  <2> QED BY <1>1, <1>2, <1>3, <2>2, <2>4, <2>5, <2>6, <2>7, <2>8, <2>9, <2>10, <2>11, <2>12,
             StepAboutATask, ThreadInvsKept DEF taskInv
<1>5. CASE thread[Sweeper].then = "enqueue"
  <2>1. /\ disk' \in [Tasks -> Record] /\ disk'[t] = record[t]
        /\ \A u \in Tasks \ {t} : disk'[u] = disk[u]
        /\ thread[Sweeper].then = "enqueue"
        /\ t \in deleted => t \in raced
    BY <1>1, <1>2, <1>3, <1>5 DEF Write, saved, TypeOK, taskInv, gone, mine, Idle
  <2>2. /\ thread' \in [Threads -> Thread] /\ \A q \in Threads \ {Sweeper} : thread'[q] = thread[q]
        /\ thread'[Sweeper].task = t /\ thread'[Sweeper].pc = "enqueue" /\ thread'[Sweeper].then = "idle"
    BY <1>1, <1>2, <1>3, <2>1, WriteGoes
  <2>3. record[t].status \notin {"absent", "gone"} /\ (t \notin deleted => listed(t))
    BY <1>2, <1>3 DEF taskInv, known, mine
  <2>4. TypeOK'
    BY <1>1, <1>2, <1>3, <2>1, <2>2, <2>3 DEF TypeOK
  <2>5. threadInv(Sweeper)'
    BY <1>1, <1>2, <1>3, <2>1, <2>2, <2>3, ServiceAssumption DEF threadInv, AfterWorkerSave, Sweeping, Threads
  <2>6. touchesOnly(t)
    BY <1>1, <1>2, <1>3, <2>1, <2>2, <2>3 DEF touchesOnly
  <2>7. known(t)'
    BY <1>1, <1>2, <1>3, <2>1, <2>2, <2>3 DEF taskInv, known, listed, mine
  <2>8. served(t)'
    BY <1>1, <1>2, <1>3, <2>1, <2>2, <2>3 DEF taskInv, served, listed, mine, claims
  <2>9. gone(t)'
    BY <1>1, <1>2, <1>3, <2>1, <2>2, <2>3 DEF taskInv, gone, listed, mine
  <2>10. attemptsLeft(t)'
    BY <1>1, <1>2, <1>3, <2>1, AttemptsArePaid, ServiceAssumption DEF taskInv, attemptsLeft
  <2>11. paid(t)'
    <3>1. Sweeper \in holders(t) /\ Sweeper \in claimants(t)
      BY <1>1, <1>2, <1>3, <2>1, <2>2, <2>3 DEF holders, claimants, holds, claims, mine
    <3>2. Sweeper \in holders(t)' /\ Sweeper \in claimants(t)'
      BY <1>1, <1>2, <1>3, <2>1, <2>2, <2>3 DEF holders, claimants, holds, claims, mine
    <3>3. /\ Cardinality(holders(t)') = Cardinality(holders(t))
          /\ Cardinality(claimants(t)') = Cardinality(claimants(t))
          /\ Cardinality(holders(t)) \in Nat /\ Cardinality(claimants(t)) \in Nat
      BY <1>1, <1>2, <1>3, <2>1, <2>2, <2>3, <3>1, <3>2, CountsOfAStep
    <3> QED BY <1>1, <1>2, <1>3, <2>1, <2>2, <2>3, <3>3, ServiceAssumption DEF taskInv, paid
  <2>12. told(t)'
    <3>1. \A q \in Workers : thread'[q] = thread[q] /\ mine(q)' = mine(q) /\ (callsBack(q, t)' <=> callsBack(q, t))
      BY <2>2, WorkersStay
    <3> QED BY <1>1, <1>2, <2>1, <3>1 DEF taskInv, told, verdictIsKnown, toldIsOver, successIsHeard, savedIsHeard
  <2> QED BY <1>1, <1>2, <1>3, <2>2, <2>4, <2>5, <2>6, <2>7, <2>8, <2>9, <2>10, <2>11, <2>12,
             StepAboutATask, ThreadInvsKept DEF taskInv
<1> QED BY <1>1, <1>2, <1>4, <1>5 DEF threadInv

-----------------------------------------------------------------------------
(* Steps of the whole process.                                             *)

(* A new task: nobody can have it yet.                                     *)
LEMMA SubmitKeepsInv ==
  ASSUME Inv, NEW t \in Tasks, Submit(t)
  PROVE  Inv'
<1>1. /\ up /\ record[t].status = "absent" /\ disk[t].status = "absent"
      /\ thread' = thread /\ active' = active /\ deleted' = deleted /\ deleting' = deleting
      /\ up' = up /\ restarts' = restarts /\ heard' = heard /\ sweeps' = sweeps
      /\ raced' = raced /\ untold' = untold
  BY DEF Submit
<1>2. TypeOK /\ taskInv(t) /\ \A p \in Threads : threadInv(p)
  BY DEF Inv
<1>3. queue[t] = 0 /\ queue \in [Tasks -> Nat] /\ sweeps[t] \in Nat /\ \A p \in Threads : mine(p) # t
  BY <1>1, <1>2 DEF TypeOK, taskInv, known
<1>4. /\ record' \in [Tasks -> Record] /\ \A u \in Tasks \ {t} : record'[u] = record[u]
      /\ record'[t].status = "queued" /\ record'[t].attempts = 0 /\ record'[t].told = "none"
  <2>1. record' = [record EXCEPT ![t] = [NoRecord EXCEPT !.status = "queued"]]
    BY DEF Submit
  <2> QED BY <1>2, <2>1 DEF TypeOK, Record, NoRecord, InFlight
<1>5. /\ disk' \in [Tasks -> Record] /\ \A u \in Tasks \ {t} : disk'[u] = disk[u]
      /\ disk'[t] = record'[t]
  BY <1>2, <1>4 DEF Submit, TypeOK
<1>6. /\ queue' \in [Tasks -> Nat] /\ \A u \in Tasks \ {t} : queue'[u] = queue[u] /\ (u \in refused' <=> u \in refused)
      /\ refused' \subseteq Tasks
      /\ queue'[t] = 1 \/ (queue'[t] = 0 /\ t \in refused')
  <2>1. CASE queue' = [queue EXCEPT ![t] = @ + 1] /\ refused' = refused
    BY <1>2, <1>3, <2>1 DEF TypeOK
  <2>2. CASE queue' = queue /\ refused' = refused \cup {t}
    BY <1>2, <1>3, <2>2 DEF TypeOK
  <2> QED BY <2>1, <2>2 DEF Submit, _enqueue_task
<1>7. \A p \in Threads : mine(p)' # t
  BY <1>1, <1>3 DEF mine
<1>8. TypeOK'
  BY <1>1, <1>2, <1>4, <1>5, <1>6 DEF TypeOK
<1>9. touchesOnly(t)
  BY <1>1, <1>4, <1>5, <1>6 DEF touchesOnly
<1>10. \A p \in Threads : threadInv(p)'
  BY <1>1, <1>2 DEF threadInv
<1>11. known(t)' /\ gone(t)'
  BY <1>1, <1>2, <1>4, <1>5, <1>7 DEF taskInv, known, gone, listed
<1>12. served(t)'
  BY <1>1, <1>6 DEF served
<1>13. attemptsLeft(t)'
  BY <1>1, <1>3, <1>4, <1>5, ServiceAssumption DEF attemptsLeft
<1>14. paid(t)'
  <2>1. holders(t)' = {} /\ claimants(t)' = {}
    BY <1>7 DEF holders, claimants
  <2> QED BY <1>1, <1>3, <1>4, <1>6, <2>1, FS_EmptySet, ServiceAssumption DEF paid
<1>15. told(t)'
  <2>1. \A q \in Workers : ~callsBack(q, t)'
    BY <1>7 DEF callsBack, Threads
  <2> QED BY <1>4, <1>5, <2>1 DEF told, verdictIsKnown, toldIsOver, successIsHeard, savedIsHeard
<1> QED BY <1>1, <1>8, <1>9, <1>10, <1>11, <1>12, <1>13, <1>14, <1>15, StepAboutATask DEF taskInv

(* Time, which no part of the invariant looks at.                          *)
LEMMA RunGetsOldKeepsInv ==
  ASSUME Inv, NEW t \in Tasks, RunGetsOld(t)
  PROVE  Inv'
<1>1. /\ up /\ record' = [record EXCEPT ![t].started = "long"]
      /\ disk' = disk /\ queue' = queue /\ active' = active /\ deleted' = deleted
      /\ thread' = thread /\ deleting' = deleting /\ up' = up /\ restarts' = restarts
      /\ heard' = heard /\ sweeps' = sweeps /\ refused' = refused /\ raced' = raced
      /\ untold' = untold
  BY DEF RunGetsOld, process, history
<1>2. TypeOK /\ taskInv(t) /\ \A p \in Threads : threadInv(p)
  BY DEF Inv
<1>3. /\ record' \in [Tasks -> Record] /\ \A u \in Tasks \ {t} : record'[u] = record[u]
      /\ record'[t].status = record[t].status /\ record'[t].attempts = record[t].attempts
      /\ record'[t].told = record[t].told
  <2>1. record \in [Tasks -> Record] /\ record[t] \in Record
    BY <1>2 DEF TypeOK
  <2> QED BY <1>1, <2>1 DEF Record
<1>4. TypeOK'
  BY <1>1, <1>2, <1>3 DEF TypeOK
<1>5. touchesOnly(t)
  BY <1>1, <1>3 DEF touchesOnly
<1>6. \A p \in Threads : threadInv(p)'
  BY <1>1, <1>2 DEF threadInv
<1>7. known(t)' /\ served(t)' /\ gone(t)' /\ attemptsLeft(t)'
  BY <1>1, <1>2, <1>3 DEF taskInv, known, served, gone, attemptsLeft, listed, mine
<1>8. paid(t)'
  BY <1>1, <1>2, <1>3 DEF taskInv, paid, holders, claimants, mine
<1>9. told(t)'
  BY <1>1, <1>2, <1>3 DEF taskInv, told, verdictIsKnown, toldIsOver, successIsHeard, savedIsHeard,
                          callsBack, mine
<1> QED BY <1>1, <1>4, <1>5, <1>6, <1>7, <1>8, <1>9, StepAboutATask DEF taskInv

(* The admin API takes a task from the disk.                               *)
LEMMA DeleteKeepsInv ==
  ASSUME Inv, NEW t \in Tasks, Delete(t)
  PROVE  Inv'
<1>1. /\ t \in deleting /\ deleting' = deleting \ {t} /\ deleted' = deleted \cup {t}
      /\ disk' = [disk EXCEPT ![t] = Gone]
      /\ raced' = IF \E p \in Threads : thread[p].pc = "write" /\ mine(p) = t
                  THEN raced \cup {t} ELSE raced
      /\ record' = record /\ queue' = queue /\ active' = active /\ thread' = thread
      /\ up' = up /\ restarts' = restarts /\ heard' = heard /\ sweeps' = sweeps
      /\ refused' = refused /\ untold' = untold
  BY DEF Delete
<1>2. TypeOK /\ taskInv(t) /\ \A p \in Threads : threadInv(p)
  BY DEF Inv
<1>3. up
  BY <1>1, <1>2 DEF Inv, DownIsEmpty
<1>4. /\ disk' \in [Tasks -> Record] /\ \A u \in Tasks \ {t} : disk'[u] = disk[u]
      /\ disk'[t].status = "gone" /\ disk'[t].attempts = 0 /\ disk'[t].told = "none"
  <2>1. Gone \in Record /\ Gone.status = "gone" /\ Gone.attempts = 0 /\ Gone.told = "none"
    BY DEF Gone, NoRecord, Record
  <2> QED BY <1>1, <1>2, <2>1 DEF TypeOK
<1>5. TypeOK'
  BY <1>1, <1>2, <1>4 DEF TypeOK
<1>6. touchesOnly(t)
  BY <1>1, <1>4 DEF touchesOnly
<1>7. \A p \in Threads : threadInv(p)'
  BY <1>1, <1>2 DEF threadInv
<1>8. known(t)' /\ served(t)'
  BY <1>1, <1>2 DEF taskInv, known, served, mine
<1>9. gone(t)'
  BY <1>1, <1>4 DEF gone, listed, mine
<1>10. attemptsLeft(t)'
  BY <1>1, <1>2, <1>4, ServiceAssumption DEF TypeOK, taskInv, attemptsLeft
<1>11. paid(t)'
  BY <1>1, <1>2 DEF taskInv, paid, holders, claimants, mine
<1>12. told(t)'
  <2>1. verdictIsKnown(t)' /\ toldIsOver(t)'
    BY <1>1, <1>2, <1>4 DEF taskInv, told, verdictIsKnown, toldIsOver, callsBack, mine
  <2>2. successIsHeard(t)' /\ savedIsHeard(t)'
    BY <1>1 DEF successIsHeard, savedIsHeard
  <2> QED BY <2>1, <2>2 DEF told
<1> QED BY <1>3, <1>5, <1>6, <1>7, <1>8, <1>9, <1>10, <1>11, <1>12, StepAboutATask DEF taskInv

(* Nothing of the invariant but its type is about active, deleting and     *)
(* restarts, as long as the process is up.                                 *)
LEMMA NothingOfInterest ==
  ASSUME Inv, active' \subseteq Tasks, deleting' \subseteq Tasks, ~up => deleting' = deleting,
         restarts' \in Nat, UNCHANGED <<store, queue, deleted, thread, up, heard, history>>
  PROVE  Inv'
<1>1. /\ record' = record /\ disk' = disk /\ queue' = queue /\ deleted' = deleted
      /\ thread' = thread /\ up' = up /\ heard' = heard /\ sweeps' = sweeps
      /\ refused' = refused /\ raced' = raced /\ untold' = untold
  BY DEF store, history
<1>2. TypeOK' /\ DownIsEmpty'
  BY <1>1 DEF Inv, TypeOK, DownIsEmpty
<1>3. \A p \in Threads : threadInv(p)'
  BY <1>1 DEF Inv, threadInv
<1>4. ASSUME NEW t \in Tasks PROVE taskInv(t)'
  <2>1. taskInv(t)
    BY DEF Inv
  <2>2. known(t)' /\ served(t)' /\ gone(t)' /\ attemptsLeft(t)'
    BY <1>1, <2>1 DEF taskInv, known, served, gone, attemptsLeft, listed, mine
  <2>3. paid(t)'
    BY <1>1, <2>1 DEF taskInv, paid, holders, claimants, mine
  <2>4. told(t)'
    BY <1>1, <2>1 DEF taskInv, told, verdictIsKnown, toldIsOver, successIsHeard, savedIsHeard, callsBack, mine
  <2> QED BY <2>2, <2>3, <2>4 DEF taskInv
<1> QED BY <1>2, <1>3, <1>4 DEF Inv

(* Looking for running tasks to delete changes nothing else.               *)
LEMMA FindRunningKeepsInv == Inv /\ FindRunning => Inv'
<1> SUFFICES ASSUME Inv, FindRunning PROVE Inv'
  OBVIOUS
<1>1. /\ up /\ deleting' \subseteq Tasks
      /\ record' = record /\ disk' = disk /\ queue' = queue /\ active' = active /\ deleted' = deleted
      /\ thread' = thread /\ up' = up /\ restarts' = restarts /\ heard' = heard /\ sweeps' = sweeps
      /\ refused' = refused /\ raced' = raced /\ untold' = untold
  BY DEF FindRunning, list_running_tasks, store, history
<1> QED BY <1>1, NothingOfInterest DEF Inv, TypeOK, store, history

(* A step that changes nothing keeps the invariant.                        *)
LEMMA StutterKeepsInv == Inv /\ UNCHANGED vars => Inv'
BY NothingOfInterest DEF Inv, TypeOK, vars, process, store, history

(* When all threads are idle, nobody has anything to do with t.            *)
LEMMA NobodyIsThere ==
  ASSUME NEW t \in Tasks, \A p \in Threads : thread'[p] = Idle
  PROVE  /\ \A p \in Threads : mine(p)' # t /\ threadInv(p)' /\ thread'[p].pc # "write"
         /\ holders(t)' = {} /\ claimants(t)' = {} /\ \A q \in Workers : ~callsBack(q, t)'
         /\ Cardinality({}) = 0
<1>1. \A p \in Threads : mine(p)' = NoTask /\ mine(p)' # t
  BY ServiceAssumption DEF mine, Idle
<1>2. \A p \in Threads : threadInv(p)' /\ thread'[p].pc # "write"
  <2>1. \A p \in Threads : /\ thread'[p].pc = "idle" /\ thread'[p].then = "idle"
                            /\ thread'[p].task = NoTask
    BY DEF Idle
  <2> QED BY <2>1 DEF threadInv, Sweeping
<1> QED BY <1>1, <1>2, FS_EmptySet DEF holders, claimants, callsBack, Threads

(* A crash leaves the files; who was to be told of a success is known.     *)
LEMMA CrashKeepsInv == Inv /\ Crash => Inv'
<1> SUFFICES ASSUME Inv, Crash PROVE Inv'
  OBVIOUS
<1>1. /\ restarts' = restarts + 1 /\ up' = FALSE /\ record' = disk /\ disk' = disk
      /\ queue' = [t \in Tasks |-> 0] /\ active' = {} /\ deleted' = {} /\ deleting' = {}
      /\ heard' = heard /\ sweeps' = sweeps /\ refused' = refused /\ raced' = raced
      /\ thread' = [p \in Threads |-> Idle]
      /\ untold' = untold \cup {mine(w) : w \in {v \in Workers :
                      thread[v].pc = "callback" \/ thread[v].then \in {"callback", "unmark"}}}
  BY DEF Crash
<1>2. TypeOK /\ \A p \in Threads : threadInv(p)
  BY DEF Inv
<1>3. \A p \in Threads : thread'[p] = Idle
  BY <1>1
<1>4. TypeOK'
  <2>1. Idle \in Thread
    BY DEF Idle, Thread, Pcs, Verdicts
  <2>2. \A w \in Workers : thread[w].pc = "callback" \/ thread[w].then \in {"callback", "unmark"} => mine(w) \in Tasks
    BY <1>2, BusyThread DEF threadInv, Threads
  <2>3. untold' \subseteq Tasks /\ thread' \in [Threads -> Thread] /\ queue' \in [Tasks -> Nat]
    BY <1>1, <1>2, <2>1, <2>2 DEF TypeOK
  <2>4. restarts' \in Nat /\ active' \subseteq Tasks /\ deleted' \subseteq Tasks /\ deleting' \subseteq Tasks
    BY <1>1, <1>2 DEF TypeOK
  <2>5. /\ record' \in [Tasks -> Record] /\ disk' \in [Tasks -> Record]
        /\ heard' \in [Tasks -> Verdicts \cup {"none"}] /\ sweeps' \in [Tasks -> Nat]
        /\ refused' \subseteq Tasks /\ raced' \subseteq Tasks
    BY <1>1, <1>2 DEF TypeOK
  <2> QED BY <1>1, <2>3, <2>4, <2>5 DEF TypeOK
<1>5. DownIsEmpty'
  BY <1>1 DEF DownIsEmpty
<1>6. \A p \in Threads : threadInv(p)'
  <2>1. \A p \in Threads : /\ thread'[p].pc = "idle" /\ thread'[p].then = "idle"
                            /\ thread'[p].task = NoTask
    BY <1>3 DEF Idle
  <2> QED BY <2>1 DEF threadInv, Sweeping
<1>7. ASSUME NEW t \in Tasks PROVE taskInv(t)'
  <2>1. taskInv(t) /\ sweeps[t] \in Nat /\ disk[t] \in Record
    BY <1>2 DEF Inv, TypeOK
  <2>2. /\ \A p \in Threads : mine(p)' # t /\ thread'[p].pc # "write"
        /\ holders(t)' = {} /\ claimants(t)' = {} /\ \A q \in Workers : ~callsBack(q, t)'
        /\ Cardinality({}) = 0
    BY <1>3, NobodyIsThere
  <2>3. known(t)' /\ gone(t)' /\ served(t)'
    BY <1>1, <2>2 DEF known, gone, served, listed
  <2>4. attemptsLeft(t)'
    BY <1>1, <2>1 DEF taskInv, attemptsLeft
  <2>5. paid(t)'
    BY <1>1, <2>1, <2>2, ServiceAssumption DEF taskInv, attemptsLeft, paid, Record
  <2>6. verdictIsKnown(t)' /\ toldIsOver(t)'
    BY <1>1, <2>1, <2>2 DEF taskInv, told, verdictIsKnown, toldIsOver, Threads
  <2>7. t \notin raced' \cup untold' /\ sweeps[t] = 0 /\ disk[t].status = "success" => heard[t] = "passed"
    <3> SUFFICES ASSUME t \notin raced' \cup untold', sweeps[t] = 0, disk[t].status = "success"
                 PROVE  heard[t] = "passed"
      OBVIOUS
    <3>1. t \notin deleted
      BY <1>1, <2>1 DEF taskInv, gone, listed
    <3>2. \A w \in Workers : ~callsBack(w, t) /\ ~(mine(w) = t /\ thread[w].then = "unmark")
      BY <1>1 DEF callsBack
    <3> QED BY <1>1, <2>1, <3>1, <3>2 DEF taskInv, told, savedIsHeard
  <2>8. successIsHeard(t)' /\ savedIsHeard(t)'
    BY <1>1, <2>7 DEF successIsHeard, savedIsHeard
  <2> QED BY <2>3, <2>4, <2>5, <2>6, <2>8 DEF taskInv, told
<1> QED BY <1>4, <1>5, <1>6, <1>7 DEF Inv

(* What the start makes of a record.                                       *)
LEMMA RecoveredRecord ==
  ASSUME NEW r \in Record
  PROVE  /\ recovered(r) \in Record
         /\ recovered(r).told = r.told /\ recovered(r).attempts = r.attempts
         /\ r.status # "running" => recovered(r).status = r.status
         /\ r.status = "running" => \/ recovered(r).status = "failed"
                                    \/ recovered(r).status = "queued" /\ r.attempts < MaxAttempts
<1>1. r.attempts \in Nat
  BY DEF Record
<1>2. CASE r.status # "running"
  BY <1>2 DEF recovered
<1>3. CASE r.status = "running" /\ r.attempts >= MaxAttempts
  BY <1>3 DEF recovered, Record, Finished
<1>4. CASE r.status = "running" /\ ~(r.attempts >= MaxAttempts)
  <2>1. r.attempts < MaxAttempts
    BY <1>1, <1>4, ServiceAssumption
  <2>2. recovered(r) = [r EXCEPT !.status = "queued", !.started = "none"]
    BY <1>4 DEF recovered, back_to_queue
  <2> QED BY <1>4, <2>1, <2>2 DEF Record, InFlight
<1> QED BY <1>2, <1>3, <1>4

(* A start queues what is pending, once.                                   *)
LEMMA RestartKeepsInv == Inv /\ Restart => Inv'
<1> SUFFICES ASSUME Inv, Restart PROVE Inv'
  OBVIOUS
<1>1. /\ ~up /\ up' = TRUE /\ disk' = [t \in Tasks |-> recovered(disk[t])] /\ record' = disk'
      /\ queue' = [t \in Tasks |-> IF pending(t) THEN 1 ELSE 0]
      /\ refused' = refused \ {t \in Tasks : pending(t)}
      /\ active' = active /\ deleted' = deleted /\ thread' = thread /\ deleting' = deleting
      /\ restarts' = restarts /\ heard' = heard /\ sweeps' = sweeps /\ raced' = raced /\ untold' = untold
  BY DEF Restart
<1>2. TypeOK /\ deleted = {} /\ \A p \in Threads : thread'[p] = Idle /\ thread[p] = Idle
  BY <1>1 DEF Inv, DownIsEmpty
<1>3. ASSUME NEW t \in Tasks
      PROVE  /\ disk'[t] \in Record /\ record'[t] = disk'[t]
             /\ disk'[t].told = disk[t].told /\ disk'[t].attempts = disk[t].attempts
             /\ disk[t].status # "running" => disk'[t].status = disk[t].status
             /\ disk[t].status = "running" => \/ disk'[t].status = "failed"
                                              \/ disk'[t].status = "queued" /\ disk[t].attempts < MaxAttempts
             /\ queue'[t] = IF disk'[t].status = "queued" THEN 1 ELSE 0
  BY <1>1, <1>2, RecoveredRecord DEF TypeOK, pending
<1>4. TypeOK'
  BY <1>1, <1>2, <1>3 DEF TypeOK
<1>5. DownIsEmpty'
  BY <1>1 DEF DownIsEmpty
<1>6. \A p \in Threads : threadInv(p)'
  <2>1. \A p \in Threads : /\ thread'[p].pc = "idle" /\ thread'[p].then = "idle"
                            /\ thread'[p].task = NoTask
    BY <1>2 DEF Idle
  <2> QED BY <2>1 DEF threadInv, Sweeping
<1>7. ASSUME NEW t \in Tasks PROVE taskInv(t)'
  <2>1. taskInv(t) /\ sweeps[t] \in Nat /\ disk[t].attempts \in Nat
    BY <1>2 DEF Inv, TypeOK, Record
  <2>2. /\ \A p \in Threads : mine(p)' # t /\ thread'[p].pc # "write"
        /\ holders(t)' = {} /\ claimants(t)' = {} /\ \A q \in Workers : ~callsBack(q, t)'
        /\ Cardinality({}) = 0
    BY <1>2, NobodyIsThere
  <2>3. known(t)' /\ gone(t)'
    BY <1>1, <1>2, <1>3, <2>2 DEF known, gone, listed
  <2>4. served(t)'
    BY <1>1, <1>3 DEF served
  <2>5. attemptsLeft(t)'
    BY <1>1, <1>3, <2>1, ServiceAssumption DEF taskInv, attemptsLeft
  <2>6. paid(t)'
    BY <1>1, <1>3, <2>1, <2>2, <2>5, ServiceAssumption DEF taskInv, attemptsLeft, paid
  <2>7. verdictIsKnown(t)' /\ toldIsOver(t)'
    BY <1>1, <1>3, <2>1, <2>2 DEF taskInv, told, verdictIsKnown, toldIsOver, Threads, Finished
  <2>8. t \notin raced \cup untold /\ sweeps[t] = 0 /\ disk[t].status = "success" => heard[t] = "passed"
    BY <1>2, <2>1 DEF taskInv, told, savedIsHeard, callsBack, Threads, Idle
  <2>9. successIsHeard(t)' /\ savedIsHeard(t)'
    BY <1>1, <1>3, <2>8 DEF successIsHeard, savedIsHeard
  <2> QED BY <2>3, <2>4, <2>5, <2>6, <2>7, <2>9 DEF taskInv, told
<1> QED BY <1>4, <1>5, <1>6, <1>7 DEF Inv

-----------------------------------------------------------------------------
(* The theorems.                                                           *)

(* The initial state satisfies the inductive invariant.                    *)
LEMMA InitInv == Init => Inv
<1> SUFFICES ASSUME Init PROVE Inv
  OBVIOUS
<1>1. NoRecord \in Record /\ Idle \in Thread
  BY DEF NoRecord, Record, Idle, Thread, Pcs, Verdicts
<1>2. TypeOK
  BY <1>1 DEF Init, TypeOK
<1>3. \A p \in Threads : threadInv(p)
  BY ServiceAssumption DEF Init, threadInv, Idle, Sweeping
<1>4. ASSUME NEW t \in Tasks PROVE taskInv(t)
  <2>1. \A p \in Threads : mine(p) # t /\ thread[p].pc # "write"
    BY ServiceAssumption DEF Init, mine, Idle
  <2>2. record[t] = NoRecord /\ disk[t] = NoRecord /\ queue[t] = 0 /\ sweeps[t] = 0 /\ deleted = {}
    BY DEF Init
  <2>3. known(t) /\ served(t) /\ gone(t) /\ attemptsLeft(t)
    BY <2>1, <2>2, ServiceAssumption DEF known, served, gone, attemptsLeft, listed, NoRecord
  <2>4. paid(t)
    <3>1. holders(t) = {} /\ claimants(t) = {}
      BY <2>1 DEF holders, claimants
    <3> QED BY <2>2, <3>1, FS_EmptySet, ServiceAssumption DEF paid, NoRecord
  <2>5. told(t)
    BY <2>1, <2>2 DEF told, verdictIsKnown, toldIsOver, successIsHeard, savedIsHeard, callsBack,
                      Threads, NoRecord
  <2> QED BY <2>3, <2>4, <2>5 DEF taskInv
<1> QED BY <1>2, <1>3, <1>4 DEF Inv, Init, DownIsEmpty

(* Every step of a worker keeps the invariant.                             *)
LEMMA WorkerKeepsInv ==
  ASSUME Inv, NEW w \in Workers, Worker(w)
  PROVE  Inv'
<1>1. thread[w].pc \notin {"idle", "dead"}
  BY DEF Worker, Conclude, Callback, Start, Checkout, Finish, Fail, Timeout, CallbackSkipped,
         CallbackAcknowledged, CallbackFails, Enqueue, Unmark, Hang, Save, Write
<1>2. mine(w) \in Tasks
  BY <1>1, BusyThread DEF Threads
<1>3. ASSUME NEW t \in Tasks, mine(w) = t PROVE Inv'
  <2>1. CASE Start(w) \/ Checkout(w)
    BY <1>3, <2>1, StartKeepsInv, CheckoutKeepsInv
  <2>2. CASE Conclude(w)
    BY <1>3, <2>2, FinishKeepsInv, FailKeepsInv, TimeoutKeepsInv, HangKeepsInv DEF Conclude
  <2>3. CASE Callback(w)
    BY <1>3, <2>3, CallbackSkippedKeepsInv, CallbackAcknowledgedKeepsInv, CallbackFailsKeepsInv DEF Callback
  <2>4. CASE Enqueue(w) \/ Unmark(w) \/ Write(w)
    BY <1>3, <2>4, EnqueueKeepsInv, UnmarkKeepsInv, WriteKeepsInv
  <2>5. CASE Save(w)
    BY <1>3, <2>5, SaveKeepsInv DEF Threads
  <2> QED BY <2>1, <2>2, <2>3, <2>4, <2>5 DEF Worker
<1> QED BY <1>2, <1>3

(* Every step of the recovery thread keeps the invariant.                  *)
LEMMA SweepKeepsInv == Inv /\ Sweep => Inv'
<1> SUFFICES ASSUME Inv, Sweep PROVE Inv'
  OBVIOUS
<1>1. CASE \E t \in Tasks : SweepLook(t)
  BY <1>1, SweepLookKeepsInv
<1>2. CASE \/ SweepActive \/ SweepAge \/ SweepAttempts \/ SweepGivesUp \/ SweepRequeues
           \/ SweepEnqueue \/ Save(Sweeper) \/ Write(Sweeper)
  <2>1. thread[Sweeper].pc \notin {"idle", "dead"}
    BY <1>2 DEF SweepActive, SweepAge, SweepAttempts, judged, SweepGivesUp, SweepRequeues,
                SweepEnqueue, Save, Write
  <2>2. mine(Sweeper) \in Tasks
    BY <2>1, BusyThread DEF Threads
  <2>3. ASSUME NEW t \in Tasks, mine(Sweeper) = t PROVE Inv'
    BY <1>2, <2>3, SweepLooksOn, SweepGivesUpKeepsInv, SweepRequeuesKeepsInv, SweepEnqueueKeepsInv,
       SaveKeepsInv, SweepWriteKeepsInv DEF Threads
  <2> QED BY <2>2, <2>3
<1> QED BY <1>1, <1>2 DEF Sweep

(* Every step keeps the invariant.                                         *)
LEMMA InvKept == Inv /\ [Next]_vars => Inv'
<1> SUFFICES ASSUME Inv, [Next]_vars PROVE Inv'
  OBVIOUS
<1>1. CASE \E w \in Workers : Worker(w)
  BY <1>1, WorkerKeepsInv
<1>2. CASE \E w \in Workers, t \in Tasks : Pick(w, t)
  BY <1>2, PickKeepsInv
<1>3. CASE Sweep
  BY <1>3, SweepKeepsInv
<1>7. CASE \E w \in Workers : Freed(w)
  <2>1. PICK w \in Workers : Freed(w)
    BY <1>7
  <2>2. mine(w) \in Tasks
    BY <2>1, BusyThread DEF Freed, Threads
  <2> QED BY <2>1, <2>2, HangKeepsInv
<1>4. CASE \E t \in Tasks : Submit(t) \/ Delete(t) \/ RunGetsOld(t)
  BY <1>4, SubmitKeepsInv, DeleteKeepsInv, RunGetsOldKeepsInv
<1>5. CASE FindRunning \/ Crash \/ Restart
  BY <1>5, FindRunningKeepsInv, CrashKeepsInv, RestartKeepsInv
<1>6. CASE UNCHANGED vars
  BY <1>6, StutterKeepsInv
<1> QED BY <1>1, <1>2, <1>3, <1>4, <1>5, <1>6, <1>7 DEF Next

(* The inductive invariant holds in every reachable state.                 *)
LEMMA InvCorrect == Spec => []Inv
BY InitInv, InvKept, PTL DEF Spec

(* Every record, thread and history variable holds a value of its kind.    *)
THEOREM TypeCorrect == Spec => []TypeOK
<1>1. Inv => TypeOK
  BY DEF Inv
<1> QED BY <1>1, InvCorrect, PTL

(* No retry, sweep or restart forgets a queued record.                     *)
THEOREM QueuedCorrect == Spec => []QueuedIsServed
<1>1. ASSUME Inv PROVE QueuedIsServed
  <2> SUFFICES ASSUME up, NEW t \in Tasks \ (deleted \cup refused), listed(t), record[t].status = "queued"
               PROVE  queue[t] > 0 \/ enqueuers(t) \cup picked(t) # {}
    BY DEF QueuedIsServed
  <2>1. queue[t] > 0 \/ \E p \in Threads : mine(p) = t /\ claims(p, thread[p])
    BY <1>1 DEF Inv, taskInv, served
  <2>2. ASSUME NEW p \in Threads, mine(p) = t, claims(p, thread[p])
        PROVE  p \in enqueuers(t) \cup picked(t)
    BY <2>2 DEF claims, enqueuers, picked
  <2> QED BY <2>1, <2>2
<1> QED BY <1>1, InvCorrect, PTL

(* A task is run by one thread and max_task_attempts times, and beyond     *)
(* that only once for each time the sweep mistook it for an orphan.        *)
THEOREM PaidCorrect == Spec => []RunsArePaid
<1>1. ASSUME Inv PROVE RunsArePaid
  <2> SUFFICES ASSUME NEW t \in Tasks
               PROVE  /\ queue[t] + Cardinality(running(t) \cup enqueuers(t)) <= 1 + sweeps[t]
                      /\ record[t].attempts + tickets(t) <= MaxAttempts + sweeps[t]
    BY DEF RunsArePaid
  <2>1. /\ queue[t] \in Nat /\ sweeps[t] \in Nat /\ record[t].attempts \in Nat /\ paid(t)
        /\ \A p \in Threads : threadInv(p)
    BY <1>1 DEF Inv, TypeOK, Record, taskInv
  <2>2. IsFiniteSet(holders(t)) /\ IsFiniteSet(claimants(t))
    BY FiniteThreads
  <2>3. /\ Cardinality(running(t) \cup enqueuers(t)) <= Cardinality(holders(t))
        /\ Cardinality(running(t) \cup enqueuers(t)) \in Nat /\ Cardinality(holders(t)) \in Nat
    <3>1. running(t) \cup enqueuers(t) \in SUBSET holders(t)
      BY <2>1, ServiceAssumption DEF running, enqueuers, holders, holds, Threads, threadInv
    <3> QED BY <2>2, <3>1, FS_Subset, FS_CardinalityType
  <2>4. /\ Cardinality(claimants(t)) = Cardinality(enqueuers(t)) + Cardinality(picked(t))
        /\ Cardinality(enqueuers(t)) \in Nat /\ Cardinality(picked(t)) \in Nat
    <3>1. claimants(t) = enqueuers(t) \cup picked(t)
      BY DEF claimants, claims, enqueuers, picked, Threads
    <3>2. enqueuers(t) \cap picked(t) = {}
      BY <2>1 DEF enqueuers, picked, Threads, threadInv
    <3>3. IsFiniteSet(enqueuers(t)) /\ IsFiniteSet(picked(t))
      BY <2>2, <3>1, FS_Subset
    <3>4. Cardinality(claimants(t)) = Cardinality(enqueuers(t)) + Cardinality(picked(t)) - Cardinality({})
      BY <3>1, <3>2, <3>3, FS_Union
    <3>5. Cardinality({}) = 0
      BY FS_EmptySet
    <3>6. Cardinality(enqueuers(t)) \in Nat /\ Cardinality(picked(t)) \in Nat
      BY <3>3, FS_CardinalityType
    <3> QED BY <3>4, <3>5, <3>6
  <2>5. tickets(t) = queue[t] + Cardinality(claimants(t))
    BY <2>1, <2>4 DEF tickets
  <2> QED BY <2>1, <2>3, <2>4, <2>5, ServiceAssumption DEF paid
<1> QED BY <1>1, InvCorrect, PTL

(* A deleted task is gone from the disk while the process lives, but for a *)
(* save that had passed its check.                                         *)
THEOREM DeletedCorrect == Spec => []DeletedIsGone
<1>1. Inv => DeletedIsGone
  BY DEF Inv, TypeOK, taskInv, gone, DeletedIsGone
<1> QED BY <1>1, InvCorrect, PTL

(* A task that ended as a success and is not worked on has told CI so.     *)
THEOREM ToldCorrect == Spec => []SuccessIsTold
<1>1. ASSUME Inv PROVE SuccessIsTold
  <2> SUFFICES ASSUME NEW t \in Tasks \ (untold \cup deleted \cup raced),
                      record[t].status = "success", idle(t), sweeps[t] = 0
               PROVE  heard[t] = "passed"
    BY DEF SuccessIsTold
  <2>1. successIsHeard(t)
    BY <1>1 DEF Inv, taskInv, told
  <2>2. \A w \in Workers : ~callsBack(w, t)
    BY DEF idle, callsBack
  <2> QED BY <2>1, <2>2 DEF successIsHeard
<1> QED BY <1>1, InvCorrect, PTL
=============================================================================
