------------------------ MODULE LegacyReview_proofs ------------------------
(***************************************************************************)
(* Proofs about LegacyReview, for any number of runs, URLs, branches and   *)
(* pushes and any number of retries and repairs.                           *)
(*                                                                         *)
(* The argument has two halves.  While a run holds the lock nobody else    *)
(* touches the directory, so each git command finds what the one before it *)
(* left (GitInv).  Once it has left the lock the directory may move, but   *)
(* then the run is among those that moved (ReviewInv).                     *)
(***************************************************************************)
EXTENDS LegacyReview, TLAPS

-----------------------------------------------------------------------------
(* The inductive invariants.                                               *)

\* The run whose git commands work on the directory is the one with the lock.
HolderHasLock == \A r \in Runs : job[r].pc \in Locked <=> lock = r

\* origin/<branch> is a commit of that branch.
RefsAreOfTheirBranch ==
  \A b \in Branches : dir.tracking[b] = NoCommit \/ dir.tracking[b].branch = b

\* A commit that r was asked to review.
asked(r, c) ==
  /\ c.branch = request[r].branch
  /\ token \/ request[r].named => c.url = request[r].url

\* What the git commands of r so far leave for its next one.
prepared(r) ==
  /\ job[r].pc = "fetch" /\ token => dir.origin = request[r].url
  /\ job[r].pc = "switch" /\ token =>
       dir.tracking[request[r].branch].url = request[r].url
  /\ job[r].pc \in {"resolve", "context"} => asked(r, dir.head)
  /\ job[r].pc = "context" => job[r].commit = dir.head
  /\ job[r].pc = "ready" =>
       job[r].context = job[r].commit /\ asked(r, job[r].commit)

EachCommandPreparesTheNext == \A r \in Runs : prepared(r)

GitInv == /\ GitTypeOK
          /\ HolderHasLock
          /\ RefsAreOfTheirBranch
          /\ EachCommandPreparesTheNext

\* The review of a run goes on exactly when its git part is through.
ReviewFollowsGit ==
  \A r \in Runs :
    /\ job[r].pc \in Locked \cup {"wait"} => review[r].pc = "idle"
    /\ job[r].pc \in {"failed", "cancelled"} =>
         review[r].pc \in {"error", "timeout", "discarded"}
    /\ job[r].pc = "ready" => review[r].pc \in {"attempt", "repair", "passed", "rejected", "hung"}

\* The rounds behind the present prompt: one before the extra attempt, and one
\* before a repair of an announcement.
rounds_before(v) ==
  (IF v.retried THEN 1 ELSE 0) + (IF v.pc = "repair" /\ v.announces THEN 1 ELSE 0)

\* The locals v of the analysis of r: the model read the commit of the run, or
\* the run is known to be moved; an error event ends the run at once; and a
\* verdict is what OverruledOnlyByTheDiff and SilenceIsAskedTwice say.
sound(r, v) ==
  /\ v.pc = "idle" => v.own /\ v.repairs = 0 /\ ~v.retried
  /\ v.pc \in {"attempt", "repair"} =>
       /\ r \in moved \/ (v.own /\ dir.head = job[r].commit)
       /\ v.pc = "attempt" <=> v.repairs = 0
       /\ v.rounds >= rounds_before(v)
  /\ v.failed => v.pc = "error"
  /\ v.pc = "passed" /\ v.report = "blocking" => job[r].diff = "none" \/ r \in moved
  /\ v.pc = "passed" /\ v.silent => v.rounds >= 2

ReviewInv == /\ TypeOK
             /\ ReviewFollowsGit
             /\ \A r \in Runs : sound(r, review[r])

Inv == GitInv /\ ReviewInv

-----------------------------------------------------------------------------
(* The git part.                                                           *)

(* The commits of a branch up to its n-th are commits of that branch.      *)
LEMMA HistoryOfABranch ==
  ASSUME NEW u \in Urls, NEW b \in Branches, NEW n \in 0..MaxPushes
  PROVE  /\ history(u, b, n) \subseteq Commits
         /\ \A c \in history(u, b, n) : c.url = u /\ c.branch = b /\ c.number \in 0..MaxPushes
BY CheckoutAssumption DEF history, Commits

(* A possible tip of a branch is a commit of it.                           *)
LEMMA TipOfABranch ==
  ASSUME NEW u \in Urls, NEW b \in Branches, NEW tip \in tips(u, b)
  PROVE  /\ tip \in Commits /\ tip.url = u /\ tip.branch = b
         /\ tip.number \in 0..MaxPushes
<1>1. MaxPushes \in 0..MaxPushes
  BY CheckoutAssumption
<1>2. tip \in history(u, b, MaxPushes)
  BY DEF tips
<1> QED BY <1>1, <1>2, HistoryOfABranch

(* A step of the run that has the lock, or takes it, disturbs no other run *)
(* and keeps the invariant if it does so for itself.                       *)
LEMMA OnlyTheHolder ==
  ASSUME GitInv, NEW r \in Runs, lock \in {r, NoRun},
         token' = token, request' = request,
         job' \in [Runs -> Job], \A s \in Runs \ {r} : job'[s] = job[s],
         dir' \in Dir, RefsAreOfTheirBranch',
         lock' \in {r, NoRun}, job'[r].pc \in Locked <=> lock' = r,
         prepared(r)'
  PROVE  GitInv'
<1>1. GitTypeOK'
  BY DEF GitInv, GitTypeOK
<1>2. \A s \in Runs \ {r} : job[s].pc \notin Locked /\ lock' # s
  BY CheckoutAssumption DEF GitInv, HolderHasLock
<1>3. HolderHasLock'
  BY <1>2 DEF HolderHasLock
<1>4. EachCommandPreparesTheNext'
  <2> SUFFICES ASSUME NEW s \in Runs \ {r} PROVE prepared(s)'
    BY DEF EachCommandPreparesTheNext
  <2>1. job'[s] = job[s] /\ job[s].pc \notin {"fetch", "switch", "resolve", "context"}
    BY <1>2 DEF Locked
  <2>2. prepared(s)
    BY DEF GitInv, EachCommandPreparesTheNext
  <2> QED BY <2>1, <2>2 DEF prepared, asked
<1> QED BY <1>1, <1>3, <1>4 DEF GitInv

(* At the start no run has begun.                                          *)
LEMMA GitStarts == GitInit => GitInv
<1> SUFFICES ASSUME GitInit PROVE GitInv
  OBVIOUS
<1> USE DEF GitInit
<1>1. dir \in Dir
  BY DEF EmptyDir, Dir, NoCommit
<1>2. job \in [Runs -> Job] /\ \A r \in Runs : job[r].pc = "wait"
  BY DEF NoJob, Job, Locked
<1>3. GitTypeOK
  BY <1>1, <1>2 DEF GitTypeOK
<1>4. HolderHasLock
  BY <1>2, CheckoutAssumption DEF HolderHasLock, Locked
<1>5. RefsAreOfTheirBranch
  BY DEF RefsAreOfTheirBranch, EmptyDir
<1>6. EachCommandPreparesTheNext
  BY <1>2 DEF EachCommandPreparesTheNext, prepared
<1> QED BY <1>3, <1>4, <1>5, <1>6 DEF GitInv

(* A git command of a run keeps the invariant, and brings the run to its   *)
(* review only with the directory at its commit.                           *)
LEMMA GitGoesOn ==
  ASSUME GitInv, NEW r \in Runs, GitCommand(r) \/ GitCancelled(r)
  PROVE  /\ GitInv'
         /\ job[r].pc \in Locked \cup {"wait"}
         /\ \A s \in Runs \ {r} : job'[s] = job[s]
         /\ job'[r].pc \in Locked \cup {"ready", "failed", "cancelled"}
         /\ job'[r].pc = "ready" => dir'.head = job'[r].commit
<1>1. /\ token \in BOOLEAN /\ request[r] \in Request
      /\ dir \in Dir /\ job \in [Runs -> Job] /\ job[r] \in Job
  BY DEF GitInv, GitTypeOK
<1>2. request[r].url \in Urls /\ request[r].branch \in Branches /\ request[r].named \in BOOLEAN
  BY <1>1 DEF Request
<1>3. job[r].pc \in Locked => lock = r
  BY DEF GitInv, HolderHasLock
<1>4. prepared(r) /\ RefsAreOfTheirBranch
  BY DEF GitInv, EachCommandPreparesTheNext
<1>5. CASE Acquire(r)
  <2>1. job' = [job EXCEPT ![r].pc = "open"] /\ job[r].pc = "wait" /\ lock = NoRun /\ lock' = r
        /\ dir' = dir /\ token' = token /\ request' = request
    BY <1>5 DEF Acquire, goes, repo_lock
  <2>2. job' \in [Runs -> Job] /\ job'[r].pc = "open" /\ \A s \in Runs \ {r} : job'[s] = job[s]
    BY <1>1, <2>1 DEF Job, Locked
  <2>3. RefsAreOfTheirBranch'
    BY <1>4, <2>1 DEF RefsAreOfTheirBranch
  <2>4. prepared(r)'
    BY <2>2 DEF prepared
  <2> QED BY <1>1, <2>1, <2>2, <2>3, <2>4, OnlyTheHolder DEF Locked
<1>6. CASE Clone(r)
  <2> DEFINE u == request[r].url  b == request[r].branch
  <2>1. PICK tip \in tips(u, b) :
          dir' = [exists |-> TRUE, origin |-> u,
                  tracking |-> [EmptyDir.tracking EXCEPT ![b] = tip],
                  objects |-> history(u, b, tip.number), head |-> tip]
    BY <1>6 DEF Clone
  <2>2. tip \in Commits /\ tip.url = u /\ tip.branch = b /\ tip.number \in 0..MaxPushes
    BY <1>2, TipOfABranch
  <2>3. job' = [job EXCEPT ![r].pc = "switch"] /\ job[r].pc = "open" /\ lock' = lock
        /\ token' = token /\ request' = request
    BY <1>6 DEF Clone, goes
  <2>4. job' \in [Runs -> Job] /\ job'[r].pc = "switch" /\ \A s \in Runs \ {r} : job'[s] = job[s]
    BY <1>1, <2>3 DEF Job, Locked
  <2>5. [EmptyDir.tracking EXCEPT ![b] = tip] \in [Branches -> Commits \cup {NoCommit}]
    BY <1>2, <2>2 DEF EmptyDir
  <2>6. history(u, b, tip.number) \subseteq Commits
    BY <1>2, <2>2, HistoryOfABranch
  <2>7. dir' \in Dir
    BY <1>2, <2>1, <2>2, <2>5, <2>6 DEF Dir
  <2>8. dir'.tracking = [c \in Branches |-> IF c = b THEN tip ELSE NoCommit]
    BY <1>2, <2>1 DEF EmptyDir
  <2>9. RefsAreOfTheirBranch'
    BY <2>2, <2>8 DEF RefsAreOfTheirBranch
  <2>10. prepared(r)'
    BY <1>2, <2>2, <2>3, <2>4, <2>8 DEF prepared
  <2> QED BY <1>3, <2>3, <2>4, <2>7, <2>9, <2>10, OnlyTheHolder DEF Locked
<1>7. CASE Configure(r)
  <2>1. job' = [job EXCEPT ![r].pc = "fetch"] /\ job[r].pc = "open" /\ lock' = lock
        /\ token' = token /\ request' = request
        /\ dir' = IF token THEN [dir EXCEPT !.origin = request[r].url] ELSE dir
    BY <1>7 DEF Configure, goes, _configure_repo_remote_url
  <2>2. job' \in [Runs -> Job] /\ job'[r].pc = "fetch" /\ \A s \in Runs \ {r} : job'[s] = job[s]
    BY <1>1, <2>1 DEF Job, Locked
  <2>3. dir' \in Dir /\ dir'.tracking = dir.tracking /\ (token => dir'.origin = request[r].url)
    BY <1>1, <1>2, <2>1 DEF Dir
  <2>4. RefsAreOfTheirBranch'
    BY <1>4, <2>3 DEF RefsAreOfTheirBranch
  <2>5. prepared(r)'
    BY <2>1, <2>2, <2>3 DEF prepared
  <2> QED BY <1>3, <2>1, <2>2, <2>3, <2>4, <2>5, OnlyTheHolder DEF Locked
<1>8. CASE _fetch_branch_ref(r)
  <2> DEFINE u == dir.origin  b == request[r].branch
  <2>1. PICK tip \in tips(u, b) :
          dir' = [dir EXCEPT !.tracking[b] = tip,
                             !.objects = @ \cup history(u, b, tip.number)]
    BY <1>8 DEF _fetch_branch_ref
  <2>2. u \in Urls
    BY <1>1, <1>8 DEF _fetch_branch_ref, Dir
  <2>3. tip \in Commits /\ tip.url = u /\ tip.branch = b /\ tip.number \in 0..MaxPushes
    BY <1>2, <2>2, TipOfABranch
  <2>4. job' = [job EXCEPT ![r].pc = "switch"] /\ job[r].pc = "fetch" /\ lock' = lock
        /\ token' = token /\ request' = request
    BY <1>8 DEF _fetch_branch_ref, goes
  <2>5. job' \in [Runs -> Job] /\ job'[r].pc = "switch" /\ \A s \in Runs \ {r} : job'[s] = job[s]
    BY <1>1, <2>4 DEF Job, Locked
  <2>6. history(u, b, tip.number) \subseteq Commits
    BY <1>2, <2>2, <2>3, HistoryOfABranch
  <2>7. dir' = [dir EXCEPT !.tracking = [dir.tracking EXCEPT ![b] = tip],
                           !.objects = dir.objects \cup history(u, b, tip.number)]
    BY <1>1, <2>1 DEF Dir
  <2>8. /\ dir.tracking \in [Branches -> Commits \cup {NoCommit}]
        /\ dir.objects \subseteq Commits
    BY <1>1 DEF Dir
  <2>9. /\ [dir.tracking EXCEPT ![b] = tip] \in [Branches -> Commits \cup {NoCommit}]
        /\ dir.objects \cup history(u, b, tip.number) \subseteq Commits
    BY <1>2, <2>3, <2>6, <2>8
  <2>10. dir' \in Dir /\ dir'.tracking = [dir.tracking EXCEPT ![b] = tip]
    <3> HIDE DEF u, b
    <3> QED BY <1>1, <2>7, <2>9 DEF Dir
  <2>11. RefsAreOfTheirBranch'
    BY <1>2, <1>4, <2>3, <2>8, <2>10 DEF RefsAreOfTheirBranch
  <2>12. prepared(r)'
    <3>1. dir'.tracking[request[r].branch].url = dir.origin
      BY <1>2, <2>3, <2>8, <2>10
    <3>2. token => dir.origin = request[r].url
      BY <1>4, <2>4 DEF prepared
    <3> QED BY <2>4, <2>5, <3>1, <3>2 DEF prepared
  <2> QED BY <1>3, <2>4, <2>5, <2>10, <2>11, <2>12, OnlyTheHolder DEF Locked
<1>9. CASE Switch(r)
  <2> DEFINE ref == IF request[r].named THEN named(r) ELSE dir.tracking[request[r].branch]
  <2>1. ref \in dir.objects /\ dir' = [dir EXCEPT !.head = ref]
    BY <1>9 DEF Switch
  <2>2. ref \in Commits /\ ref # NoCommit
    BY <1>1, <2>1, CheckoutAssumption DEF Dir, Commits, NoCommit
  <2>3. job' = [job EXCEPT ![r].pc = "resolve"] /\ job[r].pc = "switch" /\ lock' = lock
        /\ token' = token /\ request' = request
    BY <1>9 DEF Switch, goes
  <2>4. job' \in [Runs -> Job] /\ job'[r].pc = "resolve" /\ \A s \in Runs \ {r} : job'[s] = job[s]
    BY <1>1, <2>3 DEF Job, Locked
  <2>5. asked(r, ref)
    <3>1. CASE request[r].named
      BY <3>1 DEF asked, named
    <3>2. CASE ~request[r].named
      BY <1>2, <1>4, <2>2, <2>3, <3>2 DEF asked, prepared, RefsAreOfTheirBranch
    <3> QED BY <3>1, <3>2
  <2>6. dir' \in Dir /\ dir'.tracking = dir.tracking /\ dir'.head = ref
    <3> HIDE DEF ref
    <3> QED BY <1>1, <2>1, <2>2 DEF Dir
  <2>7. RefsAreOfTheirBranch'
    BY <1>4, <2>6 DEF RefsAreOfTheirBranch
  <2>8. prepared(r)'
    <3> HIDE DEF ref
    <3> QED BY <2>3, <2>4, <2>5, <2>6 DEF prepared, asked
  <2> QED BY <1>3, <2>3, <2>4, <2>6, <2>7, <2>8, OnlyTheHolder DEF Locked
<1>10. CASE current_commit(r)
  <2>1. job' = [job EXCEPT ![r].pc = "context", ![r].commit = dir.head] /\ job[r].pc = "resolve"
        /\ lock' = lock /\ dir' = dir /\ token' = token /\ request' = request
    BY <1>10 DEF current_commit
  <2>2. dir.head \in Commits \cup {NoCommit}
    BY <1>1 DEF Dir
  <2>3. job' \in [Runs -> Job] /\ job'[r].pc = "context" /\ job'[r].commit = dir.head
        /\ \A s \in Runs \ {r} : job'[s] = job[s]
    BY <1>1, <2>1, <2>2 DEF Job, Locked
  <2>4. RefsAreOfTheirBranch'
    BY <1>4, <2>1 DEF RefsAreOfTheirBranch
  <2>5. prepared(r)'
    BY <1>4, <2>1, <2>3 DEF prepared, asked
  <2> QED BY <1>1, <1>3, <2>1, <2>3, <2>4, <2>5, OnlyTheHolder DEF Locked
<1>11. CASE collect_review_context(r)
  <2>1. PICK d \in {"files", "none"} :
          job' = [job EXCEPT ![r].pc = "ready", ![r].context = dir.head, ![r].diff = d]
    BY <1>11 DEF collect_review_context
  <2>2. job[r].pc = "context" /\ lock' = NoRun /\ dir' = dir /\ token' = token /\ request' = request
    BY <1>11 DEF collect_review_context
  <2>3. dir.head \in Commits \cup {NoCommit}
    BY <1>1 DEF Dir
  <2>4. job' \in [Runs -> Job] /\ job'[r].pc = "ready" /\ job'[r].context = dir.head
        /\ job'[r].commit = job[r].commit /\ \A s \in Runs \ {r} : job'[s] = job[s]
    BY <1>1, <2>1, <2>3 DEF Job, Locked
  <2>5. RefsAreOfTheirBranch'
    BY <1>4, <2>2 DEF RefsAreOfTheirBranch
  <2>6. dir.head = job[r].commit /\ prepared(r)'
    BY <1>4, <2>2, <2>4 DEF prepared, asked
  <2> QED BY <1>1, <1>3, <2>2, <2>4, <2>5, <2>6, OnlyTheHolder, CheckoutAssumption DEF Locked
<1>12. CASE GitHangs(r)
  <2>1. job' = [job EXCEPT ![r].pc = "hung"] /\ job[r].pc \in {"open", "fetch", "context"}
        /\ lock' = lock /\ dir' = dir /\ token' = token /\ request' = request
    BY <1>12 DEF GitHangs, goes
  <2>2. job' \in [Runs -> Job] /\ job'[r].pc = "hung" /\ \A s \in Runs \ {r} : job'[s] = job[s]
    BY <1>1, <2>1 DEF Job, Locked
  <2>3. RefsAreOfTheirBranch'
    BY <1>4, <2>1 DEF RefsAreOfTheirBranch
  <2>4. prepared(r)'
    BY <2>2 DEF prepared
  <2> QED BY <1>1, <1>3, <2>1, <2>2, <2>3, <2>4, OnlyTheHolder DEF Locked
<1>13. CASE GitFails(r) \/ GitCancelled(r)
  <2>1. PICK pc \in {"failed", "cancelled"} : job' = [job EXCEPT ![r] = [NoJob EXCEPT !.pc = pc]]
    BY <1>13 DEF GitFails, GitCancelled, raises
  <2>2. job[r].pc \in Locked /\ lock' = NoRun /\ token' = token /\ request' = request
        /\ dir' \in leftover(r)
    BY <1>13 DEF GitFails, GitCancelled
  <2>3. job' \in [Runs -> Job] /\ job'[r].pc = pc /\ \A s \in Runs \ {r} : job'[s] = job[s]
    BY <1>1, <2>1 DEF Job, NoJob, Locked
  <2>4. dir' \in Dir /\ dir'.tracking = dir.tracking
    <3>1. CASE dir' = dir
      BY <1>1, <3>1
    <3>2. CASE dir' # dir
      <4>1. PICK u \in {"none", request[r].url} : dir' = [dir EXCEPT !.exists = TRUE, !.origin = u]
        BY <2>2, <3>2 DEF leftover
      <4>2. u \in Urls \cup {"none"}
        BY <1>2
      <4> QED BY <1>1, <4>1, <4>2 DEF Dir
    <3> QED BY <3>1, <3>2
  <2>5. RefsAreOfTheirBranch'
    BY <1>4, <2>4 DEF RefsAreOfTheirBranch
  <2>6. prepared(r)'
    BY <2>3 DEF prepared
  <2> QED BY <1>3, <2>2, <2>3, <2>4, <2>5, <2>6, OnlyTheHolder, CheckoutAssumption DEF Locked
<1> QED BY <1>5, <1>6, <1>7, <1>8, <1>9, <1>10, <1>11, <1>12, <1>13 DEF GitCommand

-----------------------------------------------------------------------------
(* The review.                                                             *)

(* An answer with an error event is neither a result nor repairable.       *)
LEMMA ErrorsAreFinal ==
  ASSUME NEW answer \in Answers
  PROVE  /\ answer.parsed \in Parsed /\ answer.error \in BOOLEAN
         /\ answer.error => answer.parsed = "unrepairable"
<1>1. PICK o \in Output : answer = [parsed |-> _parse_output(o),
                                   error |-> _raise_for_opencode_error_event(o)]
  BY DEF Answers
<1>2. o.form \in {"blank", "value", "array", "events", "plain"}
  BY DEF Output
<1>3. validated("object", o) \in Parsed /\ validated(_parse_event_stream(o), o) \in Parsed
      /\ validated(_extract_json_object(o.text), o) \in Parsed
  BY DEF validated, Parsed, _parse_event_stream, _extract_json_object
<1>4. CASE _raise_for_opencode_error_event(o)
  BY <1>1, <1>2, <1>4 DEF _parse_output, _raise_for_opencode_error_event, Parsed
<1>5. CASE ~_raise_for_opencode_error_event(o)
  <2>1. _parse_output(o) \in Parsed
    <3>1. CASE o.form \in {"blank", "array"}
      BY <1>5, <3>1 DEF _parse_output, Parsed
    <3>2. CASE o.form = "events"
      BY <1>3, <1>5, <3>2 DEF _parse_output, _raise_for_opencode_error_event
    <3>3. CASE o.form = "plain"
      BY <1>3, <1>5, <3>3 DEF _parse_output
    <3>4. CASE o.form = "value"
      BY <1>3, <1>5, <3>4 DEF _parse_output
    <3> QED BY <1>2, <3>1, <3>2, <3>3, <3>4
  <2>2. answer.parsed = _parse_output(o) /\ answer.error = _raise_for_opencode_error_event(o)
    BY <1>1
  <2>3. _raise_for_opencode_error_event(o) = FALSE
    BY <1>5
  <2> QED BY <2>1, <2>2, <2>3
<1> QED BY <1>4, <1>5

(* The initial state satisfies the inductive invariant.                    *)
LEMMA InvStarts == Init => Inv
<1> SUFFICES ASSUME Init PROVE Inv
  OBVIOUS
<1>1. GitInv
  BY GitStarts DEF Init
<1>2. TypeOK
  BY <1>1, RunnerAssumption DEF Init, NewReview, GitInv, TypeOK, Review, Ends
<1>3. ReviewFollowsGit
  BY DEF Init, NewReview, GitInit, NoJob, ReviewFollowsGit, Locked
<1>4. \A r \in Runs : sound(r, review[r])
  BY DEF Init, NewReview, sound
<1> QED BY <1>1, <1>2, <1>3, <1>4 DEF Inv, ReviewInv

(* Git commands of one run keep the invariant: those that move the         *)
(* directory under another run mark that run.                              *)
LEMMA GitKeepsInv ==
  ASSUME Inv, NEW r \in Runs, Git(r) \/ GitStep(r, GitCancelled(r))
  PROVE  Inv'
<1>1. GitInv /\ (GitCommand(r) \/ GitCancelled(r))
  BY DEF Inv, Git, GitStep
<1>2. /\ GitInv'
      /\ job[r].pc \in Locked \cup {"wait"}
      /\ \A s \in Runs \ {r} : job'[s] = job[s]
      /\ job'[r].pc \in Locked \cup {"ready", "failed", "cancelled"}
      /\ job'[r].pc = "ready" => dir'.head = job'[r].commit
  BY <1>1, GitGoesOn
<1>3. review \in [Runs -> Review] /\ moved \subseteq Runs
  BY DEF Inv, ReviewInv, TypeOK
<1>4. review[r].pc = "idle"
  BY <1>2 DEF Inv, ReviewInv, ReviewFollowsGit
<1> DEFINE pc == CASE job'[r].pc = "ready" -> "attempt"
                   [] job'[r].pc = "failed" -> "error"
                   [] job'[r].pc = "cancelled" -> "discarded"
                   [] OTHER -> review[r].pc
<1>5. review' = [review EXCEPT ![r].pc = pc]
      /\ moved' = moved \cup {s \in Runs : reviewing(s) /\ dir'.head # job[s].commit}
  BY <1>3 DEF Git, GitStep
<1>6. /\ job'[r].pc = "ready" => pc = "attempt"
      /\ job'[r].pc = "failed" => pc = "error"
      /\ job'[r].pc = "cancelled" => pc = "discarded"
      /\ job'[r].pc \in Locked => pc = "idle"
  BY <1>4 DEF Locked
<1>7. pc \in {"attempt", "error", "discarded", "idle"}
  BY <1>2, <1>6
<1> HIDE DEF pc
<1>8. /\ review' \in [Runs -> Review]
      /\ review'[r] = [review[r] EXCEPT !.pc = pc]
      /\ \A s \in Runs \ {r} : review'[s] = review[s]
  BY <1>3, <1>5, <1>7 DEF Review, Ends
<1>9. TypeOK'
  BY <1>2, <1>3, <1>5, <1>8 DEF TypeOK, GitInv
<1>10. ReviewFollowsGit'
  BY <1>2, <1>3, <1>6, <1>8 DEF ReviewFollowsGit, Inv, ReviewInv, Review, Locked
<1>11. \A s \in Runs \ {r} : sound(s, review[s])'
  <2> SUFFICES ASSUME NEW s \in Runs \ {r} PROVE sound(s, review[s])'
    OBVIOUS
  <2>1. sound(s, review[s]) /\ review'[s] = review[s] /\ job'[s] = job[s]
    BY <1>2, <1>8 DEF Inv, ReviewInv
  <2>2. moved \subseteq moved' /\ (reviewing(s) /\ dir'.head # job[s].commit => s \in moved')
    BY <1>5
  <2> QED BY <2>1, <2>2 DEF sound, reviewing, rounds_before
<1>12. sound(r, review[r])'
  <2>1. sound(r, review[r]) /\ review[r] \in Review
    BY <1>3 DEF Inv, ReviewInv
  <2>2. /\ review[r].own /\ review[r].repairs = 0 /\ ~review[r].retried /\ ~review[r].failed
        /\ review[r].rounds \in Nat
    BY <1>4, <2>1 DEF sound, Review
  <2>3. review'[r].pc = pc /\ review'[r].own /\ review'[r].repairs = 0 /\ ~review'[r].retried
        /\ ~review'[r].failed /\ review'[r].rounds \in Nat
    BY <1>3, <1>8, <2>1, <2>2 DEF Review
  <2>4. pc = "attempt" => dir'.head = job'[r].commit
    BY <1>2, <1>6
  <2> QED BY <1>7, <2>3, <2>4 DEF sound, rounds_before
<1> QED BY <1>2, <1>9, <1>10, <1>11, <1>12 DEF Inv, ReviewInv

(* A step of a run that waits for a process disturbs no other run.         *)
LEMMA PromptKeepsOthers ==
  ASSUME Inv, NEW r \in Runs, NEW w \in Review, reviewing(r),
         review' = [review EXCEPT ![r] = w],
         w.pc # "idle", sound(r, w),
         token' = token, request' = request, dir' = dir, lock' = lock,
         IF review'[r].pc \in {"error", "timeout", "discarded"}
         THEN raises(r, "failed") ELSE UNCHANGED job,
         moved' = IF review'[r].pc \in {"error", "timeout", "discarded", "hung"}
                  THEN moved \ {r} ELSE moved
  PROVE  Inv'
<1>1. /\ review \in [Runs -> Review] /\ moved \subseteq Runs /\ job \in [Runs -> Job]
      /\ review[r] \in Review /\ job[r] \in Job
  BY DEF Inv, ReviewInv, TypeOK, GitTypeOK
<1>2. job[r].pc = "ready"
  BY <1>1 DEF Inv, ReviewInv, ReviewFollowsGit, reviewing, Job
<1>3. review' \in [Runs -> Review] /\ review'[r] = w /\ \A s \in Runs \ {r} : review'[s] = review[s]
  BY <1>1
<1>4. CASE w.pc \in {"error", "timeout", "discarded"}
  <2>1. job' = [job EXCEPT ![r] = [NoJob EXCEPT !.pc = "failed"]] /\ moved' = moved \ {r}
    BY <1>3, <1>4 DEF raises
  <2>2. job' \in [Runs -> Job] /\ job'[r].pc = "failed" /\ \A s \in Runs \ {r} : job'[s] = job[s]
    BY <1>1, <2>1 DEF Job, NoJob, Locked
  <2>3. GitTypeOK' /\ TypeOK'
    BY <1>1, <1>3, <2>1, <2>2 DEF TypeOK, GitTypeOK, Inv, ReviewInv
  <2>4. HolderHasLock'
    BY <1>2, <2>2 DEF HolderHasLock, Inv, GitInv, Locked
  <2>5. RefsAreOfTheirBranch'
    BY DEF RefsAreOfTheirBranch, Inv, GitInv
  <2>6. EachCommandPreparesTheNext'
    BY <2>2 DEF EachCommandPreparesTheNext, prepared, asked, Inv, GitInv
  <2>7. ReviewFollowsGit'
    BY <1>3, <1>4, <2>2 DEF ReviewFollowsGit, Inv, ReviewInv, Locked
  <2>8. \A s \in Runs : sound(s, review[s])'
    BY <1>3, <1>4, <2>1, <2>2 DEF sound, rounds_before, Inv, ReviewInv
  <2> QED BY <2>3, <2>4, <2>5, <2>6, <2>7, <2>8 DEF Inv, GitInv, ReviewInv
<1>5. CASE w.pc \in {"attempt", "repair", "passed", "rejected", "hung"}
  <2>1. /\ job' = job /\ moved' \subseteq moved /\ moved \ {r} \subseteq moved'
        /\ w.pc # "hung" => moved' = moved
    BY <1>3, <1>5
  <2>2. GitInv'
    BY <2>1 DEF Inv, GitInv, GitTypeOK, HolderHasLock, RefsAreOfTheirBranch,
                EachCommandPreparesTheNext, prepared, asked
  <2>3. TypeOK'
    BY <1>1, <1>3, <2>1, <2>2 DEF TypeOK, GitInv
  <2>4. ReviewFollowsGit'
    BY <1>2, <1>3, <1>5, <2>1 DEF ReviewFollowsGit, Inv, ReviewInv, Locked
  <2>5. \A s \in Runs : sound(s, review[s])'
    <3>1. \A s \in Runs \ {r} : sound(s, review[s])'
      BY <1>3, <2>1 DEF sound, rounds_before, Inv, ReviewInv
    <3>2. CASE w.pc = "hung"
      BY <1>3, <2>1, <3>1, <3>2 DEF sound
    <3>3. CASE w.pc # "hung"
      BY <1>3, <2>1, <3>1, <3>3 DEF sound, rounds_before
    <3> QED BY <3>2, <3>3
  <2> QED BY <2>2, <2>3, <2>4, <2>5 DEF Inv, ReviewInv
<1> QED BY <1>4, <1>5 DEF Review, Ends

(* A record of the locals stays one when one of them is assigned.          *)
LEMMA Assigned ==
  ASSUME NEW v \in Review
  PROVE  /\ \A n \in Nat : [v EXCEPT !.attempt = n] \in Review
         /\ \A n \in Nat : [v EXCEPT !.total = n] \in Review
         /\ \A n \in Nat : [v EXCEPT !.repairs = n] \in Review
         /\ \A n \in Nat : [v EXCEPT !.rounds = n] \in Review
         /\ \A b \in BOOLEAN : [v EXCEPT !.retried = b] \in Review
         /\ \A b \in BOOLEAN : [v EXCEPT !.announces = b] \in Review
         /\ \A b \in BOOLEAN : [v EXCEPT !.own = b] \in Review
         /\ \A b \in BOOLEAN : [v EXCEPT !.failed = b] \in Review
         /\ \A pc \in {"attempt", "repair"} : [v EXCEPT !.pc = pc] \in Review
         /\ \A s \in {"empty", "minor", "blocking"} : [v EXCEPT !.report = s] \in Review
BY DEF Review, Ends

(* The end of the analysis leaves nothing of the locals but the history.   *)
LEMMA Raised ==
  ASSUME NEW v \in Review, NEW end \in Ends \cup {"hung"}
  PROVE  /\ leaves(v, end) \in Review
         /\ leaves(v, end).pc = end /\ leaves(v, end).failed = v.failed
<1>1. v.silent \in BOOLEAN /\ v.failed \in BOOLEAN
  BY DEF Review
<1>2. NewReview \in Review
  BY RunnerAssumption DEF NewReview, Review, Ends
<1>3. leaves(v, end) \in Review
  BY <1>1, <1>2 DEF leaves, Review, Ends
<1>4. leaves(v, end).pc = end /\ leaves(v, end).failed = v.failed
  BY DEF leaves, NewReview
<1> QED BY <1>3, <1>4

(* A run that ends without a verdict has nothing left to answer for.       *)
LEMMA RaisedIsSound ==
  ASSUME NEW r \in Runs, NEW v \in Review, NEW end \in {"error", "timeout", "discarded", "hung"},
         v.failed => end = "error"
  PROVE  /\ leaves(v, end) \in Review /\ leaves(v, end).pc = end
         /\ sound(r, leaves(v, end))
<1>1. /\ leaves(v, end) \in Review /\ leaves(v, end).pc = end
      /\ leaves(v, end).failed = v.failed
  BY Raised DEF Ends
<1> HIDE DEF leaves
<1> QED BY <1>1 DEF sound

(* What comes of a parsed answer: another attempt, or a verdict, which     *)
(* goes against a blocking finding only for a moved run or an empty diff,  *)
(* and for silence only after a second round.                              *)
LEMMA ConclusionIsSound ==
  ASSUME NEW r \in Runs, NEW v \in Review, NEW w \in concluded(r, v),
         ~v.failed, v.own \/ r \in moved,
         v.pc \in {"attempt", "repair"},
         v.own => dir.head = job[r].commit \/ r \in moved,
         v.pc = "attempt" <=> v.repairs = 0,
         v.rounds >= rounds_before(v)
  PROVE  w \in Review /\ w.pc # "idle" /\ sound(r, w)
<1>1. /\ v.rounds \in Nat /\ v.repairs \in Nat /\ v.retried \in BOOLEAN
      /\ v.own \in BOOLEAN /\ v.announces \in BOOLEAN /\ v.failed = FALSE
      /\ v.report \in {"empty", "minor", "blocking"}
  BY DEF Review
<1>2. CASE _is_suspicious_empty_repair_result(v) /\ ~v.retried
  <2>1. w = asked_again(v)
    BY <1>2 DEF concluded
  <2>2. asked_again(v) \in Review
    <3> DEFINE a == [v EXCEPT !.retried = TRUE]
               b == [a EXCEPT !.total = v.total + 1]
               c == [b EXCEPT !.attempt = v.attempt + 1]
               d == [c EXCEPT !.repairs = 0]
               e == [d EXCEPT !.pc = "attempt"]
               f == [e EXCEPT !.own = TRUE]
    <3>1. v.total + 1 \in Nat /\ v.attempt + 1 \in Nat
      BY DEF Review
    <3>2. asked_again(v) = [f EXCEPT !.announces = FALSE]
      BY DEF asked_again, Review
    <3>3. a \in Review
      BY Assigned
    <3> HIDE DEF a
    <3>4. b \in Review
      BY <3>1, <3>3, Assigned
    <3> HIDE DEF b
    <3>5. c \in Review
      BY <3>1, <3>4, Assigned
    <3> HIDE DEF c
    <3>6. d \in Review
      BY <3>5, Assigned
    <3> HIDE DEF d
    <3>7. e \in Review
      BY <3>6, Assigned
    <3> HIDE DEF e
    <3>8. f \in Review
      BY <3>7, Assigned
    <3> HIDE DEF f
    <3> QED BY <3>2, <3>8, Assigned
  <2>3. /\ asked_again(v).pc = "attempt"
        /\ asked_again(v).repairs = 0 /\ asked_again(v).retried = TRUE
        /\ asked_again(v).own = TRUE /\ asked_again(v).failed = v.failed
        /\ asked_again(v).rounds = v.rounds
    BY DEF asked_again, Review
  <2>4. v.rounds >= 1
    BY <1>1, <1>2 DEF _is_suspicious_empty_repair_result, rounds_before
  <2> QED BY <1>1, <2>1, <2>2, <2>4, <2>3 DEF sound, rounds_before
<1>3. CASE ~(_is_suspicious_empty_repair_result(v) /\ ~v.retried)
  <2>1. PICK verdict \in _normalize_result(r, v) : w = returned(v, verdict)
    BY <1>3 DEF concluded
  <2>2. verdict \in {"passed", "rejected"}
    BY DEF _normalize_result
  <2> DEFINE silent == v.repairs > 0 /\ v.report = "empty" /\ v.announces
  <2>3. silent \in BOOLEAN
    OBVIOUS
  <2>4. w = [leaves(v, verdict) EXCEPT !.report = v.report, !.silent = silent,
                                       !.rounds = IF silent THEN v.rounds ELSE 0]
    BY <2>1 DEF returned
  <2>5. silent => v.rounds >= 2
    BY <1>1, <1>3 DEF _is_suspicious_empty_repair_result, rounds_before
  <2>6. verdict = "passed" /\ v.report = "blocking" => job[r].diff = "none" \/ r \in moved
    <3>1. CASE v.own
      BY <3>1 DEF _normalize_result
    <3>2. CASE ~v.own
      BY <3>2
    <3> QED BY <3>1, <3>2
  <2> HIDE DEF silent
  <2>7. /\ leaves(v, verdict) \in Review /\ leaves(v, verdict).pc = verdict
        /\ leaves(v, verdict).failed = v.failed
    BY <2>2, Raised DEF Ends
  <2> HIDE DEF leaves
  <2>8. /\ w \in Review /\ w.pc = verdict /\ w.failed = FALSE
        /\ w.report = v.report /\ w.silent = silent
        /\ silent => w.rounds = v.rounds
    BY <1>1, <2>3, <2>4, <2>7 DEF Review
  <2> QED BY <2>2, <2>5, <2>6, <2>8 DEF sound
<1> QED BY <1>2, <1>3

(* What the model answers keeps the invariant.                             *)
LEMMA AnswerIsSound ==
  ASSUME Inv, NEW r \in Runs, reviewing(r), PromptAnswers(r)
  PROVE  \E w \in Review : /\ review' = [review EXCEPT ![r] = w]
                           /\ w.pc # "idle" /\ sound(r, w)
<1> DEFINE old == review[r]
           first == old.pc = "attempt"
<1>1. PICK reply \in Replies :
        \E next \in _parse_with_repair_loop(r, answered(r, reply), reply.answer) :
          review' = [review EXCEPT ![r] = next]
  BY DEF PromptAnswers
<1> DEFINE v == answered(r, reply)
           answer == reply.answer
           report == reply.report
<1>2. PICK w \in _parse_with_repair_loop(r, v, answer) : review' = [review EXCEPT ![r] = w]
  BY <1>1
<1>0. answer \in Answers /\ report \in {"empty", "minor", "blocking"} /\ reply.announces \in BOOLEAN
  BY DEF Replies
<1> HIDE DEF answer, report
<1>3. old \in Review /\ old.pc \in {"attempt", "repair"} /\ sound(r, old)
  BY DEF Inv, ReviewInv, TypeOK, reviewing
<1>4. /\ answer.parsed \in Parsed /\ answer.error \in BOOLEAN
      /\ answer.error => answer.parsed = "unrepairable"
  BY <1>0, ErrorsAreFinal
<1>5. /\ ~old.failed /\ old.failed \in BOOLEAN /\ old.rounds \in Nat /\ old.repairs \in Nat
      /\ old.own \in BOOLEAN /\ old.retried \in BOOLEAN /\ old.announces \in BOOLEAN
      /\ r \in moved \/ (old.own /\ dir.head = job[r].commit)
      /\ first <=> old.repairs = 0
      /\ old.rounds >= rounds_before(old)
  BY <1>3 DEF Review, sound
<1> DEFINE own == IF first THEN dir.head = job[r].commit ELSE old.own
           failed == old.failed \/ answer.error
<1>6. /\ own \in BOOLEAN /\ (own \/ r \in moved) /\ (own => dir.head = job[r].commit \/ r \in moved)
      /\ failed \in BOOLEAN /\ (failed => answer.parsed = "unrepairable")
  BY <1>4, <1>5
<1>7. v = [old EXCEPT !.announces = IF first THEN reply.announces ELSE old.announces,
                      !.report = report, !.own = own, !.failed = failed]
  BY DEF answered, answer, report
<1> DEFINE said == IF first THEN reply.announces ELSE old.announces
           a == [old EXCEPT !.announces = said]
           b == [a EXCEPT !.report = report]
           c == [b EXCEPT !.own = own]
<1>8. said \in BOOLEAN
  BY <1>0, <1>5
<1> HIDE DEF own, failed, v, first, said
<1>9. v = [c EXCEPT !.failed = failed]
  BY <1>3, <1>7 DEF Review, said
<1>10. v \in Review
  <2>1. a \in Review
    BY <1>3, <1>8, Assigned
  <2> HIDE DEF a
  <2>2. b \in Review
    BY <1>0, <2>1, Assigned
  <2> HIDE DEF b
  <2>3. c \in Review
    BY <1>6, <2>2, Assigned
  <2> HIDE DEF c
  <2> QED BY <1>6, <1>9, <2>3, Assigned
<1>11. /\ v.pc = old.pc /\ v.own = own /\ v.failed = failed
       /\ v.repairs = old.repairs /\ v.retried = old.retried /\ v.rounds = old.rounds
       /\ old.pc = "repair" => v.announces = old.announces
  BY <1>3, <1>7 DEF Review, said, first
<1>12. v.rounds >= rounds_before(v) /\ (v.pc = "attempt" <=> v.repairs = 0)
  BY <1>3, <1>5, <1>11 DEF rounds_before, first
<1>13. CASE answer.parsed = "result"
  <2>1. w \in concluded(r, v)
    BY <1>13 DEF _parse_with_repair_loop
  <2>2. ~failed
    BY <1>6, <1>13
  <2> QED BY <1>2, <1>3, <1>6, <1>11, <1>12, <1>10, <2>1, <2>2, ConclusionIsSound
<1>14. CASE answer.parsed = "repairable" /\ v.repairs < FormatRetryTimes
  <2> DEFINE counted == IF v.pc = "attempt" /\ v.announces THEN v.rounds + 1 ELSE v.rounds
  <2>0. v.rounds \in Nat /\ v.repairs \in Nat /\ counted \in Nat
    BY <1>10 DEF Review
  <2>1. w = [v EXCEPT !.repairs = @ + 1, !.pc = "repair", !.rounds = counted]
    BY <1>10, <1>14 DEF _parse_with_repair_loop
  <2>2. ~failed
    BY <1>6, <1>14
  <2>3. /\ w.pc = "repair" /\ w.repairs = v.repairs + 1 /\ w.own = own
        /\ w.failed = failed /\ w.retried = v.retried /\ w.rounds = counted
        /\ w.announces = v.announces
    BY <1>11, <1>10, <2>1 DEF Review
  <2>4. w \in Review
    <3> DEFINE e == [v EXCEPT !.repairs = v.repairs + 1]
           f == [e EXCEPT !.pc = "repair"]
    <3>1. v.repairs + 1 \in Nat /\ w = [f EXCEPT !.rounds = counted]
      BY <1>10, <2>1 DEF Review
    <3>2. e \in Review
      BY <1>10, <3>1, Assigned
    <3> HIDE DEF e
    <3>3. f \in Review
      BY <3>2, Assigned
    <3> HIDE DEF f, counted
    <3> QED BY <2>0, <3>1, <3>3, Assigned
  <2>5. own => r \in moved \/ dir.head = job[r].commit
    BY <1>6
  <2>6. w.repairs # 0 /\ w.rounds >= rounds_before(w)
    BY <1>3, <1>11, <1>12, <2>0, <2>3 DEF rounds_before
  <2> QED BY <1>2, <1>6, <2>2, <2>3, <2>5, <2>6, <2>4 DEF sound
<1>15. CASE /\ answer.parsed # "result"
            /\ ~(answer.parsed = "repairable" /\ v.repairs < FormatRetryTimes)
  <2>1. w = leaves(v, "error")
    BY <1>15 DEF _parse_with_repair_loop
  <2>2. w \in Review /\ w.pc = "error" /\ sound(r, w)
    BY <1>10, <2>1, RaisedIsSound
  <2> QED BY <1>2, <2>2
<1> QED BY <1>13, <1>14, <1>15

(* A failure of the process, its timeout, a cancel or a process that never *)
(* ends keeps the invariant.                                               *)
LEMMA FailureIsSound ==
  ASSUME Inv, NEW r \in Runs, reviewing(r),
         PromptTimeout(r) \/ PromptHangs(r) \/ PromptFails(r) \/ killed(r, "discarded")
  PROVE  \E w \in Review : /\ review' = [review EXCEPT ![r] = w]
                           /\ w.pc # "idle" /\ sound(r, w)
<1> DEFINE old == review[r]
<1>1. old \in Review /\ old.pc \in {"attempt", "repair"} /\ sound(r, old)
  BY DEF Inv, ReviewInv, TypeOK, reviewing
<1>2. ~old.failed
  BY <1>1 DEF sound
<1>3. ASSUME NEW v \in Review, NEW end \in {"error", "timeout", "discarded", "hung"},
             v.failed => end = "error", review' = [review EXCEPT ![r] = leaves(v, end)]
      PROVE  \E w \in Review : /\ review' = [review EXCEPT ![r] = w]
                               /\ w.pc # "idle" /\ sound(r, w)
  <2> DEFINE w == leaves(v, end)
  <2>1. w \in Review /\ w.pc = end /\ sound(r, w)
    BY <1>3, RaisedIsSound
  <2>2. review' = [review EXCEPT ![r] = w]
    BY <1>3
  <2> HIDE DEF w
  <2> QED BY <1>3, <2>1, <2>2
<1>4. CASE PromptTimeout(r) \/ PromptHangs(r) \/ killed(r, "discarded")
  <2>1. PICK end \in {"timeout", "discarded", "hung"} :
          review' = [review EXCEPT ![r] = leaves(NewReview, end)]
    BY <1>4 DEF PromptTimeout, PromptHangs, killed
  <2>2. NewReview \in Review /\ ~NewReview.failed
    BY RunnerAssumption DEF NewReview, Review, Ends
  <2> QED BY <1>3, <2>1, <2>2
<1>5. CASE PromptFails(r)
  <2> DEFINE w == [old EXCEPT !.attempt = old.attempt + 1]
  <2>1. CASE review' = [review EXCEPT ![r].attempt = old.attempt + 1]
    <3>1. review' = [review EXCEPT ![r] = w]
      BY <2>1
    <3>2. w \in Review
      BY <1>1, Assigned DEF Review
    <3>3. /\ w.pc = old.pc /\ w.own = old.own /\ w.failed = old.failed
          /\ w.repairs = old.repairs /\ w.retried = old.retried /\ w.rounds = old.rounds
          /\ w.announces = old.announces
      BY <1>1 DEF Review
    <3> HIDE DEF w
    <3>4. sound(r, w)
      BY <1>1, <1>2, <3>3 DEF sound, rounds_before
    <3> QED BY <1>1, <3>1, <3>2, <3>3, <3>4
  <2>2. CASE review' = [review EXCEPT ![r] = leaves(old, "error")]
    BY <1>1, <1>3, <2>2
  <2>3. CASE \E reports \in BOOLEAN :
               review' = [review EXCEPT ![r] = leaves([old EXCEPT !.failed = reports], "error")]
    <3>1. PICK reports \in BOOLEAN :
            review' = [review EXCEPT ![r] = leaves([old EXCEPT !.failed = reports], "error")]
      BY <2>3
    <3>2. [old EXCEPT !.failed = reports] \in Review
      BY <1>1, Assigned
    <3> QED BY <1>3, <3>1, <3>2
  <2> QED BY <1>5, <2>1, <2>2, <2>3 DEF PromptFails
<1> QED BY <1>4, <1>5

(* Every step keeps the invariant.                                         *)
LEMMA InvKept == Inv /\ [Next]_vars => Inv'
<1> SUFFICES ASSUME Inv, [Next]_vars PROVE Inv'
  OBVIOUS
<1>1. CASE UNCHANGED vars
  <2> USE <1>1 DEF vars, gitVars
  <2>1. GitInv'
    BY DEF Inv, GitInv, GitTypeOK, HolderHasLock, RefsAreOfTheirBranch,
           EachCommandPreparesTheNext, prepared, asked
  <2>2. ReviewInv'
    BY <2>1 DEF Inv, ReviewInv, GitInv, TypeOK, ReviewFollowsGit, sound, rounds_before
  <2> QED BY <2>1, <2>2 DEF Inv
<1>2. ASSUME NEW r \in Runs, Git(r) \/ GitStep(r, GitCancelled(r)) PROVE Inv'
  BY <1>2, GitKeepsInv
<1>3. ASSUME NEW r \in Runs,
             \/ Prompt(r)
             \/ PromptStep(r, killed(r, "discarded"))
      PROVE  Inv'
  <2>1. /\ reviewing(r)
        /\ token' = token /\ request' = request /\ dir' = dir /\ lock' = lock
        /\ IF review'[r].pc \in {"error", "timeout", "discarded"}
           THEN raises(r, "failed") ELSE UNCHANGED job
        /\ moved' = IF review'[r].pc \in {"error", "timeout", "discarded", "hung"}
                    THEN moved \ {r} ELSE moved
    BY <1>3 DEF Prompt, PromptStep
  <2>2. \/ PromptTimeout(r) \/ PromptHangs(r) \/ PromptFails(r) \/ PromptAnswers(r)
        \/ killed(r, "discarded")
    BY <1>3 DEF Prompt, PromptStep
  <2>3. PICK w \in Review : /\ review' = [review EXCEPT ![r] = w]
                            /\ w.pc # "idle" /\ sound(r, w)
    BY <2>1, <2>2, AnswerIsSound, FailureIsSound
  <2> QED BY <2>1, <2>3, PromptKeepsOthers
<1> QED BY <1>1, <1>2, <1>3 DEF Next, Run, Cancel

(* The inductive invariant holds in every reachable state.                 *)
LEMMA InvCorrect == Spec => []Inv
BY InvStarts, InvKept, PTL DEF Spec

-----------------------------------------------------------------------------
(* The theorems.                                                           *)

(* Every variable holds a value of its kind.                               *)
THEOREM TypeCorrect == Spec => []TypeOK
<1>1. Inv => TypeOK
  BY DEF Inv, ReviewInv
<1> QED BY <1>1, InvCorrect, PTL

(* However many runs share the directory, in whatever order they use it    *)
(* and however their git commands fail or are cancelled, the diff a run    *)
(* reviews is that of the commit it reports, and the commit is of the      *)
(* branch, and with a token of the repository, that was asked for.         *)
THEOREM ContextCorrect == Spec => []ContextIsOfItsCommit
<1>1. Inv => ContextIsOfItsCommit
  BY DEF Inv, GitInv, EachCommandPreparesTheNext, prepared, asked, ContextIsOfItsCommit
<1> QED BY <1>1, InvCorrect, PTL

(* A run passes against a blocking finding only with an empty diff, or if  *)
(* another run switched the directory while the model read it.             *)
THEOREM OverruledCorrect == Spec => []OverruledOnlyByTheDiff
<1>1. Inv => OverruledOnlyByTheDiff
  BY DEF Inv, ReviewInv, sound, OverruledOnlyByTheDiff
<1> QED BY <1>1, InvCorrect, PTL

(* An error event that is the answer of a process, or a line of it, ends   *)
(* the run in the same step, whatever else the output and the database     *)
(* hold and however many repairs and attempts are left; a failed repair    *)
(* that reports an error does too.  It says nothing of a failed attempt.   *)
THEOREM ErrorsCorrect == Spec => []ErrorsGiveNoVerdict
<1>1. Inv => ErrorsGiveNoVerdict
  BY DEF Inv, ReviewInv, sound, ErrorsGiveNoVerdict
<1> QED BY <1>1, InvCorrect, PTL

(* For every number of retries and repairs, and however many attempts fail *)
(* in between, a repaired empty result of an announcement passes only if   *)
(* two attempts were answered with one and each was given to a repair.     *)
THEOREM SilenceCorrect == Spec => []SilenceIsAskedTwice
<1>1. Inv => SilenceIsAskedTwice
  BY DEF Inv, ReviewInv, sound, SilenceIsAskedTwice
<1> QED BY <1>1, InvCorrect, PTL
=============================================================================
