---------------------------- MODULE GitCheckout ----------------------------
(***************************************************************************)
(* The repository cache of core/git_client.py as TaskService._run_task     *)
(* uses it: one directory per repository name, a lock per name, and a run  *)
(* that holds the lock while it brings the directory to its commit and     *)
(* collects the diff, and not while the model reviews the files.           *)
(*                                                                         *)
(* All requests here meet in one directory, the case in which runs can     *)
(* disturb each other; their URLs may differ, for only the last part of    *)
(* the path names it.  Any git command may fail; one that prints more than *)
(* its pipe holds never ends, because nobody reads the pipe before it      *)
(* does, and neither does one whose remote stalls: none has a timeout.     *)
(***************************************************************************)
EXTENDS Naturals

CONSTANTS Runs, NoRun,
          Urls, Branches,
          MaxPushes   \* bound on the pushes to each branch

ASSUME CheckoutAssumption ==
  /\ NoRun \notin Runs /\ MaxPushes \in Nat
  /\ "none" \notin Urls \cup Branches   \* it stands for no URL and no branch

VARIABLES
  token,     \* whether Settings.git_access_token is set
  request,   \* what each run is asked to review
  dir,       \* the directory under repo_cache_dir
  lock,      \* the run that holds repo_lock
  job        \* how far the git part of each run is

gitVars == <<token, request, dir, lock, job>>

Commits == [url: Urls, branch: Branches, number: 0..MaxPushes]
NoCommit == [url |-> "none", branch |-> "none", number |-> 0]

Request == [url: Urls, branch: Branches, named: BOOLEAN]

Dir == [exists: BOOLEAN, origin: Urls \cup {"none"},
        tracking: [Branches -> Commits \cup {NoCommit}],   \* origin/<branch>
        objects: SUBSET Commits,
        head: Commits \cup {NoCommit}]

EmptyDir == [exists |-> FALSE, origin |-> "none",
             tracking |-> [b \in Branches |-> NoCommit],
             objects |-> {}, head |-> NoCommit]

\* The steps that hold the lock, in their order, and what comes before and
\* after them.  diff: the non-test files of the diff range, or none.
Locked == {"open", "fetch", "switch", "resolve", "context", "hung"}
Job == [pc: Locked \cup {"wait", "ready", "failed", "cancelled"},
        commit: Commits \cup {NoCommit},   \* what HEAD was resolved to
        context: Commits \cup {NoCommit},  \* what the diff was taken of
        diff: {"files", "none"}]

NoJob == [pc |-> "wait", commit |-> NoCommit, context |-> NoCommit, diff |-> "none"]

\* The branch's commits up to the n-th; pushes only add to those known here.
history(u, b, n) == [url: {u}, branch: {b}, number: 0..n]
tips(u, b) == {c \in history(u, b, MaxPushes) : \A d \in dir.objects :
                 d.url = u /\ d.branch = b => d.number <= c.number}
named(r) == [url |-> request[r].url, branch |-> request[r].branch, number |-> 0]

GitInit ==
  /\ token \in BOOLEAN
  /\ request \in [Runs -> Request]
  /\ dir = EmptyDir
  /\ lock = NoRun
  /\ job = [r \in Runs |-> NoJob]

goes(r, pc) == job' = [job EXCEPT ![r].pc = pc]
raises(r, pc) == job' = [job EXCEPT ![r] = [NoJob EXCEPT !.pc = pc]]

-----------------------------------------------------------------------------
repo_lock_per_url(r) ==
  \A s \in Runs : job[s].pc \in Locked => request[s].url # request[r].url

\* One lock for all repositories of one name.
repo_lock(r) == lock = NoRun

Acquire(r) ==
  /\ job[r].pc = "wait"
  /\ repo_lock(r)
  /\ lock' = r
  /\ goes(r, "open")
  /\ UNCHANGED <<token, request, dir>>

\* A clone checks out the branch and names its origin.
Clone(r) ==
  LET u == request[r].url  b == request[r].branch IN
  /\ job[r].pc = "open" /\ ~dir.exists
  /\ \E tip \in tips(u, b) :
       dir' = [exists |-> TRUE, origin |-> u,
               tracking |-> [EmptyDir.tracking EXCEPT ![b] = tip],
               objects |-> history(u, b, tip.number),
               head |-> tip]
  /\ goes(r, "switch")
  /\ UNCHANGED <<token, request, lock>>

\* Only with an access token is the origin of the directory the request's.
_configure_repo_remote_url(r) ==
  IF token THEN [dir EXCEPT !.origin = request[r].url] ELSE dir

\* The directory exists: its origin is set, then the branch is fetched.
Configure(r) ==
  /\ job[r].pc = "open" /\ dir.exists
  /\ dir' = _configure_repo_remote_url(r)
  /\ goes(r, "fetch")
  /\ UNCHANGED <<token, request, lock>>

_fetch_branch_ref(r) ==
  LET u == dir.origin  b == request[r].branch IN
  /\ job[r].pc = "fetch"
  /\ u # "none"
  /\ \E tip \in tips(u, b) :
       dir' = [dir EXCEPT !.tracking[b] = tip,
                          !.objects = @ \cup history(u, b, tip.number)]
  /\ goes(r, "switch")
  /\ UNCHANGED <<token, request, lock>>

\* switch --detach --force to the named commit or origin/<branch>; clean -fd.
Switch(r) ==
  LET ref == IF request[r].named THEN named(r) ELSE dir.tracking[request[r].branch] IN
  /\ job[r].pc = "switch"
  /\ ref \in dir.objects
  /\ dir' = [dir EXCEPT !.head = ref]
  /\ goes(r, "resolve")
  /\ UNCHANGED <<token, request, lock>>

current_commit(r) ==
  /\ job[r].pc = "resolve"
  /\ job' = [job EXCEPT ![r].pc = "context", ![r].commit = dir.head]
  /\ UNCHANGED <<token, request, dir, lock>>

\* The diff is against a base ref or a few commits back.  It has no files
\* when HEAD is the base, or when a shallow history has no commit before HEAD.
\* The end of this step leaves the lock.
collect_review_context(r) ==
  /\ job[r].pc = "context"
  /\ \E d \in {"files", "none"} :
       job' = [job EXCEPT ![r].pc = "ready", ![r].context = dir.head, ![r].diff = d]
  /\ lock' = NoRun
  /\ UNCHANGED <<token, request, dir>>

-----------------------------------------------------------------------------
(* What ends a git command early.  The lock is left on every way out.      *)

\* A clone that fails or is killed leaves nothing, or a directory without a
\* checkout that later runs take for a clone.
leftover(r) ==
  IF dir.exists \/ job[r].pc \notin {"open", "hung"} THEN {dir}
  ELSE {dir} \cup {[dir EXCEPT !.exists = TRUE, !.origin = u] :
                   u \in {"none", request[r].url}}

GitFails_locked(r) ==
  /\ job[r].pc \in Locked \ {"hung"}
  /\ dir' \in leftover(r)
  /\ raises(r, "failed")
  /\ UNCHANGED <<token, request, lock>>

GitFails(r) ==
  /\ job[r].pc \in Locked \ {"hung"}
  /\ dir' \in leftover(r)
  /\ lock' = NoRun
  /\ raises(r, "failed")
  /\ UNCHANGED <<token, request>>

GitHangs(r) ==
  /\ job[r].pc \in {"open", "fetch", "context"}
  /\ goes(r, "hung")
  /\ UNCHANGED <<token, request, dir, lock>>

\* Every wait for a command looks for the cancellation, after its end.  This
\* is the only way out of a command that hangs.
GitCancelled(r) ==
  /\ job[r].pc \in Locked
  /\ dir' \in leftover(r)
  /\ lock' = NoRun
  /\ raises(r, "cancelled")
  /\ UNCHANGED <<token, request>>

GitCommand(r) ==
  \/ Acquire(r) \/ Clone(r) \/ Configure(r) \/ _fetch_branch_ref(r)
  \/ Switch(r) \/ current_commit(r) \/ collect_review_context(r)
  \/ GitFails(r) \/ GitHangs(r)

-----------------------------------------------------------------------------
GitTypeOK ==
  /\ token \in BOOLEAN
  /\ request \in [Runs -> Request]
  /\ dir \in Dir
  /\ lock \in Runs \cup {NoRun}
  /\ job \in [Runs -> Job]
=============================================================================
