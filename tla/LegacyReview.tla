---------------------------- MODULE LegacyReview ----------------------------
(***************************************************************************)
(* One run of a legacy review, from the checkout to its verdict: the git   *)
(* part (GitCheckout), then OpencodeRunner.analyze with its attempts,      *)
(* repairs and one more attempt for a suspicious empty answer, then        *)
(* TaskService._normalize_result.  Several runs share the directory: while *)
(* the model of one reads it, another may switch it to its own commit.     *)
(*                                                                         *)
(* What a run ends with ("timeout", "error", a verdict) is what            *)
(* LegacyService takes a step on.  An attempt reads the files once, when   *)
(* it answers; a repair gets the earlier answer only.                      *)
(***************************************************************************)
EXTENDS GitCheckout, OpencodeOutput

CONSTANTS RetryTimes,        \* Settings.llm_retry_times
          FormatRetryTimes   \* Settings.llm_format_retry_times

ASSUME RunnerAssumption == RetryTimes \in Nat /\ FormatRetryTimes \in Nat

VARIABLES
  review,   \* the local variables of analyze, for each run
  moved     \* history: runs whose directory another run switched under them

vars == <<gitVars, review, moved>>

Ends == {"passed", "rejected", "error", "timeout", "discarded"}

\* announces: the attempt's output only said what the model was going to do.
\* report: whether the answer holds a fatal or high finding in a changed,
\* non-test file of the commit that was read.
Review == [pc: {"idle", "attempt", "repair", "hung"} \cup Ends,
           attempt: Nat, total: Nat, retried: BOOLEAN, announces: BOOLEAN,
           repairs: Nat, report: {"empty", "minor", "blocking"},
           own: BOOLEAN,     \* the attempt read the commit of its run
           silent: BOOLEAN,  \* history: an announcement became the result
           rounds: Nat,      \* history: the attempts that only announced a
                             \* review and were given to a repair
           failed: BOOLEAN]  \* history: an answer was an error event or held
                             \* one among its events, or a failed repair did

NewReview == [pc |-> "idle", attempt |-> 0, total |-> RetryTimes + 1,
              retried |-> FALSE, announces |-> FALSE, repairs |-> 0,
              report |-> "empty", own |-> TRUE,
              silent |-> FALSE, rounds |-> 0, failed |-> FALSE]

Init ==
  /\ GitInit
  /\ review = [r \in Runs |-> NewReview]
  /\ moved = {}

reviewing(r) == review[r].pc \in {"attempt", "repair"}
ended(r) == review[r].pc \in Ends

-----------------------------------------------------------------------------
\* The git part; a run whose git command fails or is cancelled ends with it.
GitStep(r, step) ==
  /\ step
  /\ review' = [review EXCEPT ![r].pc =
                  CASE job'[r].pc = "ready" -> "attempt"
                    [] job'[r].pc = "failed" -> "error"
                    [] job'[r].pc = "cancelled" -> "discarded"
                    [] OTHER -> @]
  /\ moved' = moved \cup
       {s \in Runs : reviewing(s) /\ dir'.head # job[s].commit}

Git(r) == GitStep(r, GitCommand(r))

-----------------------------------------------------------------------------
(* The opencode processes of a run.                                        *)

\* analyze is left, or waits for ever; the locals go, but for the history.
leaves(v, end) == [NewReview EXCEPT !.pc = end, !.failed = v.failed]

\* A step of a run that waits for a process.
PromptStep(r, step) ==
  /\ reviewing(r)
  /\ step
  /\ IF review'[r].pc \in {"error", "timeout", "discarded"}
     THEN raises(r, "failed") ELSE UNCHANGED job
  /\ moved' = IF review'[r].pc \in {"error", "timeout", "discarded", "hung"}
              THEN moved \ {r} ELSE moved
  /\ UNCHANGED <<token, request, dir, lock>>

\* A signal reaches the shell only, and communicate() after it has no limit:
\* if what the shell started keeps the pipes open, the run waits for it with
\* no eye on cancellation or timeout.
killed(r, end) ==
  \E pc \in {end, "hung"} : review' = [review EXCEPT ![r] = leaves(NewReview, pc)]

\* The admin cancels the run while a command or a prompt is waited for.  The
\* service drops what a cancelled run raises, and its result too.
Cancel(r) == GitStep(r, GitCancelled(r)) \/ PromptStep(r, killed(r, "discarded"))

\* task_timeout_seconds; nobody reads the pipe of the process, so that an
\* answer larger than the pipe ends here too.  No further attempt is made.
PromptTimeout(r) == killed(r, "timeout")

\* The shell has ended by itself, and something it started has not.
PromptHangs(r) == review' = [review EXCEPT ![r] = leaves(NewReview, "hung")]

\* A non-zero return code costs an attempt, that of a repair ends the run.  Its
\* output is not looked at: an attempt that reports an error with it is made
\* again like any other.
PromptFails(r) ==
  LET v == review[r]  tries == v.attempt + 1 IN
  \/ /\ v.pc = "attempt" /\ tries < v.total
     /\ review' = [review EXCEPT ![r].attempt = tries]
  \/ /\ v.pc = "attempt" /\ tries >= v.total
     /\ review' = [review EXCEPT ![r] = leaves(v, "error")]
  \/ /\ v.pc = "repair"
     /\ \E reports \in BOOLEAN :
          review' = [review EXCEPT ![r] = leaves([v EXCEPT !.failed = reports], "error")]

-----------------------------------------------------------------------------
(* An answer: parse, repair, retry, verdict.                               *)

_is_suspicious_after_the_last_repair(v) ==
  v.repairs > FormatRetryTimes /\ v.report = "empty" /\ v.announces

\* A repaired empty result of an output that was only an announcement.
_is_suspicious_empty_repair_result(v) ==
  v.repairs > 0 /\ v.report = "empty" /\ v.announces

_normalize_result_of_a_diff(r, v) ==
  IF v.report = "blocking" /\ job[r].diff = "files"
  THEN {"passed", "rejected"} ELSE {"passed"}

\* Only findings in the non-test files of the run's own diff count: all of
\* them when the model read the run's commit, some or none when it did not.
_normalize_result(r, v) ==
  IF v.report # "blocking" \/ job[r].diff = "none" THEN {"passed"}
  ELSE IF v.own THEN {"rejected"} ELSE {"passed", "rejected"}

returned(v, verdict) ==
  LET silent == v.repairs > 0 /\ v.report = "empty" /\ v.announces IN
  [leaves(v, verdict) EXCEPT !.report = v.report, !.silent = silent,
                             !.rounds = IF silent THEN v.rounds ELSE 0]

\* What the earlier attempt read and said is forgotten.
asked_again(v) ==
  [v EXCEPT !.retried = TRUE, !.total = @ + 1, !.attempt = @ + 1,
            !.repairs = 0, !.pc = "attempt", !.own = TRUE, !.announces = FALSE]

\* The part of analyze and _run_task after a parse.
concluded(r, v) ==
  IF _is_suspicious_empty_repair_result(v) /\ ~v.retried THEN {asked_again(v)}
  ELSE {returned(v, verdict) : verdict \in _normalize_result(r, v)}

\* _parse_with_repair_loop, from one answer to the next.
_parse_with_repair_loop(r, v, answer) ==
  CASE answer.parsed = "result" -> concluded(r, v)
    [] answer.parsed = "repairable" /\ v.repairs < FormatRetryTimes ->
         {[v EXCEPT !.repairs = @ + 1, !.pc = "repair",
                    !.rounds = IF v.pc = "attempt" /\ v.announces THEN @ + 1 ELSE @]}
    [] OTHER -> {leaves(v, "error")}

\* The locals once an answer is there; only an attempt reads the files.
answered(r, reply) ==
  LET v == review[r]
      first == v.pc = "attempt"
  IN [v EXCEPT !.announces = IF first THEN reply.announces ELSE v.announces,
               !.report = reply.report,
               !.own = IF first THEN dir.head = job[r].commit ELSE v.own,
               !.failed = v.failed \/ reply.answer.error]

\* A text to repair holds no findings, and only it can be an announcement.
Replies == {reply \in [answer: Answers, report: {"empty", "minor", "blocking"},
                      announces: BOOLEAN] :
              /\ reply.answer.parsed = "result" \/ reply.report = "empty"
              /\ reply.answer.parsed = "repairable" \/ ~reply.announces}

PromptAnswers(r) ==
  \E reply \in Replies :
    \E next \in _parse_with_repair_loop(r, answered(r, reply), reply.answer) :
      review' = [review EXCEPT ![r] = next]

-----------------------------------------------------------------------------
Prompt(r) ==
  PromptStep(r, PromptTimeout(r) \/ PromptHangs(r) \/ PromptFails(r) \/ PromptAnswers(r))
Run(r) == Git(r) \/ Prompt(r)

Next == \E r \in Runs : Run(r) \/ Cancel(r)

Spec == Init /\ [][Next]_vars

(* A worker goes on with its run.  Neither a git command nor a prompt is    *)
(* sure to end: the one that never does is a step into "hung", of the job   *)
(* or of the review.  The lock is not fair, but each run takes it once.     *)
FairSpec == Spec /\ \A r \in Runs : WF_vars(Run(r))

-----------------------------------------------------------------------------
(* Properties.                                                             *)

(* Every variable holds a value of its kind.                               *)
TypeOK ==
  /\ GitTypeOK
  /\ review \in [Runs -> Review]
  /\ moved \subseteq Runs

(* The diff a run reviews is that of the commit it reports, whoever else   *)
(* uses the directory; with an access token the commit is one of the       *)
(* request's repository, even if another of the same name was cloned.      *)
ContextIsOfItsCommit ==
  \A r \in Runs : job[r].pc = "ready" =>
    /\ job[r].context = job[r].commit
    /\ job[r].commit.branch = request[r].branch
    /\ token \/ request[r].named => job[r].commit.url = request[r].url

(* A run passes against a blocking finding only if its diff range had no   *)
(* files, or another run switched the directory while the model read it.   *)
OverruledOnlyByTheDiff ==
  \A r \in Runs : review[r].pc = "passed" /\ review[r].report = "blocking"
    => job[r].diff = "none" \/ r \in moved

(* An answer that is an error event, or has one on a line of its own, ends *)
(* the run without a verdict, whatever else it holds: it is not repaired   *)
(* and no further attempt is made; nor is one after a repair that failed   *)
(* and reported an error.  An error in the output of a failed attempt, or  *)
(* inside an array or other text, is not looked for: the next attempt or   *)
(* the repair may give a verdict.                                          *)
ErrorsGiveNoVerdict ==
  \A r \in Runs : review[r].failed => review[r].pc = "error"

(* A repaired empty result of a mere announcement passes only if two       *)
(* attempts were answered, each with an announcement that was repaired; an *)
(* attempt that failed counts for neither, whatever the retry settings.    *)
SilenceIsAskedTwice ==
  \A r \in Runs : review[r].pc = "passed" /\ review[r].silent => review[r].rounds >= 2

(* Every run ends, unless its own prompt never does, or a git command: its *)
(* own, or that of the run with the lock it waits for.                     *)
EveryRunEnds ==
  \A r \in Runs : []<>(\/ ended(r) \/ review[r].pc = "hung" \/ job[r].pc = "hung"
                       \/ job[r].pc = "wait" /\ \E s \in Runs : job[s].pc = "hung")
=============================================================================
