--------------------------- MODULE LegacyFeedback ---------------------------
(***************************************************************************)
(* Feedback on one finished legacy review: the file feedback.json of       *)
(* core/feedback.py with its three lists, the handlers and the background  *)
(* threads of core/service.py that change it, and the record and the       *)
(* callback that follow from it.                                           *)
(*                                                                         *)
(* Nothing locks the file.  Whoever changes a list loads it, changes it in *)
(* memory, perhaps for as long as a model takes to answer, then loads the  *)
(* other two lists and writes all three.  A writer here is at "changed"    *)
(* before it loads the others and at "reloaded" before it writes.          *)
(***************************************************************************)
EXTENDS Naturals, FiniteSets, OpencodeOutput

CONSTANTS
  Findings, Items, Sessions,   \* findings, general feedbacks, fix sessions
  Clients,                     \* concurrent requests to the HTTP API
  Fixers,                      \* Settings.fix_worker_threads
  Reviewer, Listener,          \* the feedback and general feedback threads
  MaxRounds,                   \* Settings.fix_loop_max_rounds
  MaxRequests, MaxCrashes      \* bounds on the requests and the restarts

ASSUME FeedbackAssumption ==
  /\ MaxRounds \in Nat \ {0} /\ MaxRequests \in Nat /\ MaxCrashes \in Nat
  /\ IsFiniteSet(Findings) /\ Findings # {}
  /\ Findings \cap Items = {} /\ Findings \cap Sessions = {} /\ Items \cap Sessions = {}
  /\ Reviewer # Listener /\ {Reviewer, Listener} \cap (Fixers \cup Clients) = {}
  /\ Fixers \cap Clients = {}

VARIABLES
  file,      \* reports/<task_id>/feedback.json
  jobs,      \* entries of the three queues, for each element of a list
  writer,    \* what each request and thread is doing, and what it holds
  status,    \* TaskRecord.status: what the record says of the review
  told,      \* callback_succeeded for the digest of a pass
  heard,     \* the verdict CI heard last (environment)
  requests, crashes,
  lost,      \* history: elements of which a stale write undid a change
  refused,   \* history: elements saved, then turned away by a full queue
  stranded,  \* history: elements that waited for an answer at a restart
  unheard    \* history: a callback of a pass failed

Elements == Findings \cup Items \cup Sessions
Threads == {Reviewer, Listener} \cup Fixers
Writers == Clients \cup Threads

history == <<lost, refused, stranded, unheard>>
vars == <<file, jobs, writer, status, told, heard, requests, crashes, history>>

\* A thread counts as open too when its severity was adjusted; minor: the
\* current severity is neither high nor fatal.  The two stages of a session
\* in which its scope and its plan are confirmed are treated alike.
FindingThread == [status: {"open", "resolved"}, minor: BOOLEAN,
                  processing: BOOLEAN, said: Nat]
Item == [status: {"absent", "waiting", "confirmed", "refused"},
         processing: BOOLEAN, said: Nat]
Stages == {"absent", "confirmation", "fixing",
           "awaiting_user_confirmation", "completed", "failed"}
Session == [status: Stages, round: Nat, processing: BOOLEAN, said: Nat]

File == {g \in [Elements -> FindingThread \cup Item \cup Session] :
           /\ \A f \in Findings : g[f] \in FindingThread
           /\ \A i \in Items : g[i] \in Item
           /\ \A s \in Sessions : g[s] \in Session}

\* The list of the file that e is in.
list(e) == CASE e \in Findings -> Findings [] e \in Items -> Items [] OTHER -> Sessions

NewFile == [e \in Elements |->
  CASE e \in Findings -> [status |-> "open", minor |-> FALSE,
                          processing |-> FALSE, said |-> 0]
    [] e \in Items -> [status |-> "absent", processing |-> FALSE, said |-> 0]
    [] OTHER -> [status |-> "absent", round |-> 0, processing |-> FALSE, said |-> 0]]

Nothing == "nothing"
settled(v) == [v EXCEPT !.processing = FALSE]

\* base: the elements as they were loaded; mine: the changed element; then:
\* what follows the write; tries: the round of the loop in _execute_fix_session.
Pcs == {"idle", "turn", "guide", "execute", "apply", "changed", "reloaded", "refresh"}
Idle == [pc |-> "idle", about |-> Nothing, base |-> NewFile, mine |-> Nothing,
         then |-> "idle", tries |-> 0]

at(w, pc) == writer[w].pc = pc
about(w) == writer[w].about
becomes(w, r) == writer' = [writer EXCEPT ![w] = r]

\* All findings are high or fatal ones.
blocking(g) == {f \in Findings : g[f].status # "resolved" /\ ~g[f].minor}
effective(g) == IF blocking(g) = {} THEN "success" ELSE "failed"

Init ==
  /\ file = NewFile
  /\ jobs = [e \in Elements |-> 0]
  /\ writer = [w \in Writers |-> Idle]
  /\ status = "failed"
  /\ told = FALSE
  /\ heard = "rejected"
  /\ requests = 0 /\ crashes = 0
  /\ lost = {} /\ refused = {} /\ stranded = {}
  /\ unheard = FALSE

-----------------------------------------------------------------------------
(* Load, change, load the others, write.                                   *)

\* w holds a copy of the list of e, with e changed to v.
loaded(w, e, v, pc, then) ==
  becomes(w, [Idle EXCEPT !.pc = pc, !.about = e, !.mine = v, !.then = then,
                          !.base = [d \in Elements |-> IF d \in list(e) THEN file[d] ELSE NewFile[d]]])

\* save_threads, save_general_feedbacks, save_fix_sessions: the other lists.
Reload(w) ==
  /\ at(w, "changed")
  /\ writer' = [writer EXCEPT ![w].pc = "reloaded",
                  ![w].base = [d \in Elements |->
                     IF d \in list(about(w)) THEN writer[w].base[d] ELSE file[d]]]
  /\ UNCHANGED <<file, jobs, status, told, heard, requests, crashes, history>>

\* What a write of w undoes: changes since w loaded what it writes.
undone(w) == {e \in Elements : file[e] # writer[w].base[e]}

_save_feedback_file(w) ==
  /\ file' = [writer[w].base EXCEPT ![about(w)] = writer[w].mine]
  /\ lost' = lost \cup undone(w)

working(e) == {w \in Threads : about(w) = e}

\* A request writes, then puts the job into a queue, which may be full, and
\* answers.  A session that its user closes is not queued.
ClientWrites(c) ==
  LET e == about(c) IN
  /\ c \in Clients /\ at(c, "reloaded")
  /\ _save_feedback_file(c)
  /\ becomes(c, Idle)
  /\ \/ /\ writer[c].then = "put"
        /\ jobs' = [jobs EXCEPT ![e] = @ + 1]
        /\ UNCHANGED refused
     \/ /\ writer[c].then = "put"
        /\ refused' = refused \cup {e}
        /\ UNCHANGED jobs
     \/ /\ writer[c].then = "idle"
        /\ UNCHANGED <<jobs, refused>>
  /\ UNCHANGED <<status, told, heard, requests, crashes,
                 stranded, unheard>>

ThreadWrites(w) ==
  /\ w \in Threads /\ at(w, "reloaded")
  /\ _save_feedback_file(w)
  /\ becomes(w, IF writer[w].then = "idle" THEN Idle
                ELSE [writer[w] EXCEPT !.pc = writer[w].then, !.then = "idle",
                        !.base = [d \in Elements |->
                          IF d \in list(about(w)) THEN file'[d] ELSE NewFile[d]]])
  /\ UNCHANGED <<jobs, status, told, heard, requests, crashes,
                 refused, stranded, unheard>>

-----------------------------------------------------------------------------
(* The requests: load a list and change one element of it.                 *)

Request(c) ==
  /\ c \in Clients /\ at(c, "idle")
  /\ requests < MaxRequests
  /\ requests' = requests + 1
  /\ UNCHANGED <<file, jobs, status, told, heard, crashes, history>>

said(r) == [r EXCEPT !.said = @ + 1, !.processing = TRUE]

submit_finding_feedback(c, f) ==
  /\ Request(c)
  /\ loaded(c, f, said(file[f]), "changed", "put")

submit_general_feedback(c, i) ==
  /\ Request(c)
  /\ file[i].status = "absent" /\ \A d \in Clients : about(d) # i
  /\ loaded(c, i, [said(file[i]) EXCEPT !.status = "waiting"], "changed", "put")

\* Findings a session may still be about.
_normalize_fix_selection == {f \in Findings : file[f].status # "resolved"}

create_fix_session(c, s) ==
  /\ Request(c)
  /\ file[s].status = "absent" /\ \A d \in Clients : about(d) # s
  /\ _normalize_fix_selection # {}
  /\ loaded(c, s, [said(file[s]) EXCEPT !.status = "confirmation"], "changed", "put")

known_session(s) == file[s].status # "absent"
open_session(s) == file[s].status \notin {"absent", "completed"}

\* A message, whether or not the session is being worked on.  One of some
\* phrases closes a session that waits for it.
submit_fix_session_message(c, s) ==
  /\ Request(c)
  /\ open_session(s)
  /\ \/ /\ file[s].status = "awaiting_user_confirmation"
        /\ loaded(c, s, [file[s] EXCEPT !.said = @ + 1, !.status = "completed",
                                        !.processing = FALSE], "changed", "idle")
     \/ loaded(c, s, [said(file[s]) EXCEPT !.status =
                        IF @ \in {"awaiting_user_confirmation", "completed", "failed"}
                        THEN "confirmation" ELSE @], "changed", "put")

-----------------------------------------------------------------------------
(* The threads take a job and load its list.                               *)

Take(w, e, pc) ==
  /\ at(w, "idle")
  /\ jobs[e] > 0
  /\ jobs' = [jobs EXCEPT ![e] = @ - 1]
  /\ IF file[e].status = "absent" THEN UNCHANGED writer
     ELSE loaded(w, e, IF pc = "changed" THEN settled(file[e]) ELSE file[e], pc, "idle")
  /\ UNCHANGED <<file, status, told, heard, requests, crashes, history>>

\* Where the job of a session begins, by its stage; in any other stage it
\* only ends the processing.
begin(g) == CASE g.status = "confirmation" -> "guide"
              [] g.status = "fixing" -> "execute"
              [] OTHER -> "changed"

TakeJob(w) ==
  \/ w = Reviewer /\ \E f \in Findings : Take(w, f, "turn")
  \/ w = Listener /\ \E i \in Items : Take(w, i, "turn")
  \/ w \in Fixers /\ \E x \in Sessions : Take(w, x, begin(file[x]))

\* The thread changes its element in memory and goes on to pc.
works(w, v, pc, then) ==
  /\ writer' = [writer EXCEPT ![w].mine = v, ![w].pc = pc, ![w].then = then]
  /\ UNCHANGED <<file, jobs, status, told, heard, requests, crashes, history>>

\* The checkout or the model failed: the thread keeps its status.
_process_feedback_job ==
  /\ at(Reviewer, "turn")
  /\ LET v == settled(writer[Reviewer].mine) IN
     \E answer \in FeedbackAnswers :
       \/ answer = "error" /\ works(Reviewer, v, "changed", "refresh")
       \/ /\ answer = "answer"
          /\ \/ works(Reviewer, [v EXCEPT !.status = "open"], "changed", "refresh")
             \/ works(Reviewer, [v EXCEPT !.status = "resolved"], "changed", "refresh")
             \/ \E minor \in BOOLEAN :
                  works(Reviewer, [v EXCEPT !.status = "open", !.minor = minor],
                        "changed", "refresh")

_process_general_feedback_job ==
  /\ at(Listener, "turn")
  /\ \E verdict \in {"confirmed", "refused"} :
       works(Listener, [settled(writer[Listener].mine) EXCEPT !.status = verdict],
             "changed", "idle")

-----------------------------------------------------------------------------
(* The fix threads.                                                        *)

fails_without_an_answer(x) ==
  works(x, [writer[x].mine EXCEPT !.status = "failed"], "changed", "idle")

fails(x) == works(x, [settled(writer[x].mine) EXCEPT !.status = "failed"], "changed", "idle")

\* The conversation that leads to the fix; once it does, that is saved first.
_process_fix_job(x) ==
  /\ at(x, "guide")
  /\ LET v == writer[x].mine IN
     \E answer \in FeedbackAnswers :
       \/ answer = "error" /\ fails(x)
       \/ /\ answer = "answer"
          /\ \/ works(x, [v EXCEPT !.status = "fixing"], "changed", "execute")
             \/ works(x, settled(v), "changed", "idle")

next_round(round) == round + 1

\* A new round in a new workspace, named after the session and the round; git
\* may fail there, or no finding may be left to fix.
_execute_fix_session(x) ==
  LET v == [writer[x].mine EXCEPT !.processing = TRUE, !.status = "fixing",
                                  !.round = next_round(@)]
  IN
  /\ at(x, "execute")
  /\ \/ _normalize_fix_selection = {} /\ fails(x)
     \/ /\ _normalize_fix_selection # {}
        /\ \/ works(x, v, "changed", "apply")
           \/ works(x, [settled(v) EXCEPT !.status = "failed"], "changed", "idle")

\* What becomes of a change that its review lets pass: nothing was changed,
\* git or GitLab fails (then the branch may be there), or a merge request.
published == {"no changes", "error", "merge request"}

\* One round of change and review; the model may fail in both, and after the
\* last round a change that does not pass is a failure.
FixRound(x) ==
  /\ at(x, "apply")
  /\ \E summary \in FixSummaries, answer \in FeedbackAnswers, passed \in BOOLEAN :
       IF summary = "error" \/ answer = "error" THEN fails(x)
       ELSE IF passed THEN
         \E result \in published :
           IF result # "merge request" THEN fails(x)
           ELSE works(x, [settled(writer[x].mine) EXCEPT
                            !.status = "awaiting_user_confirmation"], "changed", "idle")
       ELSE IF writer[x].tries + 1 = MaxRounds THEN fails(x)
       ELSE /\ writer' = [writer EXCEPT ![x].tries = @ + 1]
            /\ UNCHANGED <<file, jobs, status, told, heard, requests, crashes, history>>

-----------------------------------------------------------------------------
(* After the review of a comment the record follows the file.              *)

_send_callback_if_needed ==
  \/ told /\ UNCHANGED <<told, heard, unheard>>
  \/ told' = TRUE /\ heard' = "passed" /\ UNCHANGED unheard
  \/ unheard' = TRUE /\ heard' \in {heard, "passed"} /\ UNCHANGED told

refreshed_before_it_is_compared ==
  status' = effective(file) /\ UNCHANGED <<told, heard, unheard>>

refreshed_only_when_it_passes ==
  /\ status' = IF effective(file) = "success" THEN "success" ELSE status
  /\ IF status = "failed" /\ effective(file) = "success"
     THEN _send_callback_if_needed
     ELSE UNCHANGED <<told, heard, unheard>>

\* CI is told only when a failed review passes now.
refreshed ==
  /\ status' = effective(file)
  /\ IF status = "failed" /\ effective(file) = "success"
     THEN _send_callback_if_needed
     ELSE UNCHANGED <<told, heard, unheard>>

_refresh_record_after_feedback ==
  /\ at(Reviewer, "refresh")
  /\ becomes(Reviewer, Idle)
  /\ refreshed
  /\ UNCHANGED <<file, jobs, requests, crashes>>
  /\ UNCHANGED <<lost, refused, stranded>>

\* The queues are in memory and nothing looks for what is left in the file.
Crash ==
  /\ crashes < MaxCrashes
  /\ crashes' = crashes + 1
  /\ jobs' = [e \in Elements |-> 0]
  /\ writer' = [w \in Writers |-> Idle]
  /\ stranded' = stranded \cup {e \in Elements : file[e].processing \/ jobs[e] > 0}
                          \cup {about(w) : w \in {v \in Threads : ~at(v, "idle")}}
  /\ UNCHANGED <<file, status, told, heard, requests>>
  /\ UNCHANGED <<lost, refused, unheard>>

-----------------------------------------------------------------------------
NewRequest(c) ==
  \/ \E f \in Findings : submit_finding_feedback(c, f)
  \/ \E i \in Items : submit_general_feedback(c, i)
  \/ \E s \in Sessions : create_fix_session(c, s) \/ submit_fix_session_message(c, s)

Save(w) == Reload(w) \/ ClientWrites(w) \/ ThreadWrites(w)

Work(w) ==
  \/ TakeJob(w) \/ Save(w)
  \/ w = Reviewer /\ (_process_feedback_job \/ _refresh_record_after_feedback)
  \/ w = Listener /\ _process_general_feedback_job
  \/ w \in Fixers /\ (_process_fix_job(w) \/ _execute_fix_session(w) \/ FixRound(w))

Next ==
  \/ \E c \in Clients : NewRequest(c) \/ Save(c)
  \/ \E w \in Threads : Work(w)
  \/ Crash

Spec == Init /\ [][Next]_vars

-----------------------------------------------------------------------------
(* Properties.                                                             *)

(* Every variable holds a value of its kind, the file one of each list.    *)
TypeOK ==
  /\ file \in File
  /\ jobs \in [Elements -> Nat]
  /\ \A w \in Writers : writer[w].pc \in Pcs /\ writer[w].base \in File
  /\ status \in {"success", "failed"} /\ heard \in {"passed", "rejected"}
  /\ lost \cup refused \cup stranded \subseteq Elements

(* What the file says is being processed is in a queue or with a thread,   *)
(* unless a stale write undid a change, a queue was full or the process    *)
(* was restarted: then it is said to be processed for good.                *)
PendingIsServed ==
  \A e \in Elements \ (lost \cup refused \cup stranded) :
    file[e].processing => jobs[e] > 0 \/ working(e) # {}

(* The record says of the review what the file says of its findings, save  *)
(* for a change that a stale write undid after the record had followed it. *)
RecordFollowsFile ==
  lost \cap Findings = {} /\ stranded \cap Findings = {} /\ ~at(Reviewer, "refresh")
    => status = effective(file)

(* CI has heard of a review that passes by its feedback, unless the        *)
(* callback failed: a later one is sent only if the review fails between.  *)
PassIsHeard == status = "success" /\ ~unheard => heard = "passed"

(* A session its user has closed stays closed, unless a stale write of a   *)
(* second job opens it again.                                              *)
ClosedStaysClosed ==
  [][\A s \in Sessions : file[s].status = "completed" /\ s \notin lost'
       => file'[s].status = "completed"]_vars
=============================================================================
