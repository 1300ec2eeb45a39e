---------------------------- MODULE OpenCodeTurn ----------------------------
(***************************************************************************)
(* One turn of a v2 reviewer, judge or feedback session: run_turn of       *)
(* review_v2/opencode_process.py over the model candidates of              *)
(* opencode_config.py and opencode_routing.py.                             *)
(*                                                                         *)
(* The OpenCode process, the threads that read its pipes and the loop that *)
(* polls for a cancel, a provider failure and the timeouts run side by     *)
(* side: a process may be dead while a child of it holds the pipes, lines  *)
(* may be read after the loop gave up.  Time passes in polls of the loop.  *)
(* Other turns, cooldowns and providers change what models are usable, and *)
(* operators whether a task is cancelled, at any time: both are choices    *)
(* where the code asks.                                                    *)
(***************************************************************************)
EXTENDS Naturals, SequencesExt

CONSTANTS Chain,            \* the configured models, in order
          Proxied,          \* those of the provider "llm-proxy"
          Base, Active, Silent   \* the three timeouts, in polls

Models == ToSet(Chain)

ASSUME TurnAssumption ==
  /\ IsInjective(Chain) /\ Chain # <<>> /\ Proxied \subseteq Models
  /\ {Base, Active, Silent} \subseteq Nat \ {0} /\ Base <= Active /\ Silent <= Active

VARIABLES
  resting,  \* the models this turn marked unhealthy
  turn,     \* run_turn: its candidates, where it is in them, its results
  process,  \* the OpenCode process and its pipes
  stream    \* what _read_stream gathered so far

vars == <<resting, turn, process, stream>>

-----------------------------------------------------------------------------
(* State.                                                                  *)

Pcs == {"idle", "chosen", "next", "stream", "closing", "over"}

\* Why a turn failed: the provider refused the connection, another reason to
\* try the next model, or a reason that is none.
Failures == {"none", "refused", "unavailable", "other"}
Types == {"cancelled", "error", "timeout", "completed"}
Result == [type: Types, eligible: BOOLEAN, refused: BOOLEAN]

\* tried: history, the models tried so far and what came of them.
Turn == [pc: Pcs, models: Seq(Models), at: Nat, left: SUBSET {"llm-proxy"},
         tried: Seq([model: Models, result: Result, said: BOOLEAN])]
Process == [exit: {"none", "zero", "other"}, open: BOOLEAN]
Stream == [saw: BOOLEAN, text: BOOLEAN, error: Failures, failure: Failures,
           elapsed: 0 .. Active, quiet: 0 .. Active,
           end: {"none", "cancelled", "timed_out", "failed"}]

NoTurn == [pc |-> "idle", models |-> <<>>, at |-> 1, left |-> {}, tried |-> <<>>]
NoProcess == [exit |-> "zero", open |-> FALSE]
NoStream == [saw |-> FALSE, text |-> FALSE, error |-> "none", failure |-> "none",
             elapsed |-> 0, quiet |-> 0, end |-> "none"]

Init ==
  /\ resting = {} /\ turn = NoTurn /\ process = NoProcess /\ stream = NoStream

model == turn.models[turn.at]
provider(m) == IF m \in Proxied THEN "llm-proxy" ELSE "another"
tried == turn.tried

-----------------------------------------------------------------------------
(* Candidates.  usable: the models that are not in a cooldown and that     *)
(* their provider lists, or all of a provider that cannot be asked.        *)

_select_candidates(usable) == SelectSeq(Chain, LAMBDA m : m \in usable)

\* selected_opencode_model: the caller picks a model for its records first.
Select ==
  /\ turn.pc = "idle"
  /\ \E usable \in SUBSET Models :
       LET selected == _select_candidates(usable) IN
       turn' = [NoTurn EXCEPT !.pc = "chosen",
                  !.models = <<IF selected = <<>> THEN Chain[1] ELSE selected[1]>>]
  /\ UNCHANGED <<resting, process, stream>>

candidates(preferred, selected) ==
  <<preferred>> \o SelectSeq(selected, LAMBDA m : m # preferred)

\* Meanwhile the model that was picked may have gone to rest.
Begin ==
  /\ turn.pc = "chosen"
  /\ \E usable \in SUBSET Models :
       turn' = [turn EXCEPT !.pc = "next",
                  !.models = candidates(@[1], _select_candidates(usable))]
  /\ UNCHANGED <<resting, process, stream>>

-----------------------------------------------------------------------------
(* run_turn.                                                               *)

more == turn.pc = "next" /\ turn.at <= Len(turn.models)

Skip ==
  /\ more /\ provider(model) \in turn.left
  /\ resting' = resting \cup {model}
  /\ turn' = [turn EXCEPT !.at = @ + 1]
  /\ UNCHANGED <<process, stream>>

Launch_whatever_refused ==
  /\ more
  /\ turn' = [turn EXCEPT !.pc = "stream"]
  /\ process' = [exit |-> "none", open |-> TRUE]
  /\ stream' = NoStream
  /\ UNCHANGED resting

Launch ==
  /\ more /\ provider(model) \notin turn.left
  /\ turn' = [turn EXCEPT !.pc = "stream"]
  /\ process' = [exit |-> "none", open |-> TRUE]
  /\ stream' = NoStream
  /\ UNCHANGED resting

\* Only skipped models were left: the last result is returned after all.
RunOut ==
  /\ turn.pc = "next" /\ turn.at > Len(turn.models)
  /\ turn' = [turn EXCEPT !.pc = "over"]
  /\ UNCHANGED <<resting, process, stream>>

-----------------------------------------------------------------------------
(* The process and the threads reading its pipes.                          *)

reading == turn.pc \in {"stream", "closing"} /\ process.open

\* Any event is progress; the first error event is the one that counts.
ReadEvent ==
  /\ reading
  /\ \/ \E text \in BOOLEAN :
          stream' = [stream EXCEPT !.saw = TRUE, !.quiet = 0, !.text = @ \/ text]
     \/ \E e \in Failures \ {"none"} :
          stream' = [stream EXCEPT !.saw = TRUE, !.quiet = 0,
                       !.error = IF @ = "none" THEN e ELSE @]
  /\ UNCHANGED <<resting, turn, process>>

\* _provider_failure_from_stderr; the last one counts.
ReadFailure ==
  /\ reading
  /\ \E f \in {"refused", "unavailable"} :
       stream' = [stream EXCEPT !.saw = TRUE, !.quiet = 0, !.failure = f]
  /\ UNCHANGED <<resting, turn, process>>

Exit ==
  /\ turn.pc \in {"stream", "closing"} /\ process.exit = "none"
  /\ \E code \in {"zero", "other"} : process' = [process EXCEPT !.exit = code]
  /\ UNCHANGED <<resting, turn, stream>>

EndOfPipes ==
  /\ reading
  /\ process' = [process EXCEPT !.open = FALSE]
  /\ UNCHANGED <<resting, turn, stream>>

-----------------------------------------------------------------------------
(* The loop of _read_stream.                                               *)

looping == turn.pc = "stream" /\ process.open

timeout_once_it_spoke == stream.saw /\ (stream.elapsed >= Active \/ stream.quiet >= Silent)

timeout ==
  IF stream.saw THEN stream.elapsed >= Active \/ stream.quiet >= Silent
  ELSE stream.elapsed >= Base

\* The process ends on the signal, with whatever code it likes.
terminated == {[process EXCEPT !.exit = code] :
  code \in IF process.exit = "none" THEN {"zero", "other"} ELSE {process.exit}}

GiveUp(end) ==
  /\ stream' = [stream EXCEPT !.end = end]
  /\ process' \in terminated
  /\ turn' = [turn EXCEPT !.pc = "closing"]

\* The check for a cancel finds one.
Cancel ==
  /\ looping
  /\ GiveUp("cancelled")
  /\ UNCHANGED resting

\* No timeout is longer than Active: later polls are all alike.
later(t) == IF t < Active THEN t + 1 ELSE t

\* Or it finds none, and the loop looks at the failures and the clock.
Poll ==
  /\ looping
  /\ \/ stream.failure # "none" /\ GiveUp("failed")
     \/ stream.failure = "none" /\ timeout /\ GiveUp("timed_out")
     \/ /\ stream.failure = "none" /\ ~timeout
        /\ stream' = [stream EXCEPT !.elapsed = later(@),
                                    !.quiet = IF stream.saw THEN later(@) ELSE @]
        /\ UNCHANGED <<process, turn>>
  /\ UNCHANGED resting

LoopEnds ==
  /\ turn.pc = "stream" /\ ~process.open
  /\ turn' = [turn EXCEPT !.pc = "closing"]
  /\ UNCHANGED <<resting, process, stream>>

failed(type, reason) ==
  [type |-> type, eligible |-> reason # "other", refused |-> reason = "refused"]

_build_result_by_exit_code(code) ==
  CASE stream.end = "cancelled" -> failed("cancelled", "other")
    [] stream.end # "cancelled" /\ stream.failure # "none" -> failed("error", stream.failure)
    [] stream.end # "cancelled" /\ stream.failure = "none" /\ stream.error # "none" ->
         failed("error", stream.error)
    [] OTHER -> IF code = "other" THEN failed("error", "other")
                ELSE failed("completed", "other")

\* A timeout is worth another model only if nothing was said.
_build_result(code) ==
  IF stream.end = "cancelled" THEN failed("cancelled", "other")
  ELSE IF stream.failure # "none" THEN failed("error", stream.failure)
  ELSE IF stream.error # "none" THEN failed("error", stream.error)
  ELSE IF stream.end = "timed_out"
       THEN failed("timeout", IF stream.text THEN "other" ELSE "unavailable")
  ELSE IF code # "zero" THEN failed("error", "other")
  ELSE failed("completed", "other")

_should_skip_provider_after_failure(result) ==
  provider(model) = "llm-proxy" /\ result.refused

ends_with_the_models(result) == turn.at = Len(turn.models)

ends(result) == ~result.eligible \/ turn.at = Len(turn.models)

\* A process that outlives its pipes is waited for, then terminated.  The
\* model goes to rest if there is another one to try, and only then.
Close ==
  /\ turn.pc = "closing"
  /\ \E p \in terminated :
       LET result == _build_result(p.exit)
           now == [turn EXCEPT !.tried = Append(@,
                     [model |-> model, result |-> result, said |-> stream.text])] IN
       IF ends(result)
       THEN /\ turn' = [now EXCEPT !.pc = "over"]
            /\ process' = p
            /\ UNCHANGED <<resting, stream>>
       ELSE /\ turn' = [now EXCEPT !.pc = "next", !.at = @ + 1,
                          !.left = IF _should_skip_provider_after_failure(result)
                                   THEN @ \cup {"llm-proxy"} ELSE @]
            /\ resting' = resting \cup {model}
            /\ process' = NoProcess /\ stream' = NoStream

-----------------------------------------------------------------------------
(* The caller.                                                             *)

TakeResult ==
  /\ turn.pc = "over"
  /\ turn' = NoTurn /\ process' = NoProcess /\ stream' = NoStream /\ resting' = {}

Runner ==
  \/ Select \/ Begin \/ Skip \/ Launch \/ RunOut
  \/ Poll \/ LoopEnds \/ Close \/ TakeResult

Next ==
  \/ Runner
  \/ ReadEvent \/ ReadFailure \/ Exit \/ EndOfPipes \/ Cancel

Spec == Init /\ [][Next]_vars

\* The loop is never blocked; nothing is assumed of the process, nor that
\* anyone cancels.
FairSpec == Spec /\ WF_vars(Runner)

-----------------------------------------------------------------------------
(* Properties.                                                             *)

(* Candidates, process and stream hold values of their kinds.              *)
TypeOK ==
  /\ resting \subseteq Models /\ turn \in Turn /\ process \in Process
  /\ stream \in Stream

(* A turn is completed only if its whole output was read: nobody gave up   *)
(* on the process, its pipes are at their end, nothing in them told of a   *)
(* failure, and it left with exit code 0, whatever raced with the loop.    *)
CompletedIsWhole ==
  turn.pc = "over" /\ Last(tried).result.type = "completed" =>
    /\ stream.end = "none" /\ ~process.open /\ process.exit = "zero"
    /\ stream.error = "none" /\ stream.failure = "none"

(* Once llm-proxy refused a connection the turn tries no other model of it.*)
RefusedProviderIsLeft ==
  \A i, j \in DOMAIN tried :
    i < j /\ tried[i].result.refused /\ tried[i].model \in Proxied
      => tried[j].model \notin Proxied

(* A turn gives the prompt to another model only after an attempt that was *)
(* neither cancelled nor completed and did not run out of time in the      *)
(* middle of an answer; and what it sends to rest failed it that way, or   *)
(* is a model of the provider that refused.                                *)
FallbackIsEarned ==
  /\ \A i \in 1 .. Len(tried) - 1 :
       /\ tried[i].result.type \in {"error", "timeout"}
       /\ tried[i].result.type = "timeout" => ~tried[i].said
  /\ \A m \in resting :
       \/ \E i \in 1 .. Len(tried) : tried[i].model = m /\ tried[i].result.eligible
       \/ m \in Proxied /\ \E i \in 1 .. Len(tried) : tried[i].result.refused

(* Whatever the process does, hang, babble or die and leave its pipes to a *)
(* child, the turn comes to an end.                                        *)
EveryTurnEnds == turn.pc # "idle" ~> turn.pc = "over"
=============================================================================
