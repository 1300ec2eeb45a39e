------------------------ MODULE OpenCodeTurn_proofs ------------------------
(***************************************************************************)
(* Theorems about OpenCodeTurn, for every chain of models, every share of  *)
(* the proxy in it and every timeout.  What the two selections keep of the *)
(* chain is left open: the proofs hold whatever models are the candidates. *)
(***************************************************************************)
EXTENDS OpenCodeTurn, TLAPS

-----------------------------------------------------------------------------
(* The inductive invariant.                                                *)

IsSequence(s) == s = [i \in 1 .. Len(s) |-> s[i]]

(* The types, without those of the models: they come from the chain.       *)
Typed ==
  /\ DOMAIN turn = {"pc", "models", "at", "left", "tried"}
  /\ turn.pc \in Pcs /\ turn.at \in Nat /\ turn.left \in SUBSET {"llm-proxy"}
  /\ IsSequence(tried)
  /\ process \in Process /\ stream \in Stream

(* A failure worth another model was an error, or silence.                 *)
AttemptsAreJudged ==
  \A i \in 1 .. Len(tried) :
    tried[i].result.eligible =>
      /\ tried[i].result.type \in {"error", "timeout"}
      /\ tried[i].result.type = "timeout" => ~tried[i].said

(* A turn that goes on was failed by every model it tried so far, one that *)
(* is over by all but the last one.                                        *)
EarlierOnesFailed ==
  \A i \in 1 .. Len(tried) - (IF turn.pc = "over" THEN 1 ELSE 0) :
    tried[i].result.eligible

(* A turn starts with nothing tried, left or sent to rest, and with a      *)
(* model to try.                                                           *)
StartsFresh ==
  /\ turn.pc \in {"idle", "chosen"} =>
       Len(tried) = 0 /\ turn.left = {} /\ resting = {} /\ turn.at = 1
  /\ turn.pc = "next" /\ Len(tried) = 0 => turn.at = 1 /\ Len(turn.models) >= 1
  /\ turn.pc = "over" => Len(tried) > 0

(* The provider is left exactly when, and because, it refused.             *)
LeftIsRefused ==
  /\ turn.left # {} => \E i \in 1 .. Len(tried) : tried[i].result.refused
  /\ turn.pc \in {"next", "stream", "closing"} =>
       \A i \in 1 .. Len(tried) :
         tried[i].result.refused /\ tried[i].model \in Proxied => turn.left # {}
  /\ turn.pc \in {"stream", "closing"} /\ turn.left # {} => model \notin Proxied

(* The loop gives up for a reason it recorded, or ends with the pipes.     *)
EndsAreRecorded ==
  /\ turn.pc = "stream" => stream.end = "none"
  /\ turn.pc = "closing" /\ stream.end = "none" => ~process.open
  /\ turn.pc = "closing" /\ stream.end = "failed" => stream.failure # "none"

TurnInv ==
  /\ Typed /\ AttemptsAreJudged /\ EarlierOnesFailed /\ StartsFresh
  /\ LeftIsRefused /\ EndsAreRecorded
  /\ CompletedIsWhole /\ RefusedProviderIsLeft /\ FallbackIsEarned

-----------------------------------------------------------------------------
(* Lemmas.                                                                 *)

(* What an attempt appended to the history leaves alone.                   *)
LEMMA Appended ==
  ASSUME NEW s, NEW e, IsSequence(s)
  PROVE  /\ IsSequence(Append(s, e))
         /\ Len(Append(s, e)) = Len(s) + 1 /\ Len(s) \in Nat
         /\ Append(s, e)[Len(s) + 1] = e
         /\ \A i \in 1 .. Len(s) : Append(s, e)[i] = s[i]
<1>1. Len(s) \in Nat
  OBVIOUS
<1> DEFINE S == {s[i] : i \in 1 .. Len(s)} \cup {e}
<1>2. s \in Seq(S) /\ e \in S
  BY <1>1 DEF IsSequence
<1> HIDE DEF S
<1>3. /\ Append(s, e) \in Seq(S) /\ Len(Append(s, e)) = Len(s) + 1
      /\ Append(s, e)[Len(s) + 1] = e
      /\ \A i \in 1 .. Len(s) : Append(s, e)[i] = s[i]
  BY <1>2
<1>4. ASSUME NEW q \in Seq(S)
      PROVE  q = [i \in 1 .. Len(q) |-> q[i]]
  OBVIOUS
<1>5. QED
  BY <1>1, <1>3, <1>4 DEF IsSequence

(* The initial state satisfies the inductive invariant.                    *)
LEMMA InitInv == Init => TurnInv
BY TurnAssumption DEF Init, TurnInv, Typed, AttemptsAreJudged, EarlierOnesFailed, StartsFresh,
   LeftIsRefused, EndsAreRecorded, CompletedIsWhole, RefusedProviderIsLeft,
   FallbackIsEarned, NoTurn, NoProcess, NoStream, tried, Pcs, Process, Stream, Failures,
   IsSequence

(* What the process and its readers do.                                    *)
LEMMA ReadersKeepInv ==
  ASSUME TurnInv, ReadEvent \/ ReadFailure \/ Exit \/ EndOfPipes
  PROVE  TurnInv'
<1>1. turn' = turn /\ resting' = resting /\ turn.pc \in {"stream", "closing"}
  BY DEF ReadEvent, ReadFailure, Exit, EndOfPipes, reading
<1>2. process' \in Process /\ stream' \in Stream
  <2>1. process \in Process /\ stream \in Stream
    BY DEF TurnInv, Typed
  <2> DEFINE Heard(text, error, failure) ==
               [stream EXCEPT !.saw = TRUE, !.quiet = 0, !.text = text, !.error = error,
                              !.failure = failure]
  <2>2. 0 \in 0 .. Active
    BY TurnAssumption
  <2>3. \A text \in BOOLEAN, error \in Failures, failure \in Failures :
          Heard(text, error, failure) \in Stream
    BY <2>1, <2>2 DEF Stream
  <2>4. stream.text \in BOOLEAN /\ stream.error \in Failures /\ stream.failure \in Failures
    BY <2>1 DEF Stream
  <2>5. CASE ReadEvent
    <3>1. ASSUME NEW text \in BOOLEAN,
                 stream' = [stream EXCEPT !.saw = TRUE, !.quiet = 0, !.text = @ \/ text]
          PROVE  stream' \in Stream
      <4>1. stream' = Heard(stream.text \/ text, stream.error, stream.failure)
        BY <2>1, <3>1 DEF Stream
      <4>2. (stream.text \/ text) \in BOOLEAN
        OBVIOUS
      <4>3. QED
        BY <2>3, <2>4, <4>1, <4>2
    <3>2. ASSUME NEW e \in Failures \ {"none"},
                 stream' = [stream EXCEPT !.saw = TRUE, !.quiet = 0,
                              !.error = IF @ = "none" THEN e ELSE @]
          PROVE  stream' \in Stream
      BY <2>1, <2>2, <2>4, <3>2 DEF Stream
    <3>3. QED
      BY <2>1, <2>5, <3>1, <3>2 DEF ReadEvent
  <2>6. CASE ReadFailure
    BY <2>1, <2>6, <2>2 DEF ReadFailure, Stream, Failures
  <2>7. CASE Exit \/ EndOfPipes
    BY <2>1, <2>7 DEF Exit, EndOfPipes, Process
  <2>8. QED
    BY <2>5, <2>6, <2>7
<1>3. Typed' /\ AttemptsAreJudged' /\ EarlierOnesFailed' /\ StartsFresh' /\ LeftIsRefused'
      /\ RefusedProviderIsLeft' /\ FallbackIsEarned'
  BY <1>1, <1>2 DEF TurnInv, Typed, AttemptsAreJudged, EarlierOnesFailed, StartsFresh,
     LeftIsRefused, RefusedProviderIsLeft, FallbackIsEarned, tried, model
<1>4. EndsAreRecorded'
  BY <1>1 DEF TurnInv, Typed, EndsAreRecorded, ReadEvent, ReadFailure, Exit, EndOfPipes,
     Process, Stream, reading
<1>5. CompletedIsWhole'
  BY <1>1 DEF CompletedIsWhole
<1>6. QED
  BY <1>3, <1>4, <1>5 DEF TurnInv

(* The loop polls, gives up or ends.                                       *)
LEMMA LoopKeepsInv ==
  ASSUME TurnInv, Poll \/ Cancel \/ LoopEnds
  PROVE  TurnInv'
<1>1. Typed /\ EndsAreRecorded
  BY DEF TurnInv
<1>2. /\ turn.pc = "stream" /\ resting' = resting
      /\ turn' = turn \/ turn' = [turn EXCEPT !.pc = "closing"]
  BY DEF Poll, Cancel, LoopEnds, GiveUp, looping
<1>3. /\ DOMAIN turn' = DOMAIN turn /\ turn'.pc \in {"stream", "closing"}
      /\ turn'.tried = turn.tried /\ turn'.left = turn.left
      /\ turn'.at = turn.at /\ turn'.models = turn.models
  BY <1>1, <1>2 DEF Typed
<1>4. \A p \in terminated : p \in Process /\ p.open = process.open
  BY <1>1 DEF Typed, terminated, Process
<1>5. process' \in Process /\ stream' \in Stream
  <2>1. CASE Cancel
    BY <1>1, <1>4, <2>1 DEF Typed, Cancel, GiveUp, Stream
  <2>2. CASE LoopEnds
    BY <1>1, <2>2 DEF Typed, LoopEnds
  <2>3. CASE Poll /\ (GiveUp("failed") \/ GiveUp("timed_out"))
    BY <1>1, <1>4, <2>3 DEF Typed, GiveUp, Stream
  <2>4. ASSUME NEW t \in 0 .. Active
        PROVE  later(t) \in 0 .. Active
    BY TurnAssumption DEF later
  <2>5. CASE /\ process' = process
             /\ stream' = [stream EXCEPT !.elapsed = later(@),
                                         !.quiet = IF stream.saw THEN later(@) ELSE @]
    BY <1>1, <2>4, <2>5 DEF Typed, Stream
  <2>6. QED
    BY <2>1, <2>2, <2>3, <2>5 DEF Poll
<1>6. Typed' /\ AttemptsAreJudged' /\ EarlierOnesFailed' /\ StartsFresh' /\ LeftIsRefused'
      /\ RefusedProviderIsLeft' /\ FallbackIsEarned' /\ CompletedIsWhole'
  BY <1>2, <1>3, <1>5 DEF TurnInv, Typed, AttemptsAreJudged, EarlierOnesFailed, StartsFresh,
     LeftIsRefused, RefusedProviderIsLeft, FallbackIsEarned, CompletedIsWhole, tried, model,
     Pcs
<1>7. EndsAreRecorded'
  <2>1. CASE turn' = turn
    BY <1>1, <1>2, <2>1 DEF Typed, EndsAreRecorded, Poll, Cancel, LoopEnds, GiveUp, Stream
  <2>2. CASE Cancel
    BY <1>1, <2>2 DEF Typed, EndsAreRecorded, Cancel, GiveUp, Stream
  <2>3. CASE LoopEnds
    BY <1>1, <2>3 DEF Typed, EndsAreRecorded, LoopEnds
  <2>4. CASE Poll /\ stream.failure # "none" /\ GiveUp("failed")
    BY <1>1, <2>4 DEF Typed, EndsAreRecorded, GiveUp, Stream
  <2>5. CASE Poll /\ GiveUp("timed_out")
    BY <1>1, <2>5 DEF Typed, EndsAreRecorded, GiveUp, Stream
  <2>6. QED
    BY <1>2, <2>1, <2>2, <2>3, <2>4, <2>5 DEF Poll
<1>8. QED
  BY <1>6, <1>7 DEF TurnInv

(* Models are chosen, skipped and launched, and may run out.               *)
LEMMA ChoicesKeepInv ==
  ASSUME TurnInv, Select \/ Begin \/ Skip \/ Launch \/ RunOut \/ TakeResult
  PROVE  TurnInv'
<1>1. Typed /\ StartsFresh /\ LeftIsRefused
  BY DEF TurnInv
<1>2. CASE Select \/ Begin \/ TakeResult
  <2>1. ASSUME Select
        PROVE  /\ turn'.pc = "chosen" /\ turn'.at = 1 /\ turn'.left = {} /\ turn'.tried = <<>>
               /\ DOMAIN turn' = {"pc", "models", "at", "left", "tried"}
    <3>1. \A m : LET t == [NoTurn EXCEPT !.pc = "chosen", !.models = m] IN
            /\ t.pc = "chosen" /\ t.at = 1 /\ t.left = {} /\ t.tried = <<>>
            /\ DOMAIN t = {"pc", "models", "at", "left", "tried"}
      BY DEF NoTurn
    <3>2. PICK usable \in SUBSET Models :
            turn' = [NoTurn EXCEPT !.pc = "chosen",
                       !.models = <<IF _select_candidates(usable) = <<>> THEN Chain[1]
                                    ELSE _select_candidates(usable)[1]>>]
      BY <2>1 DEF Select
    <3>3. QED
      BY <3>1, <3>2
  <2>2. /\ Len(tried') = 0 /\ IsSequence(tried') /\ turn'.left = {} /\ resting' = {}
        /\ turn'.at = 1 /\ turn'.pc \in {"idle", "chosen", "next"}
        /\ DOMAIN turn' = DOMAIN turn
        /\ process' \in Process /\ stream' \in Stream
    <3>1. CASE Select
      <4>1. turn.pc = "idle" /\ UNCHANGED <<resting, process, stream>>
        BY <3>1 DEF Select
      <4>2. QED
        BY <1>1, <2>1, <3>1, <4>1 DEF Typed, StartsFresh, tried, IsSequence
    <3>2. CASE Begin
      BY <1>1, <3>2 DEF Typed, StartsFresh, Begin, tried, IsSequence
    <3>3. CASE TakeResult
      BY <1>1, <3>3, TurnAssumption DEF Typed, TakeResult, NoTurn, NoProcess, NoStream, tried,
         IsSequence, Process, Stream, Failures
    <3>4. QED
      BY <1>2, <3>1, <3>2, <3>3
  <2>3. turn'.pc = "next" => Len(turn'.models) >= 1
    <3>1. CASE Begin
      <4>1. PICK usable \in SUBSET Models :
              turn' = [turn EXCEPT !.pc = "next",
                         !.models = candidates(@[1], _select_candidates(usable))]
        BY <3>1 DEF Begin
      <4>2. \A p, q : Len(candidates(p, q)) >= 1
        BY DEF candidates
      <4>3. QED
        BY <1>1, <4>1, <4>2 DEF Typed
    <3>2. CASE Select \/ TakeResult
      BY <2>1, <3>2 DEF TakeResult, NoTurn
    <3>3. QED
      BY <1>2, <3>1, <3>2
  <2>4. QED
    BY <1>1, <2>2, <2>3 DEF TurnInv, Typed, AttemptsAreJudged, EarlierOnesFailed, StartsFresh,
       LeftIsRefused, RefusedProviderIsLeft, FallbackIsEarned, CompletedIsWhole,
       EndsAreRecorded, tried, Pcs
<1>3. CASE Skip
  <2>1. /\ turn.pc = "next" /\ turn'.pc = "next" /\ turn'.at = turn.at + 1
        /\ turn'.tried = turn.tried /\ turn'.left = turn.left /\ turn'.models = turn.models
        /\ DOMAIN turn' = DOMAIN turn /\ process' = process /\ stream' = stream
    BY <1>1, <1>3 DEF Typed, Skip, more
  <2>2. model \in Proxied /\ turn.left # {} /\ resting' = resting \cup {model}
    BY <1>1, <1>3 DEF Typed, Skip, provider
  <2>3. Typed' /\ AttemptsAreJudged' /\ EarlierOnesFailed' /\ StartsFresh' /\ LeftIsRefused'
        /\ RefusedProviderIsLeft' /\ CompletedIsWhole' /\ EndsAreRecorded'
    BY <2>1, <2>2 DEF TurnInv, Typed, AttemptsAreJudged, EarlierOnesFailed, StartsFresh,
       LeftIsRefused, RefusedProviderIsLeft, CompletedIsWhole, EndsAreRecorded, tried
  <2>4. FallbackIsEarned'
    BY <1>1, <2>1, <2>2 DEF TurnInv, FallbackIsEarned, LeftIsRefused, tried
  <2>5. QED
    BY <2>3, <2>4 DEF TurnInv
<1>4. CASE Launch
  <2>1. /\ turn.pc = "next" /\ turn'.pc = "stream" /\ turn'.at = turn.at
        /\ turn'.tried = turn.tried /\ turn'.left = turn.left /\ turn'.models = turn.models
        /\ DOMAIN turn' = DOMAIN turn /\ resting' = resting
        /\ process' \in Process /\ stream' \in Stream /\ stream'.end = "none"
    BY <1>1, <1>4, TurnAssumption DEF Typed, Launch, more, NoStream, Process, Stream, Failures
  <2>2. turn.left # {} => model \notin Proxied
    BY <1>1, <1>4 DEF Typed, Launch, provider
  <2>3. QED
    BY <2>1, <2>2 DEF TurnInv, Typed, AttemptsAreJudged, EarlierOnesFailed, StartsFresh,
       LeftIsRefused, RefusedProviderIsLeft, FallbackIsEarned, CompletedIsWhole,
       EndsAreRecorded, tried, model, Pcs
<1>5. CASE RunOut
  <2>1. /\ turn.pc = "next" /\ turn.at > Len(turn.models) /\ turn'.pc = "over"
        /\ turn'.at = turn.at /\ turn'.tried = turn.tried /\ turn'.left = turn.left
        /\ turn'.models = turn.models
        /\ DOMAIN turn' = DOMAIN turn /\ resting' = resting
        /\ process' = process /\ stream' = stream
    BY <1>1, <1>5 DEF Typed, RunOut
  <2>2. Len(tried) \in Nat /\ Len(tried) > 0
    BY <1>1, <2>1 DEF Typed, StartsFresh, IsSequence
  <2>3. tried[Len(tried)].result.type \in {"error", "timeout"}
    BY <2>1, <2>2 DEF TurnInv, AttemptsAreJudged, EarlierOnesFailed
  <2>4. Typed' /\ AttemptsAreJudged' /\ EarlierOnesFailed' /\ StartsFresh' /\ LeftIsRefused'
        /\ RefusedProviderIsLeft' /\ FallbackIsEarned' /\ EndsAreRecorded'
    BY <2>1, <2>2 DEF TurnInv, Typed, AttemptsAreJudged, EarlierOnesFailed, StartsFresh,
       LeftIsRefused, RefusedProviderIsLeft, FallbackIsEarned, EndsAreRecorded, tried, Pcs
  <2>5. CompletedIsWhole'
    BY <2>1, <2>3 DEF CompletedIsWhole, tried, Last
  <2>6. QED
    BY <2>4, <2>5 DEF TurnInv
<1>6. QED
  BY <1>2, <1>3, <1>4, <1>5

(* A model is done: the turn ends with its result or goes on to the next.  *)
LEMMA CloseKeepsInv ==
  ASSUME TurnInv, Close
  PROVE  TurnInv'
<1>1. Typed /\ EndsAreRecorded /\ turn.pc = "closing"
  BY DEF TurnInv, Close
<1>2. PICK p \in terminated :
        LET result == _build_result(p.exit)
            now == [turn EXCEPT !.tried = Append(@,
                      [model |-> model, result |-> result, said |-> stream.text])] IN
        IF ends(result)
        THEN /\ turn' = [now EXCEPT !.pc = "over"]
             /\ process' = p
             /\ UNCHANGED <<resting, stream>>
        ELSE /\ turn' = [now EXCEPT !.pc = "next", !.at = @ + 1,
                           !.left = IF _should_skip_provider_after_failure(result)
                                    THEN @ \cup {"llm-proxy"} ELSE @]
             /\ resting' = resting \cup {model}
             /\ process' = NoProcess /\ stream' = NoStream
  BY DEF Close
<1> DEFINE result == _build_result(p.exit)
           attempt == [model |-> model, result |-> result, said |-> stream.text]
           n == Len(tried)
<1>3. p \in Process /\ p.open = process.open
  BY <1>1 DEF Typed, terminated, Process
<1>4. /\ result.type \in Types
      /\ result.eligible => /\ result.type \in {"error", "timeout"}
                            /\ result.type = "timeout" => ~stream.text
      /\ result.refused => result.eligible
      /\ result.type = "completed" =>
           /\ stream.end \notin {"cancelled", "timed_out"}
           /\ stream.error = "none" /\ stream.failure = "none" /\ p.exit = "zero"
  BY DEF _build_result, failed, Types
<1>5. attempt.model = model /\ attempt.result = result /\ attempt.said = stream.text
  OBVIOUS
<1> HIDE DEF result, attempt
<1>6. /\ IsSequence(tried') /\ n \in Nat /\ Len(tried') = n + 1
      /\ tried'[n + 1] = attempt
      /\ \A i \in 1 .. n : tried'[i] = tried[i]
  <2>1. tried' = Append(tried, attempt)
    BY <1>1, <1>2 DEF Typed, tried, result, attempt
  <2>2. QED
    BY <1>1, <2>1, Appended DEF Typed
<1>7. \A i \in 1 .. n : tried[i].result.eligible
  BY <1>1, <1>6 DEF TurnInv, EarlierOnesFailed
<1>8. AttemptsAreJudged'
  BY <1>4, <1>5, <1>6 DEF TurnInv, AttemptsAreJudged
<1>9. RefusedProviderIsLeft'
  <2>1. ASSUME NEW i \in 1 .. n, tried[i].result.refused, tried[i].model \in Proxied
        PROVE  model \notin Proxied
    BY <1>1, <2>1 DEF TurnInv, LeftIsRefused
  <2>2. DOMAIN tried = 1 .. n /\ DOMAIN tried' = 1 .. n + 1
    BY <1>1, <1>6 DEF Typed, IsSequence
  <2>3. SUFFICES ASSUME NEW i \in 1 .. n + 1, NEW j \in 1 .. n + 1, i < j,
                        tried'[i].result.refused, tried'[i].model \in Proxied
                 PROVE  tried'[j].model \notin Proxied
    BY <2>2 DEF RefusedProviderIsLeft
  <2>4. i \in 1 .. n /\ tried'[i] = tried[i]
    BY <1>6, <2>3
  <2>5. CASE j = n + 1
    BY <1>5, <1>6, <2>1, <2>3, <2>4, <2>5
  <2>6. CASE j \in 1 .. n
    BY <1>6, <2>2, <2>3, <2>4, <2>6 DEF TurnInv, RefusedProviderIsLeft
  <2>7. QED
    BY <1>6, <2>5, <2>6
<1>10. \A i \in 1 .. n : /\ tried'[i].result.type \in {"error", "timeout"}
                         /\ tried'[i].result.type = "timeout" => ~tried'[i].said
  BY <1>6, <1>7 DEF TurnInv, AttemptsAreJudged
<1>11. ASSUME NEW m \in resting
       PROVE  \/ \E i \in 1 .. n + 1 : tried'[i].model = m /\ tried'[i].result.eligible
              \/ m \in Proxied /\ \E i \in 1 .. n + 1 : tried'[i].result.refused
  <2>1. \/ \E i \in 1 .. n : tried[i].model = m /\ tried[i].result.eligible
        \/ m \in Proxied /\ \E i \in 1 .. n : tried[i].result.refused
    BY DEF TurnInv, FallbackIsEarned
  <2>2. \A i \in 1 .. n : i \in 1 .. n + 1 /\ tried'[i] = tried[i]
    BY <1>6
  <2>3. QED
    BY <2>1, <2>2
<1>12. CASE ends(result)
  <2>1. /\ turn'.pc = "over" /\ turn'.left = turn.left /\ turn'.at = turn.at
        /\ turn'.models = turn.models /\ DOMAIN turn' = DOMAIN turn
        /\ resting' = resting /\ stream' = stream /\ process' = p
    BY <1>1, <1>2, <1>12 DEF Typed, result
  <2>2. Typed' /\ EarlierOnesFailed' /\ StartsFresh' /\ EndsAreRecorded'
    BY <1>1, <1>3, <1>6, <1>7, <2>1 DEF Typed, EarlierOnesFailed, StartsFresh,
       EndsAreRecorded, Pcs
  <2>3. LeftIsRefused'
    BY <1>6, <2>1 DEF TurnInv, LeftIsRefused
  <2>4. CompletedIsWhole'
    BY <1>1, <1>3, <1>4, <1>5, <1>6, <2>1 DEF Typed, EndsAreRecorded, CompletedIsWhole, Last,
       Stream
  <2>5. FallbackIsEarned'
    <3>1. \A i \in 1 .. Len(tried') - 1 :
            /\ tried'[i].result.type \in {"error", "timeout"}
            /\ tried'[i].result.type = "timeout" => ~tried'[i].said
      BY <1>6, <1>10
    <3>2. \A m \in resting' :
            \/ \E i \in 1 .. Len(tried') : tried'[i].model = m /\ tried'[i].result.eligible
            \/ m \in Proxied /\ \E i \in 1 .. Len(tried') : tried'[i].result.refused
      BY <1>6, <1>11, <2>1
    <3>3. QED
      BY <3>1, <3>2 DEF FallbackIsEarned
  <2>6. QED
    BY <1>8, <1>9, <2>2, <2>3, <2>4, <2>5 DEF TurnInv
<1>13. CASE ~ends(result)
  <2>1. /\ turn'.pc = "next" /\ turn'.at = turn.at + 1 /\ turn'.models = turn.models
        /\ turn'.left = IF _should_skip_provider_after_failure(result)
                        THEN turn.left \cup {"llm-proxy"} ELSE turn.left
        /\ DOMAIN turn' = DOMAIN turn
        /\ resting' = resting \cup {model} /\ stream' = NoStream /\ process' = NoProcess
    BY <1>1, <1>2, <1>13 DEF Typed, result
  <2>2. result.eligible
    BY <1>13 DEF ends
  <2>3. _should_skip_provider_after_failure(result) <=> model \in Proxied /\ result.refused
    BY DEF _should_skip_provider_after_failure, provider
  <2>4. stream' \in Stream /\ process' \in Process
    BY <2>1, TurnAssumption DEF NoStream, NoProcess, Stream, Process, Failures
  <2>5. Typed' /\ EarlierOnesFailed' /\ StartsFresh' /\ EndsAreRecorded' /\ CompletedIsWhole'
    BY <1>1, <1>5, <1>6, <1>7, <2>1, <2>2, <2>4 DEF Typed, EarlierOnesFailed, StartsFresh,
       EndsAreRecorded, CompletedIsWhole, Pcs
  <2>6. LeftIsRefused'
    <3>1. turn'.left # {} => \E i \in 1 .. n + 1 : tried'[i].result.refused
      <4>1. CASE turn.left # {}
        BY <1>6, <4>1 DEF TurnInv, LeftIsRefused
      <4>2. CASE turn.left = {}
        BY <1>5, <1>6, <2>1, <2>3, <4>2
      <4>3. QED
        BY <4>1, <4>2
    <3>2. ASSUME NEW i \in 1 .. n + 1, tried'[i].result.refused, tried'[i].model \in Proxied
          PROVE  turn'.left # {}
      <4>1. CASE i = n + 1
        BY <1>5, <1>6, <2>1, <2>3, <3>2, <4>1
      <4>2. CASE i \in 1 .. n
        BY <1>1, <1>6, <2>1, <3>2, <4>2 DEF TurnInv, LeftIsRefused
      <4>3. QED
        BY <1>6, <4>1, <4>2
    <3>3. QED
      BY <1>6, <2>1, <3>1, <3>2 DEF LeftIsRefused
  <2>7. FallbackIsEarned'
    <3>1. \A i \in 1 .. Len(tried') - 1 :
            /\ tried'[i].result.type \in {"error", "timeout"}
            /\ tried'[i].result.type = "timeout" => ~tried'[i].said
      BY <1>6, <1>10
    <3>2. ASSUME NEW m \in resting'
          PROVE  \/ \E i \in 1 .. Len(tried') : tried'[i].model = m /\ tried'[i].result.eligible
                 \/ m \in Proxied /\ \E i \in 1 .. Len(tried') : tried'[i].result.refused
      <4>1. CASE m \in resting
        BY <1>6, <1>11, <4>1
      <4>2. CASE m = model
        BY <1>5, <1>6, <2>2, <4>2
      <4>3. QED
        BY <2>1, <3>2, <4>1, <4>2
    <3>3. QED
      BY <3>1, <3>2 DEF FallbackIsEarned
  <2>8. QED
    BY <1>8, <1>9, <2>5, <2>6, <2>7 DEF TurnInv
<1>14. QED
  BY <1>12, <1>13

-----------------------------------------------------------------------------
(* Theorems.                                                               *)

(* The inductive invariant holds in every reachable state.                 *)
LEMMA InvCorrect == Spec => []TurnInv
<1>1. TurnInv /\ [Next]_vars => TurnInv'
  <2> SUFFICES ASSUME TurnInv, [Next]_vars PROVE TurnInv'
    OBVIOUS
  <2>1. CASE UNCHANGED vars
    BY <2>1 DEF vars, TurnInv, Typed, AttemptsAreJudged, EarlierOnesFailed, StartsFresh,
       LeftIsRefused, EndsAreRecorded, CompletedIsWhole, RefusedProviderIsLeft,
       FallbackIsEarned, tried, model
  <2>2. QED
    BY <2>1, ReadersKeepInv, LoopKeepsInv, ChoicesKeepInv, CloseKeepsInv DEF Next, Runner
<1>2. QED
  BY InitInv, <1>1, PTL DEF Spec

(* Whatever races with the loop, a turn that completed was read to the end *)
(* of its pipes, without a failure in them, and left with exit code 0.     *)
THEOREM CompletedCorrect == Spec => []CompletedIsWhole
<1>1. TurnInv => CompletedIsWhole
  BY DEF TurnInv
<1>2. QED
  BY InvCorrect, <1>1, PTL

(* However long the chain, a provider that refused is not tried again.     *)
THEOREM RefusedCorrect == Spec => []RefusedProviderIsLeft
<1>1. TurnInv => RefusedProviderIsLeft
  BY DEF TurnInv
<1>2. QED
  BY InvCorrect, <1>1, PTL

(* However long the chain, the prompt moves on only after a failure or     *)
(* silence, and only models that failed so, or their provider, rest.       *)
THEOREM FallbackCorrect == Spec => []FallbackIsEarned
<1>1. TurnInv => FallbackIsEarned
  BY DEF TurnInv
<1>2. QED
  BY InvCorrect, <1>1, PTL
=============================================================================
