--------------------------- MODULE OpencodeOutput ---------------------------
(***************************************************************************)
(* What the legacy runner makes of the stdout of an opencode process       *)
(* (core/opencode_runner.py): a JSON object, an event stream that carries  *)
(* one, an answer that another prompt may repair, or a broken stream.      *)
(***************************************************************************)

\* What a text holds; opencode keeps its own copy of the texts of a session
\* in a database, which may hold more than the process printed.
Text == {"none", "prose", "object"}

\* form: nothing at all, one JSON object, a JSON value that is none, lines of
\* JSON events, or other text.  error: an error event is the object or a line
\* of its own, or it is inside an array or other text.
Output == [form: {"blank", "value", "array", "events", "plain"},
           error: {"none", "event", "nested"},
           text: Text,         \* what the text parts hold together
           database: Text,     \* what the database holds for its sessions
           valid: BOOLEAN]     \* the object has the fields of a result

Parsed == {"result", "repairable", "unrepairable"}

\* Only an object is looked at, and only its type.
_raise_for_opencode_error_event(o) == o.error = "event" /\ o.form \in {"value", "events"}

\* Text parts printed, else those of the database.
final_text(o) == IF o.text = "none" THEN o.database ELSE o.text

\* No final text anywhere cannot be repaired; a final text without an object
\* is looked up once more in the database.
_parse_event_stream(o) ==
  IF final_text(o) = "none" THEN "unrepairable"
  ELSE IF "object" \in {final_text(o), o.database} THEN "object" ELSE "repairable"

_extract_json_object(text) == IF text = "object" THEN "object" ELSE "repairable"

\* pydantic's refusal of an object counts as a text that may be repaired.
validated(found, o) ==
  IF found # "object" THEN found
  ELSE IF o.valid THEN "result" ELSE "repairable"

_parse_output_repairs_errors(o) ==
  IF _raise_for_opencode_error_event(o) THEN "repairable"
  ELSE IF o.form = "events" THEN validated(_parse_event_stream(o), o)
  ELSE "repairable"

_parse_output(o) ==
  CASE o.form \in {"blank", "array"} -> "repairable"
    [] _raise_for_opencode_error_event(o) -> "unrepairable"
    [] o.form = "events" /\ ~_raise_for_opencode_error_event(o) -> validated(_parse_event_stream(o), o)
    [] o.form = "plain" -> validated(_extract_json_object(o.text), o)
    [] OTHER -> validated("object", o)

\* What an answer can be for the review: its parse, and whether it reports an
\* error the runner looks for.
Answers == {[parsed |-> _parse_output(o), error |-> _raise_for_opencode_error_event(o)] :
              o \in Output}

-----------------------------------------------------------------------------
(* The answers of the feedback and fix prompts are parsed without repair.  *)

\* An object, or an error; its fields are checked by the caller.
_parse_feedback_output(o) ==
  IF \/ o.form \in {"blank", "array", "plain"}
     \/ o.form = "events" /\ (_raise_for_opencode_error_event(o) \/ _parse_event_stream(o) # "object")
  THEN "error" ELSE "object"

\* Whatever was printed counts as the summary of a fix, an error event too.
_parse_fix_apply_output(o) == IF o.form = "blank" THEN "error" ELSE "summary"

FeedbackAnswers == {IF _parse_feedback_output(o) = "object" /\ o.valid
                    THEN "answer" ELSE "error" : o \in Output}
FixSummaries == {_parse_fix_apply_output(o) : o \in Output}
=============================================================================
