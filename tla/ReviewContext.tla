--------------------------- MODULE ReviewContext ---------------------------
(***************************************************************************)
(* What ContextBuilder makes of the diff under review (context.py,         *)
(* review_rules.py): the files that count as production, the figures the   *)
(* risk goes by, and the lines a finding may be anchored to.               *)
(*                                                                         *)
(* A file is [path, marks, triggers, lines, bytes]: what the patterns see  *)
(* in its path, the specialists whose words the path holds, its changed    *)
(* lines and the size of its part of the diff.                             *)
(***************************************************************************)
EXTENDS Naturals, FiniteSets, SequencesExt, FiniteSetsExt

CONSTANT ContextMaxBytes   \* Settings.review_v2_context_max_bytes

-----------------------------------------------------------------------------
(* Files.                                                                  *)

\* git puts a path with other than ASCII characters in quotes, which become
\* part of its suffix and file name: no such path is of a supported type.
Marks == {"test", "bloat", "unsupported", "quoted", "doc"}

skipped(f) == f.marks \cap {"test", "bloat", "unsupported", "quoted"} # {}
ignored(f) == skipped(f) \/ "doc" \in f.marks

\* write_text cuts a text that is too long, and reports what it wrote.
write_text(bytes) ==
  [bytes |-> IF ContextMaxBytes > 0 THEN Min({bytes, ContextMaxBytes}) ELSE bytes,
   truncated |-> ContextMaxBytes > 0 /\ bytes > ContextMaxBytes]

production_of(files) == {f \in files : ~ignored(f)}

_specialists_for_paths(files) == UNION {f.triggers : f \in files}

Context == [production: Nat, lines: Nat, bytes: Nat, truncated: BOOLEAN,
            triggers: SUBSET STRING]

\* The diff handed to the reviewers is that of the production files.
prepare(files) ==
  LET production == production_of(files)
      diff == write_text(MapThenSumSet(LAMBDA f : f.bytes, production)) IN
  [production |-> Cardinality(production),
   lines      |-> MapThenSumSet(LAMBDA f : f.lines, production),
   bytes      |-> diff.bytes,
   truncated  |-> diff.truncated,
   triggers   |-> _specialists_for_paths(production)]

-----------------------------------------------------------------------------
(* Changed lines.  A diff is a sequence of raw lines [kind, arg]: headers  *)
(* of files and hunks with the path and the first line they name, and the  *)
(* lines of hunks.  "removed--" and "added++" are lines of which the text  *)
(* begins with -- or ++, "no_newline" is the remark that a last line has   *)
(* no line end, and "quoted_file" the header of a file with a quoted path. *)

LineKinds == {"context", "added", "removed", "added++", "removed--", "no_newline"}
Ordinary == {"file", "hunk", "context", "added", "removed"}

NoFile == "none"

after_counting_removed(state, raw) ==
  CASE raw.kind = "file" -> [state EXCEPT !.file = raw.arg]
    [] raw.kind = "hunk" -> [state EXCEPT !.line = raw.arg]
    [] raw.kind = "added" /\ state.file # NoFile ->
         [state EXCEPT !.line = @ + 1, !.result = @ \cup {<<state.file, state.line>>}]
    [] OTHER -> [state EXCEPT !.line = @ + 1]

\* One round of the loop.  Whatever it does not know counts as a line.
after(state, raw) ==
  CASE raw.kind = "file" -> [state EXCEPT !.file = raw.arg]
    [] raw.kind = "hunk" -> [state EXCEPT !.line = raw.arg]
    [] raw.kind = "added" /\ state.file # NoFile ->
         [state EXCEPT !.line = @ + 1, !.result = @ \cup {<<state.file, state.line>>}]
    [] raw.kind = "removed" -> state
    [] OTHER -> [state EXCEPT !.line = @ + 1]

_changed_lines(diff) ==
  FoldLeft(after, [file |-> NoFile, line |-> 0, result |-> {}], diff).result

\* By definition: the place an added line has in the new file is the first
\* line of its hunk plus the lines of the new file before it in the hunk.
last(diff, kind, i) == Max({j \in 1 .. i : diff[j].kind = kind})

added_lines(diff) ==
  {<<diff[last(diff, "file", i)].arg,
     diff[last(diff, "hunk", i)].arg
       + Cardinality({j \in last(diff, "hunk", i) + 1 .. i - 1 :
                        diff[j].kind \in {"context", "added", "added++"}})>> :
     i \in {k \in DOMAIN diff : diff[k].kind \in {"added", "added++"}}}

ordinary(diff) == \A i \in DOMAIN diff : diff[i].kind \in Ordinary

\* git names the file and the hunk before it shows an added line.
RawLine == [kind : {"file"}, arg : STRING \ {NoFile}] \cup [kind : STRING \ {"file"}, arg : Nat]
by_git(diff) ==
  /\ diff \in Seq(RawLine)
  /\ \A i \in DOMAIN diff : diff[i].kind = "added" =>
       \A header \in {"file", "hunk"} : \E j \in 1 .. i : diff[j].kind = header
=============================================================================
