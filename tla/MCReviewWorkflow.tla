-------------------------- MODULE MCReviewWorkflow --------------------------
(* TLC instances of ReviewWorkflow: changes of each risk, findings of which *)
(* two are duplicates and one has too little confidence, and diffs.        *)
EXTENDS ReviewWorkflow

file == [path |-> 1, marks |-> {}, triggers |-> {}, lines |-> 10, bytes |-> 900]
secure == [file EXCEPT !.path = 2, !.triggers = {"security"}]

MCChanges == {
  {[file EXCEPT !.marks = {"doc"}], [secure EXCEPT !.marks = {"test"}]},
  {file, [secure EXCEPT !.marks = {"quoted"}]},
  {file, [file EXCEPT !.path = 3, !.lines = 111]},
  {file, secure},
  {file, [file EXCEPT !.path = 4, !.bytes = 900001]}}

weak == [id |-> "fnd_1", key |-> "k1", source |-> "correctness", rank |-> 3,
         confidence |-> 5, complete |-> TRUE, anchor |-> "changed", test |-> FALSE]

MCCandidates == {
  weak,
  [weak EXCEPT !.id = "fnd_2", !.source = "security", !.rank = 4, !.anchor = "elsewhere"],
  [weak EXCEPT !.id = "fnd_3", !.key = "k2", !.source = "security", !.confidence = 2]}

MCSpecialists == <<"security", "performance">>

\* Two files, each with a hunk, and possibly a second one in the first file.
Raw == [kind : LineKinds, arg : {0}] \cup {[kind |-> "hunk", arg |-> 9]}
MCDiffs == {<<[kind |-> "file", arg |-> "a"], [kind |-> "hunk", arg |-> 3]>> \o first
            \o <<[kind |-> "file", arg |-> "b"], [kind |-> "hunk", arg |-> 1]>> \o second :
              first \in UNION {[1 .. n -> Raw] : n \in 0 .. 3},
              second \in UNION {[1 .. n -> Raw] : n \in 0 .. 2}}
=============================================================================
