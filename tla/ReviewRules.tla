---------------------------- MODULE ReviewRules ----------------------------
(***************************************************************************)
(* The deterministic rules around the models of a v2 review: which risk a  *)
(* change has and who must review it (risk.py, guards.py), and what        *)
(* becomes of the findings a judge reports (judge.py, workflow.py).        *)
(*                                                                         *)
(* A change is the [production, lines, bytes, truncated, triggers] that    *)
(* ReviewContext prepares; a candidate is [id, key, source, rank,          *)
(* confidence, complete, anchor, test]: its finding_id, what duplicates    *)
(* share, who found it, the rank of its severity, its confidence in        *)
(* tenths, whether title, detail and file are there, where its line is,    *)
(* and whether it lies in a test.                                          *)
(***************************************************************************)
EXTENDS Naturals, SequencesExt

CONSTANT FULL_CI_REVIEWERS   \* the specialists, in their order of priority

Specialists == ToSet(FULL_CI_REVIEWERS)

ASSUME RulesAssumption ==
  /\ FULL_CI_REVIEWERS \in Seq(STRING) /\ IsInjective(FULL_CI_REVIEWERS)
  /\ Specialists \cap {"correctness", "correctness_light", "cr_judge"} = {}

-----------------------------------------------------------------------------
(* Risk, reviewer plan and guard.                                          *)

is_full(c) ==
  \/ c.truncated
  \/ c.production > 30 \/ c.lines > 800 \/ c.bytes > 500 * 1024
  \/ c.triggers # {}

is_light(c) == c.production <= 5 /\ c.lines <= 120 /\ c.bytes <= 80 * 1024

\* A trigger makes the tier full, so a standard change has no specialists.
classify_risk(c) ==
  CASE c.production = 0 -> "skipped"
    [] c.production > 0 /\ is_full(c) -> "full"
    [] c.production > 0 /\ ~is_full(c) /\ is_light(c) -> "light"
    [] OTHER -> "standard"

\* Everyone in a plan is required.
plan_reviewers(c) ==
  CASE classify_risk(c) = "skipped" -> <<>>
    [] classify_risk(c) = "light" -> <<"correctness_light">>
    [] classify_risk(c) = "standard" -> <<"correctness">>
    [] OTHER -> <<"correctness">> \o FULL_CI_REVIEWERS

prepare_review_guard(c) ==
  CASE classify_risk(c) = "skipped" -> "skipped"
    [] c.production > 0 /\ c.truncated -> "context_too_large"
    [] OTHER -> "review"

-----------------------------------------------------------------------------
(* The judge's report.                                                     *)

Anchors == {"none", "changed", "unchanged", "elsewhere"}

\* A line outside the changed lines of a changed file is no evidence; a
\* file the change does not touch is not looked up.
admissible(c) ==
  /\ c.complete
  /\ c.confidence >= 3
  /\ c.anchor # "unchanged"
  /\ ~c.test

\* Findings are grouped by their source, in the order of its first finding: a
\* group stands at the place of that one, as the set of its places.
_judge_payload_to_reviewer_outputs(report) ==
  [i \in DOMAIN report |->
     {j \in DOMAIN report : /\ report[j].source = report[i].source
                            /\ \A k \in 1 .. i - 1 : report[k].source # report[i].source}]

stronger(c, d) ==
  \/ c.rank > d.rank
  \/ c.rank = d.rank /\ c.confidence > d.confidence

_pick_weaker(left, right) == IF stronger(left, right) THEN right ELSE left

_pick_stronger(left, right) == IF stronger(right, left) THEN right ELSE left

\* One finding per key, the first of the strongest.
merge(accepted, c) ==
  LET same == {d \in accepted : d.key = c.key} IN
  (accepted \ same) \cup (IF same = {} THEN {c} ELSE {_pick_stronger(d, c) : d \in same})

accept(accepted, c) == IF admissible(c) THEN merge(accepted, c) ELSE accepted

\* The findings of one group, in their order.
collect(accepted, report, group) ==
  MapThenFoldSet(LAMBDA c, sofar : accept(sofar, c), accepted,
                 LAMBDA i : report[i], LAMBDA places : Max(places), group)

normalize(report) ==
  FoldLeft(LAMBDA accepted, group : collect(accepted, report, group), {},
           _judge_payload_to_reviewer_outputs(report))
=============================================================================
