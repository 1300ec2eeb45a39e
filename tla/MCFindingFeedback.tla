------------------------- MODULE MCFindingFeedback -------------------------
(* TLC instances of FindingFeedback.  Findings are interchangeable, and so *)
(* are comments.                                                           *)
EXTENDS FindingFeedback, TLC

FeedbackSymmetry == Permutations(Findings) \cup Permutations(Comments)
=============================================================================
