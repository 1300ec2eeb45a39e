-------------------------- MODULE MCLegacyFeedback --------------------------
EXTENDS LegacyFeedback, TLC

\* The fix threads take any job of the one queue; no property tells them apart.
Symmetry == Permutations(Fixers)
=============================================================================
