SPECIFICATION Spec
CONSTANTS
  Daemons = {d1}
  NoDaemon = NoDaemon
  Findings = {f1, f2}
  Comments = {c1, c2, c3}
  MaxRequeues = 1
  MaxRestarts = 1
SYMMETRY FeedbackSymmetry
INVARIANTS TypeOK LastResolutionPasses
PROPERTIES NoFindingReopens
