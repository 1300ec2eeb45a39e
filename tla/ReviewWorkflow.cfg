SPECIFICATION Spec
CONSTANTS
  Daemons = {d1}
  NoDaemon = NoDaemon
  ContextMaxBytes = 900000
  FULL_CI_REVIEWERS <- MCSpecialists
  Changes <- MCChanges
  Diffs <- MCDiffs
  Candidates <- MCCandidates
  MaxReported = 3
  Concurrency = 2
  MaxAttempts = 2
  MaxRequests = 2
  MaxCrashes = 1
INVARIANTS VerdictIsBacked ControlEndsTheRun StoppedIsSettled StrongestIsKept RejectionCanBeAnswered ChangedLinesAreAdded
CHECK_DEADLOCK FALSE
