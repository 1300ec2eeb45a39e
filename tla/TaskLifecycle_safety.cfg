SPECIFICATION Spec
CONSTANTS
  Tasks = {t1}
  Daemons = {d1, d2}
  NoTask = NoTask
  NoDaemon = NoDaemon
  Notified = {t1}
  MaxAttempts = 2
  MaxRequeues = 1
  MaxCrashes = 1
SYMMETRY DaemonSymmetry
INVARIANTS TypeOK RetryBudget RunningIsRecoverable
PROPERTIES ClaimsAreReleased ControlsAreHonoured ImplementsContract
