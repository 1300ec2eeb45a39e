SPECIFICATION QueueSpec
CONSTANTS
  Tasks = {t1, t2}
  Daemons = {d1}
  NoTask = NoTask
  NoDaemon = NoDaemon
  Notified = {t1}
  MaxAttempts = 2
  MaxRequeues = 0
  MaxCrashes = 2
INVARIANTS OldestFirst
\* The only daemon may hang at a git command for good.
CHECK_DEADLOCK FALSE
