SPECIFICATION FairSpec
CONSTANTS
  Tasks = {t1}
  Daemons = {d1, d2}
  NoTask = NoTask
  NoDaemon = NoDaemon
  Notified = {t1}
  MaxAttempts = 2
  MaxRequeues = 0
  MaxCrashes = 1
PROPERTIES EveryTaskSettles
