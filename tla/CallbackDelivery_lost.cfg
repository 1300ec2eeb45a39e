SPECIFICATION Spec
CONSTANTS
  Daemons = {d1}
  NoDaemon = NoDaemon
  MaxAttempts = 2
  MaxCallbackAttempts = 2
  PostTries = 2
  MaxAcks = 1
  MaxRequeues = 0
  MaxCrashes = 0
INVARIANTS ReviewReachesCI
