SPECIFICATION Spec
CONSTANTS
  Daemons = {d1}
  NoDaemon = NoDaemon
  MaxAttempts = 2
  MaxCallbackAttempts = 3
  PostTries = 2
  MaxAcks = 0
  MaxRequeues = 2
  MaxCrashes = 2
INVARIANTS TypeOK AttemptsBounded DigestIsHeard ReviewReachesCI
