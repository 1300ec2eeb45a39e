SPECIFICATION FairSpec
CONSTANTS
  Daemons = {d1, d2}
  NoDaemon = NoDaemon
  MaxAttempts = 2
  MaxCallbackAttempts = 2
  PostTries = 1
  MaxAcks = 1
  MaxRequeues = 0
  MaxCrashes = 1
PROPERTIES EveryCallbackSettles
