SPECIFICATION FairSpec
CONSTANTS
  m1 = m1
  m2 = m2
  m3 = m3
  Chain <- MCChain
  Proxied <- MCProxied
  Base = 2
  Active = 3
  Silent = 1
INVARIANTS CompletedIsWhole RefusedProviderIsLeft FallbackIsEarned
PROPERTY EveryTurnEnds
