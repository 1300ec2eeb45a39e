SPECIFICATION FairSpec
CONSTANTS
  Runs = {r1, r2}
  NoRun = NoRun
  Urls = {u1, u2}
  Branches = {main}
  MaxPushes = 1
  RetryTimes = 1
  FormatRetryTimes = 1
INVARIANTS
  ContextIsOfItsCommit
  OverruledOnlyByTheDiff
  ErrorsGiveNoVerdict
  SilenceIsAskedTwice
PROPERTY EveryRunEnds
CHECK_DEADLOCK FALSE
