CONSTANTS
  Tasks = {t1}
  NoTask = NoTask
  Workers = {w1, w2}
  Sweeper = Sweeper
  MaxAttempts = 2
  MaxRestarts = 1
SPECIFICATION FairSpec
INVARIANTS QueuedIsServed RunsArePaid DeletedIsGone SuccessIsTold
PROPERTY EveryTaskEnds
CHECK_DEADLOCK FALSE
