SPECIFICATION FairSpec
CONSTANTS
  Sinks = {s1, s2}
  Tasks = {t1, t2}
  NoTask = NoTask
  UsesOnce = FALSE
  Panics = FALSE
  MaxSnapshots = 3
INVARIANTS SingleCollect FlagHasOwner WritesSettled
PROPERTIES FeedSpec StopReturns RoundsContinue
CHECK_DEADLOCK FALSE
