SPECIFICATION FairSpec
CONSTANTS
  Program = {p1, p2, p3}
  Timeout = 3
  SearchInterval = 2
INVARIANT ObserversAreWaiting
INVARIANT NobodyForgotten
PROPERTY EverySchedulerStarts
