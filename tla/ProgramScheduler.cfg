SPECIFICATION FairSpec
CONSTANTS
  Process = {p1, p2}
  PipeSize = 2
  None = None
CHECK_DEADLOCK FALSE
INVARIANT AtMostOneChild
INVARIANT OnlyLastReports
INVARIANT StoppedIsDetached
INVARIANT RunningIsTriggered
PROPERTY ShutdownIsFinal
PROPERTY AlwaysRespawns
