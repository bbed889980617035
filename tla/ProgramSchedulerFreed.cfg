SPECIFICATION Spec
CONSTANTS
  Process = {p1, p2}
  PipeSize = 2
  None = None
CHECK_DEADLOCK FALSE
INVARIANT SchedulerOutlivesReports
