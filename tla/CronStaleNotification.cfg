SPECIFICATION Spec
CONSTANTS
  Program = {1, 2}
  Conn = {c1}
  MaxInstance = 2
  MaxFailures = 1
  Size = 2
  Garbage = FALSE
CHECK_DEADLOCK FALSE
INVARIANT ActiveHasFile
