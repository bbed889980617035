SPECIFICATION FileSpec
CONSTANTS
  MaxSize = 4
  MaxRead = 2
  Lengths = {0, 3}
CHECK_DEADLOCK FALSE
INVARIANT EndOfFileIsTold
