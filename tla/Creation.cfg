SPECIFICATION CreationSpec
CONSTANTS
  Addr = {a1, a2, a3}
  Session = {s1, s2, s3}
  MaxObjectId = 2
  MaxSessionId = 2
  MaxLifetime = 2
  Lifetimes = {0, 2, 3}
  MaxInternal = 1
  MaxLoose = 1
SYMMETRY Symmetry
CHECK_DEADLOCK FALSE
INVARIANT IdsUnique
INVARIANT TimerArmed
INVARIANT LivesWhileReferenced
INVARIANT NothingLost
INVARIANT ReleasedOnce
INVARIANT SuccessIsReal
 
