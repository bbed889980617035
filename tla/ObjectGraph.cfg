SPECIFICATION FairSpec
CONSTANTS
  Addr = {a1, a2, a3, a4}
  Session = {s1}
  MaxSlots = 3
  MaxItems = 1
  MaxCount = 2
  None = None
INVARIANT TypeOK
INVARIANT ReferencesAccounted
INVARIANT NoDangling
INVARIANT LocksFollowReferences
INVARIANT ArgumentsStayStrings
INVARIANT NoGarbage
INVARIANT ExitLeavesNothing
PROPERTY HeldListsFrozen
PROPERTY ExpireTerminates
CHECK_DEADLOCK FALSE
