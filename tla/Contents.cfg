SPECIFICATION ContentsSpec
CONSTANTS
  Char = {a, sp}
  Space = sp
  Nul = nul
  Junk = junk
  MaxLength = 7
  MaxChunk = 2
  Unit = 4
  MaxLocks = 2
  MaxSize = 4
  MaxRead = 2
  Lengths = {0, 3}
CHECK_DEADLOCK FALSE
INVARIANT AsyncReadIsIntact
INVARIANT SourcesMatch
PROPERTY TerminatorKept
PROPERTY ImplementsValue
PROPERTY AsyncReadEnds
