SPECIFICATION Spec
CONSTANTS
  Char = {a, sp}
  Space = sp
  Nul = nul
  Junk = junk
  MaxLength = 5
  MaxChunk = 2
  Unit = 4
  MaxLocks = 2
INVARIANT Terminated
