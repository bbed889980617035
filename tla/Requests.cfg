SPECIFICATION FairSpec
CONSTANTS
  Request <- MCRequest
  HeaderSize = 2
  BufferSize = 4
  MaxSent = 2
  MaxCallbacks = 1
  MaxBurst = 1
INVARIANT Framed
PROPERTY ImplementsService
PROPERTY Reconnects
PROPERTY RequestsServed
