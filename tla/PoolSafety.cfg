SPECIFICATION FairSpec
CONSTANTS
  u1 = u1
  u2 = u2
  None = None
  Users <- TwoUsers
  NumWorkers = 3
  BufferSize = 1
  MaxHeld = 1
  Requests <- AllRequests
  Interrupts = TRUE
INVARIANTS TypeOK OnePlace NoneLost CallsNest Exchange
PROPERTY ShutdownEnds
CHECK_DEADLOCK FALSE
