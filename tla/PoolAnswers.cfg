SPECIFICATION FairSpec
CONSTANTS
  u1 = u1
  u2 = u2
  None = None
  Users <- OneUser
  NumWorkers = 3
  BufferSize = 1
  MaxHeld = 1
  Requests <- AllRequests
  Interrupts = FALSE
INVARIANT WorkerLeft
PROPERTY RequestsAnswered
