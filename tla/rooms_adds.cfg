SPECIFICATION AddsSpec
CONSTANTS
  Room = {1, 2}
  Profile <- Crowd
  Request = {q1, q2}
  Idle = Idle
  Free = Free
  Ops = {"add"}
  Edits <- NoEdits
  Blocked <- NoBlocks
  AtomicRequests = TRUE
  Concurrency = 2
  MaxRequests = 2
INVARIANT AddsExact
PROPERTY AddsEnd
CHECK_DEADLOCK FALSE
