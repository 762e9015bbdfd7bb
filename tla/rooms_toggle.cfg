SPECIFICATION Spec
CONSTANTS
  Room = {1}
  Profile <- Profiles
  Request = {q1, q2}
  Idle = Idle
  Free = Free
  Ops = {"toggle"}
  Edits <- NoEdits
  Blocked <- NoBlocks
  AtomicRequests = TRUE
  Concurrency = 2
  MaxRequests = 3
INVARIANT OneAdminRemains
CHECK_DEADLOCK FALSE
