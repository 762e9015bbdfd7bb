SPECIFICATION Spec
CONSTANTS
  Room = {1}
  Profile <- Profiles
  Request = {q1}
  Idle = Idle
  Free = Free
  Ops = {"update", "add", "toggle", "send", "cleanup"}
  Edits <- SingleEdits
  Blocked <- OneBlock
  AtomicRequests = FALSE
  Concurrency = 1
  MaxRequests = 4
INVARIANTS TypedAndUnique CountExact LastMessageNewest
PROPERTY AdminKept
CHECK_DEADLOCK FALSE
