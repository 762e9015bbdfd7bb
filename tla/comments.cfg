SPECIFICATION Spec
CONSTANTS
  Target = {post, page}
  Request = {q1, q2}
  Root = Root
  NoRow = NoRow
  Idle = Idle
  Free = Free
  MaxPins = 1
  Concurrency = 2
  MaxComments = 3
  MaxRequests = 5
  MaxAdmin = 1
CONSTRAINT Bounded
SYMMETRY Interchangeable
INVARIANTS TypeOK CountsExact OnlyDeletedStale SerialThreads
CHECK_DEADLOCK FALSE
