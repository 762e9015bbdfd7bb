SPECIFICATION Spec
CONSTANTS
  Doc = {ann, bob, page}
  Profile = {ann, bob}
  Request = {q1, q2}
  Absent = Absent
  Idle = Idle
  Free = Free
  Concurrency = 2
  MaxToggles = 3
  MaxRecounts = 1
INVARIANTS TypedAndExact NeverOvercounts
PROPERTY TogglesEnd
CHECK_DEADLOCK FALSE
