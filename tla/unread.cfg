SPECIFICATION Spec
CONSTANTS
  Profile = {p1, p2}
  Room = {r1, r2}
  MsgId = {m1, m2}
  Request = {q1, q2}
  Unsent = Unsent
  Erased = Erased
  Idle = Idle
CONSTRAINT FewMarks
SYMMETRY Symmetry
INVARIANTS TypeOK UnreadExact UnreadNeverUndercounts
PROPERTY ImplementsBadge
CHECK_DEADLOCK FALSE
