SPECIFICATION Spec
CONSTANTS
  ann = ann
  bob = bob
  p1 = p1
  p2 = p2
  User = {ann, bob}
  Staff = {}
  Profile = {p1, p2}
  Manages <- MCManages
  Current <- MCCurrent
  Value = {"first", "second"}
  Worth <- MCWorth
  Request = {q1, q2}
  Before <- MCBefore
  Enabled = {p1}
  None = None
  MaxStarts = 2
INVARIANTS RecountsSettle CalmIsExact ChoicesKept
PROPERTY RequestsEnd
CHECK_DEADLOCK FALSE
