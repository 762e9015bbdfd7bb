SPECIFICATION Spec
CONSTANTS
  a = a
  b = b
  c = c
  None = None
  Request = {q1, q2}
  MaxSteps <- MCMaxSteps
  Profile = {a, b, c}
  UserOf <- MCUserOf
  Text = {t1, t2}
  Gone = Gone
  Creations <- MCCreations
  SystemMessages = TRUE
  MaxRooms = 2
  MaxMessages = 2
  Target = {d1}
  MaxCalls = 3
  v = v
  AllVerbs = w
  Verb = {v, w}
  e1 = e1
  e2 = e2
  Event = {e1, e2}
  Chat = {e2}
  VerbOf <- MCVerbOf
  Client = {c1, c2}
  MaxRows = 3
  MaxToggles = 3
INVARIANTS MessagesConsistent MentionsConsistent NoticesConsistent
VIEW view
SYMMETRY Symmetry
CHECK_DEADLOCK FALSE
