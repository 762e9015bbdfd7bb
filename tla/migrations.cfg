SPECIFICATION Spec
CONSTANTS
  Parts <- Documents
  User = {1, 2}
  None = None
  Bound <- MCBound
  Email = {e1, e2}
  Password = {p1, p2}
  Member = {1}
  Superuser = {}
  Interval = 1
  Delay = 1
  Slack = 1
  Lifetime <- MCLifetime
  MaxNow = 1
  MaxMail = 3
  Organization = {o1}
  Page = {g1}
  Holder = {2}
  Base = {a}
  Short = {}
  MaxSuffix = 2
  MaxProfile = 2
  MaxRequest = 2
  ProfileOf <- MCProfileOf
  Product = {d1}
  Card = {c1}
  Request = {r1, r2}
  MaxCustomers = 2
  MaxSubscriptions = 2
  m1 = m1
  m2 = m2
  Object = {a, b}
  RowId = {r1, r2}
  Adult = adult
  BaseType = {other}
  SubType = {porn}
  OwnType = {own}
  MaxSteps = 6
  Pks = {1, 2}
  Pages = {1}
  Model = {m1, m2}
  Documentable = {m1, m2}
  Autoincrement = {m1}
  LegacyPk = {m2}
  BatchSize = 1
  MaxPk <- MCMaxPk
  MaxUuid = 2
INVARIANTS TargetsKept FollowsKept IdsKeepNaming BackfillComplete
PROPERTY CountersCarried
CHECK_DEADLOCK FALSE
