SPECIFICATION MCSpec
CONSTANTS
  Parts = {"made", "shipped", "keys", "sign-ins", "views", "links", "videos", "reads", "rooms", "logs"}
  MaxSteps <- MCMaxSteps
  None = None
  Gone = Gone
  Secret = {s1, s2}
  Holder = {u1}
  EncryptionKey = {k1, k2}
  MaxEdits = 3
  Email = {ann, bob}
  Account = {google, github, apple, facebook}
  Gives <- MCGives
  Trusted = {google, facebook}
  Code = {c1, c2, c3, c4}
  Of <- MCOf
  MaxDeletes = 1
  Server = {1}
  Visitor = {u1}
  Role = {staff}
  Team = {team}
  View = {v1, v2}
  Base <- MCBase
  OwnMap <- MCOwnMap
  Strict = {v2}
  Exempt <- MCExempt
  OnlyWhitelisted = FALSE
  Call = {1}
  Check = Check
  MaxChanges = 2
  FullUrl = {h1, h2, f}
  Http = {h1, h2}
  Worker = {w1, w2}
  MaxLinks = 3
  MaxVideos = 3
  MaxRetries = 2
  MaxForms = 2
  Slot = {i1, i2, i3}
  Trim = TRUE
  Downloadable = TRUE
  User = {u1, u2}
  Superuser = {}
  Nobody = Nobody
  Profile = {p1, p2, p3}
  Owner <- MCOwner
  OwnProfile <- MCOwnProfile
  ReadRow = {r1}
  AnonymousReads = TRUE
  MaxWrites = 4
  Room = {group, pair}
  Group = {group}
  Founders <- MCFounders
  Updates <- MCUpdates
  MaxEvents = 5
  Uses <- MCUses
  Request = {q1, q2}
  MaxFields = 2
  MaxLogs = 2
  People = {ann, bob}
  ProfileOwner = ann
  Pk = {m1}
  Token = {i4}
  Absent = Absent
  Idle = Idle
  AtomicRequests = FALSE
  u1 = u1
  u2 = u2
  p1 = p1
  p2 = p2
  p3 = p3
  staff = staff
  team = team
  v1 = v1
  v2 = v2
  group = group
  pair = pair
  ann = ann
  bob = bob
  google = google
  github = github
  apple = apple
  facebook = facebook
  c1 = c1
  c2 = c2
  c3 = c3
  c4 = c4
  core = core
  mail = mail
  chat = chat
  wiki = wiki
  x1 = x1
  x2 = x2
  t1 = t1
  t2 = t2
  t3 = t3
  Key = {1, 2}
  Name = {1, 2}
  Model = {1, 2}
INVARIANTS StartConsistent CredentialsConsistent  ViewsConsistent
CONSTRAINT Unspoilt
VIEW view
SYMMETRY Symmetry
CHECK_DEADLOCK FALSE
