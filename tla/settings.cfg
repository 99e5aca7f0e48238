SPECIFICATION SettingsSpec
CONSTANTS
  node = node
  c1 = c1
  c2 = c2
  c3 = c3
  u1 = u1
  u2 = u2
  n1 = n1
  n2 = n2
  w1 = w1
  w2 = w2
  q1 = q1
  q2 = q2
  a1 = a1
  a2 = a2
  m1 = m1
  m2 = m2
  did1 = did1
  did2 = did2
  s1 = s1
  s2 = s2
  x1 = x1
  x2 = x2
  h1 = h1
  p1 = p1
  p2 = p2
  k1 = k1
  Callers = {c1, c2, c3}
  Processes = {node}
  ProcessOf <- OneServer
  Nobody = Nobody
  LegacySchema = TRUE
  MaxCrashes = 1
  MaxDamages = 1
  Users = {u1, u2}
  Names = {n1, n2}
  Secrets = {w1, w2}
  Unset = Unset
  Handlers = {q1, q2}
  MaxRevision = 3
  Accounts = {a1, a2}
  Mappings = {m1, m2}
  Sources = {s1, s2}
  Posts = {1}
  Dids = {did1, did2}
  SourceOf <- OneSource
  FirstDids <- OneAccount
  Absent = Absent
  Calls = {1}
  MaxSaves = 3
  MaxEvidence = 2
  XNames = {x1, x2}
  HookNames = {h1}
  People = {p1, p2}
  AppPasswords = {k1}
  None = None
  LegacyDocuments <- FirstDocuments
  ForeignDocuments <- OtherDocuments
  FirstFresh = 6
  MaxFresh = 9
CONSTRAINT FewAtOnce
SYMMETRY Alike
CHECK_DEADLOCK FALSE
INVARIANTS
  SettingsTypeOK
  AcceptedChangesStay
  SessionsFollowPasswords
  PostsAreMirroredOnce
PROPERTIES
  BackupOutlivesDamage
  KeepsTheLog
  OnlyNewValidationsLiftBlocks
  RoutesLeadWhereTheyDid
