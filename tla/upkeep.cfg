SPECIFICATION UpkeepSpec
CONSTANTS
  p1 = p1
  p2 = p2
  d1 = d1
  r1 = r1
  t1 = t1
  e1 = e1
  e2 = e2
  e3 = e3
  g1 = g1
  y1 = y1
  y2 = y2
  z1 = z1
  Tweets = {t1}
  NoTweet = NoTweet
  MaxVersion = 2
  MaxJobs = 2
  MaxMirrorEvents = 1
  Runtimes = {p1, p2}
  Destinations = {d1}
  Nobody = Nobody
  Former = Former
  Routes = {r1}
  DestinationOf <- ToOne
  Entries = {1, 2}
  RouteOf <- OneRoute
  SnapshotOf <- OnePolicy
  MaxEntries = 2
  RenderLimit = 2
  NumChunks = 2
  Operators = {"publish", "reschedule", "retry", "cancel", "deleteRoute"}
  MaxAttempts = 2
  MaxRuns = 2
  MaxOperations = 1
  MaxFaults = 1
  Credentials = {g1}
  Gone = Gone
  MaxPosts = 1
  MaxRestores = 2
  MaxBackups = 1
  MaxBreaks = 2
  Keys = {e1, e2, e3}
  Plain = Plain
  Signers = {g1}
  Nothing = Nothing
  MaxSlips = 2
  Updaters = {y1, y2}
  Edits = {z1}
  Off = Off
  MaxReleases = 1
  MaxLaunches = 3
  MaxWrites = 1
  MaxStashes = 2
  MaxTroubles = 1
SYMMETRY Interchangeable
INVARIANTS
  UpkeepTypeOK
  EntriesArePublishedOnce
  RecordsMatchTheProfile
  NothingElseIsLost
  RevokedCredentialsStayRevoked
  NoKeyIsBuried
  OneUpdateAtATime
  EditsAreKept
PROPERTIES
  ForgottenPostsAreGone
  ConfigurationIsNotAhead
CHECK_DEADLOCK FALSE
