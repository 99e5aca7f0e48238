SPECIFICATION IntakeSpec
CONSTANTS
  p1 = p1
  p2 = p2
  d1 = d1
  k1 = k1
  k2 = k2
  r1 = r1
  i1 = i1
  i2 = i2
  x1 = x1
  x2 = x2
  key1 = key1
  key2 = key2
  h1 = h1
  h2 = h2
  h3 = h3
  Handles = {h1, h2, h3}
  Slots = {1, 2}
  Absent = Absent
  MaxEdits = 2
  Polls = {1, 2}
  MaxNews = 2
  Daemons = {p1, p2}
  Destinations = {d1}
  Requests = {1}
  TargetOf <- OneTarget
  None = None
  Branches = 1
  MaxAttempts = 2
  Operators = {"cancel", "clearAll", "runNow", "pause", "remove", "schedule"}
  Blockable = {d1}
  MaxEvents = 1
  Fetchers = {k1, k2}
  MinGap = 2
  Jitter = 1
  MaxRequestsPerWindow = 2
  Window = 5
  CooldownBase = 1
  CooldownMax = 3
  MaxTime = 8
  Lanes = {r1}
  NewOnly = {r1}
  Unknown = Unknown
  Verdicts = {"allowed", "skipped"}
  Workers = {"queue", "digest"}
  MaxPost = 3
  PageLength = 2
  MaxSwitches = 1
  NumSources = 3
  Budget = 1
  MinInterval = 1
  MaxInterval = 2
  Spread = 0
  MaxDoublings = 1
  Fixed = {3}
  FixedInterval = 2
  MaxClock = 3
  MaxChanges = 1
  Inlets = {i1, i2}
  DigestInlets = {i2}
  Suppressing = {i2}
  Submissions = {x1, x2}
  ContentOf <- SameContent
  Keys = {key1, key2}
  Vacant = Vacant
  MaxIngestFaults = 2
  MaxPhotos = 1
  MaxVideos = 1
  ImageSlots = 2
  PostLimit = 2
  MaxBody = 1
  Letter = Letter
  Mark = Mark
  Blank = Blank
  Newline = Newline
  ChunkLimit = 5
  Numbering = 2
  Frame = 0
  Steps = {3}
  MaxLength = 6
CONSTRAINT FewEdits
CHECK_DEADLOCK FALSE
INVARIANTS
  IntakeTypeOK
  OneImportAtATime
  OldPostsStayOut
  PostsArriveOnce
  DueSourcesGetTheirTurn
  ContentArrivesOnce
  NothingIsCutOff
  ChunksKeepTheText
PROPERTIES
  RequestsAreSpaced
  SourcesGoOnlyWhenAsked
  SavesBuildOnWhatWasShown
  ListsKeepUp
