SPECIFICATION FairSpec
CONSTANTS
  p1 = p1
  p2 = p2
  d1 = d1
  d2 = d2
  r1 = r1
  r2 = r2
  Runtimes = {p1, p2}
  Destinations = {d1}
  Nobody = Nobody
  Former = Former
  Posts = {1}
  NormalizedPosts = {}
  CorruptPosts = {}
  Routes = {r1}
  RouteOf <- OneRoute
  DestinationOf <- ToOne
  NumChunks = 2
  Contents = {text, other}
  Stamps = {0}
  None = None
  NoRoute = NoRoute
  ErrorKinds = {"failure", "namedRateLimit"}
  LoginErrors = {}
  MaxAttempts = 2
  MaxBatch = 2
  Concurrency = 1
  Pausable = {}
  MaxRestarts = 1
  MaxStalls = 0
INVARIANTS
  ThreadsHaveOneRendering
PROPERTIES
  EveryRowSettles
