SPECIFICATION Spec
CONSTANTS
  p1 = p1
  p2 = p2
  d1 = d1
  d2 = d2
  r1 = r1
  r2 = r2
  Runtimes = {p1}
  Destinations = {d1}
  Nobody = Nobody
  Former = Former
  Posts = {1, 2, 3}
  NormalizedPosts = {2}
  CorruptPosts = {3}
  Routes = {r1, r2}
  RouteOf <- TwoRoutes
  DestinationOf <- ToOne
  NumChunks = 1
  Contents = {text}
  Stamps = {0}
  None = None
  NoRoute = NoRoute
  ErrorKinds = {"failure"}
  LoginErrors = {}
  MaxAttempts = 2
  MaxBatch = 2
  Concurrency = 2
  Pausable = {d1}
  MaxRestarts = 0
  MaxStalls = 0
PROPERTIES
  ClaimsAreNotForgotten
