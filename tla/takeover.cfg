SPECIFICATION Spec
CONSTANTS
  p1 = p1
  p2 = p2
  d1 = d1
  d2 = d2
  r1 = r1
  r2 = r2
  Runtimes = {p1, p2}
  Destinations = {d1}
  Nobody = Nobody
  Former = Former
  Posts = {1}
  NormalizedPosts = {}
  CorruptPosts = {}
  Routes = {r1}
  RouteOf <- OneRoute
  DestinationOf <- ToOne
  NumChunks = 2
  Contents = {text}
  Stamps = {0, 1}
  None = None
  NoRoute = NoRoute
  ErrorKinds = {"failure"}
  LoginErrors = {"failure"}
  MaxAttempts = 2
  MaxBatch = 2
  Concurrency = 1
  Pausable = {}
  MaxRestarts = 1
  MaxStalls = 1
SYMMETRY Interchangeable
CONSTRAINT OneFault
INVARIANTS
  TypeOK
  OneRecordPerChunk
PROPERTIES
  PublishesThreads
  OnlyTheOwnerTouchesItsRows
