SPECIFICATION SchedulerSpec
CONSTANTS
  p1 = p1
  p2 = p2
  d1 = d1
  d2 = d2
  Daemons = {p1}
  Destinations = {d1}
  Requests = {1}
  TargetOf <- Targets
  None = None
  Branches = 1
  MaxAttempts = 2
  Operators = {}
  Blockable = {}
  MaxEvents = 1
INVARIANTS
  AcceptedBackfillsAreKept
