SPECIFICATION FairSchedulerSpec
CONSTANTS
  p1 = p1
  p2 = p2
  d1 = d1
  d2 = d2
  Daemons = {p1}
  Destinations = {d1}
  Requests = {1}
  TargetOf <- Targets
  None = None
  Branches = 1
  MaxAttempts = 2
  Operators = {"cancel", "clearAll", "runNow", "pause", "remove", "schedule"}
  Blockable = {d1}
  MaxEvents = 1
PROPERTIES
  SourceIngestionContinues
