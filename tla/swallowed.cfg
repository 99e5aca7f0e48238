SPECIFICATION SweepSpec
CONSTANTS
  r1 = r1
  Lanes = {r1}
  NewOnly = {r1}
  Unknown = Unknown
  Verdicts = {"allowed"}
  Workers = {"queue"}
  MaxPost = 2
  PageLength = 2
  MaxSwitches = 0
CHECK_DEADLOCK FALSE
PROPERTIES
  QueuedPostsArePublished
