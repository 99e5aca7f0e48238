SPECIFICATION GovernorSpec
CONSTANTS
  k1 = k1
  k2 = k2
  k3 = k3
  Fetchers = {k1, k2, k3}
  MinGap = 2
  Jitter = 1
  MaxRequestsPerWindow = 2
  Window = 5
  CooldownBase = 1
  CooldownMax = 3
  MaxTime = 8
CHECK_DEADLOCK FALSE
PROPERTY
  RequestsStopDuringCooldown
