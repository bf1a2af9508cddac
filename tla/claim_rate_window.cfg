CONSTANTS
  Replicas = {r1}
  Limit = 2
  Window = 3
  MaxTime = 8
  MaxAsks = 7
  MaxFailures = 0
SPECIFICATION RateSpec
PROPERTIES DeniedOnlyOverRate
CHECK_DEADLOCK FALSE
