SPECIFICATION MCSpec
CONSTANTS
  Views = {"leads", "stats"}
  AdminViews = {"stats"}
  Kinds = {"submit", "checkout"}
  MaxLoads = 1
  MaxActions = 1
  MaxOthers = 1
  MaxIncidents = 1
  v1 = v1
  n1 = n1
  Visitors = {v1, v2}
  Usernames = {n1, n2}
  Names = {"one", "One"}
  Slugs <- AllSlugs
  NoUsername = NoUsername
  MaxSignups = 3
  Replicas = {r1}
  Limit = 2
  Window = 3
  MaxTime = 6
  MaxAsks = 7
  MaxFailures = 3
INVARIANTS SuccessIsStored AccountsAreWhole
PROPERTIES MemoryIsExact RedisIsSafe FallbackIsBounded ChangeIsShown ButtonsComeBack
CHECK_DEADLOCK FALSE
