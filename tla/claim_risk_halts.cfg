CONSTANTS
  MaxLoss = 1
  MaxTrade = 5
  MaxErrors = 0
  u1 = u1
  j1 = j1
  x1 = x1
  Users = {u1, u2}
  Jobs = {j1}
  Markets <- AllMarkets
  Concurrency = 10
  MaxStalled = 1
  MaxFollows = 1
  Loops = {l1}
  Windows <- AllWindows
  Grid <- AllCells
  MaxCrashes = 0
  Emails = {e1}
  Passwords = {p1}
  Calls = {}
  ExpiresIn = 1
  MaxClock = 0
  MaxRoles = 0
  NoAccount = NoAccount
  Customers = {x1}
  Sessions = {}
  Deliveries = {}
  MaxDbFailures = 0
  NoSession = NoSession
SPECIFICATION MCSpec
PROPERTIES JobsHaltAtTheLimit
CHECK_DEADLOCK FALSE
