CONSTANTS
  u1 = u1
  j1 = j1
  x1 = x1
  MaxLoss = 1
  MaxTrade = 5
  MaxErrors = 1
  Users = {u1, u2, u3}
  Jobs = {j1, j2}
  Markets <- AllMarkets
  Concurrency = 10
  MaxStalled = 1
  MaxFollows = 3
  Loops = {l1, l2}
  Windows <- AllWindows
  Grid <- AllCells
  MaxCrashes = 1
  Emails = {e1}
  Passwords = {p1, p2}
  Calls = {c1, c2, c3}
  ExpiresIn = 1
  MaxClock = 3
  MaxRoles = 2
  NoAccount = NoAccount
  Customers = {x1, x2}
  Sessions = {s1, s2}
  Deliveries = {d1, d2}
  MaxDbFailures = 2
  NoSession = NoSession
SPECIFICATION MCSpec
INVARIANTS RowsHaveOrders OncePerAttempt CopiesAreOfFollowers  AdminAccessExpires SubscriptionIsPaid
CHECK_DEADLOCK FALSE
PROPERTIES JobsEnd PaidIsActive
