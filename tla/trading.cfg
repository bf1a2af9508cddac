CONSTANTS
  Offers <- AllOffers
  MinSpread = 5
  FeeBps = 300
  MaxLatency = 1
  MaxPosition = 2
  Cooldown = 2
  MaxTime = 2
  MaxQuotes = 5
  MaxCloses = 1
  Tasks = {t1, t2, t3, t4}
  NoTask = NoTask
  Hedges = {h1}
  Quantity = 3
  BatchSize = 2
  MaxTicks = 5
  Intervals = {1, 2}
  MaxRestarts = 1
  MaxBreaks = 1
  Start = 589824
  FeeRate <- Half
  SlippageRate <- Third
  Stops <- AllStops
  Prices = {0, 3, 6, 12, NaN}
  Infinity = Infinity
  NotANumber = NaN
  MaxCandles = 4
  Users = {u1, u2, u3}
  Bots = {b1}
  Referrals = {r1, r2, r3}
  Purchases = {p1, p2}
  NoOne = NoOne
  Venues <- AllVenues
  Books <- AllBooks
  Reference = 100
  MaxSlippage = 200
  Slices = 3
  MaxMoves = 2
  Numbers <- AllNumbers
  MaxSamples = 4
  Producers = {q1, q2, q3}
  PerProducer = 2
  Capacity = 2
  Garbage = Garbage
SPECIFICATION MCSpec
INVARIANTS NoDataRace PositionsAreHedged TasksInOrder HedgesNeverOvershoot TickLossIsBounded BooksBalance ReferralsArePaidOnce OrdersFollowQuotes CalculationsAgree
PROPERTIES ImplementsQueue RefusedOnlyWhenFull EverythingArrives QuoteIsDealtOnce TasksRun
CHECK_DEADLOCK FALSE
