------------------------------ MODULE MCTrading -----------------------------
(***************************************************************************)
(* Instances of the trading tools and the ring for TLC.  They share        *)
(* nothing, so a behaviour exercises one of them.                          *)
(***************************************************************************)
EXTENDS LatencyArb, TaskQueue, AtomicHedge, TickPipeline, Backtest, Ledgers, Routing,
        Analytics, MpscRing, TLC

VARIABLE part

(* A cheap and a dear book.                                                *)
AllOffers == {[bid |-> 100, ask |-> 101], [bid |-> 109, ask |-> 110]}

(* Rates and prices whose divisions come out even, which MCNext asserts: a *)
(* purchase at 3 is executed at 4, a sale at 2.                            *)
Half == <<1, 2>>
Third == <<1, 3>>
AllStops == {[loss |-> <<0, 1>>, profit |-> <<0, 1>>], [loss |-> <<1, 4>>, profit |-> <<1, 4>>]}

AllVenues == <<"first", "second", "third">>
AllBooks == {[bid |-> 99, ask |-> 100], [bid |-> 100, ask |-> 101], [bid |-> 104, ask |-> 106]}

AllNumbers == -2 .. 3

mcVars == <<arbVars, taskVars, hedgeVars, tickVars, backtestVars, ledgerVars, routingVars,
            sample, vars, part>>

(* A part that is not exercised starts in one state only.                  *)
MCInit ==
  /\ part \in {"arb", "tasks", "hedges", "ticks", "backtest", "referrals", "market",
              "routing", "analytics", "ring"}
  /\ ArbInit /\ TaskInit /\ HedgeInit /\ TickInit /\ BacktestInit /\ LedgerInit
  /\ Init
  /\ IF part = "routing" THEN RoutingInit
     ELSE /\ router = "smart" /\ side = "buy" /\ books = [v \in DOMAIN Venues |-> 0]
          /\ moves = 0 /\ seen = <<>> /\ best = 0 /\ sent = <<>> /\ thrown = FALSE
  /\ IF part = "analytics" THEN AnalyticsInit ELSE sample = <<>>
  /\ part # "backtest" => stops.loss[1] = 0

(* Quotes come when all sockets are open, or one of them has closed: okx.  *)
ArbBounds ==
  /\ received' > received => closes > 0 \/ connected = Exchanges
  /\ closes' > closes => "okx" \notin connected'

(* Intervals differ in nothing, so they may as well read in their order;   *)
(* either the storage dies or a connection breaks.                         *)
TickBounds ==
  /\ \A i, j \in Intervals : j < i /\ pc[i] = "new" /\ pc'[i] # "new" => pc[j] # "new"
  /\ restarts' + breaks' <= 1

Idle(p, state) == IF part = p THEN TRUE ELSE UNCHANGED state

MCNext ==
  /\ UNCHANGED <<sample, part>>
  /\ Idle("arb", arbVars) /\ Idle("tasks", taskVars) /\ Idle("hedges", hedgeVars)
  /\ Idle("ticks", tickVars) /\ Idle("backtest", backtestVars)
  /\ Idle(IF part = "market" THEN part ELSE "referrals", ledgerVars) /\ Idle("routing", routingVars)
  /\ Idle("ring", vars)
  /\ \/ part = "arb" /\ ArbNext /\ ArbBounds
     \/ part = "tasks" /\ TaskNext
     \/ part = "hedges" /\ HedgeNext
     \/ part = "ticks" /\ TickNext /\ TickBounds
     \/ part = "backtest" /\ Assert(AmountsAreEven, "an amount is rounded") /\ BacktestNext
     \/ part = "referrals" /\ ReferralNext
     \/ part = "market" /\ PurchaseNext
     \/ part = "routing" /\ RoutingNext
     \/ part = "ring" /\ Next

(* FairSpec, where the ring is exercised.                                  *)
RingFairness ==
  /\ WF_vars(part = "ring" /\ ConsumerStep)
  /\ \A p \in Producers : WF_vars(part = "ring" /\ ProducerStep(p))
  /\ SF_vars(part = "ring" /\ \E p \in Producers : Reserve(p))

MCSpec == MCInit /\ [][MCNext]_mcVars /\ TaskFairness /\ RingFairness
=============================================================================
