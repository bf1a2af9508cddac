------------------------------ MODULE Backtest ------------------------------
(***************************************************************************)
(* The backtests: BacktestEngine of the Automos backtest/engine.js, and    *)
(* TickBacktest of the zBAutomos worker, run beside it on the same prices  *)
(* and signals.  Amounts are integers; a run whose prices, rates and       *)
(* starting balance let every division come out even computes what the     *)
(* code computes.  Rates are fractions <<numerator, denominator>>.  The    *)
(* first backtest passes over a candle without a price; TickBacktest does  *)
(* not ask, so its amounts can become Infinity or NotANumber.              *)
(***************************************************************************)
EXTENDS Integers, Sequences

CONSTANTS
  Start,         \* startingBalance
  FeeRate,       \* feeRate
  SlippageRate,  \* slippageRate
  Stops,         \* the [loss, profit] rates a run may have: stopLossPercent, takeProfitPercent
  Prices,        \* the prices of candles, none of them negative
  MaxCandles,    \* how many candles a run has
  Infinity,
  NotANumber     \* NaN

ASSUME BacktestAssumption ==
  /\ Start \in Nat \ {0}
  /\ \A rate \in {FeeRate, SlippageRate} :
       rate \in Nat \X Nat /\ rate[1] < rate[2]
  /\ Prices \subseteq Nat \cup {NotANumber} /\ MaxCandles \in Nat
  /\ Infinity \notin Nat /\ NotANumber \notin Nat /\ Infinity # NotANumber
  /\ \A s \in Stops : s.loss \in Nat \X Nat /\ s.profit \in Nat \X Nat

VARIABLES
  stops,     \* the rates of this run
  candles,   \* how many candles were taken
  account,   \* [balance, position, entry, trades]
  curve,     \* equityCurve, without index and time
  last,      \* the price of the last candle, as safeNumber has it
  tick,      \* [balance, position, price] of the TickBacktest, with its last price
  finished

backtestVars == <<stops, candles, account, curve, last, tick, finished>>

Of(rate, x) == (x * rate[1]) \div rate[2]
Less(rate, x) == (x * (rate[2] - rate[1])) \div rate[2]
More(rate, x) == (x * (rate[2] + rate[1])) \div rate[2]

(* safeNumber: 0 for a price that is no number.                            *)
SafeNumber(price) == IF price \in Nat THEN price ELSE 0

BacktestInit ==
  /\ stops \in Stops
  /\ candles = 0 /\ curve = <<>> /\ last = 0 /\ finished = FALSE
  /\ account = [balance |-> Start, position |-> 0, entry |-> 0, trades |-> <<>>]
  /\ tick = [balance |-> Start, position |-> 0, price |-> 0]

(* openPosition: all of the balance but the fee.                           *)
Opened(a, price) ==
  LET fee  == Of(FeeRate, a.balance)
      exec == More(SlippageRate, price)
  IN  [balance |-> 0, position |-> (a.balance - fee) \div exec, entry |-> exec,
       trades |-> Append(a.trades, [type |-> "BUY", price |-> exec, fee |-> fee,
                                    pnl |-> 0, reason |-> "signal"])]

(* Mutant: the fee of a sale is not taken from the balance.                *)
ClosedForFree(a, price, reason) ==
  LET exec == Less(SlippageRate, price)
      fee  == Of(FeeRate, a.position * exec)
  IN  [balance |-> a.position * exec, position |-> 0, entry |-> 0,
       trades |-> Append(a.trades, [type |-> "SELL", price |-> exec, fee |-> fee,
         pnl |-> (exec - a.entry) * a.position, reason |-> reason])]

(* closePosition.                                                          *)
Closed(a, price, reason) ==
  LET exec == Less(SlippageRate, price)
      fee  == Of(FeeRate, a.position * exec)
  IN  [balance |-> a.position * exec - fee, position |-> 0, entry |-> 0,
       trades |-> Append(a.trades, [type |-> "SELL", price |-> exec, fee |-> fee,
         pnl |-> (exec - a.entry) * a.position, reason |-> reason])]

Equity(a, price) == a.balance + a.position * price

ShouldStopLoss(a, price) ==
  stops.loss[1] > 0 /\ price * stops.loss[2] <= a.entry * (stops.loss[2] - stops.loss[1])

ShouldTakeProfit(a, price) ==
  stops.profit[1] > 0 /\ price * stops.profit[2] >= a.entry * (stops.profit[2] + stops.profit[1])

(* One pass of the loop of run: the signal, then the two stops, which can  *)
(* close a position in the candle that opened it.                          *)
AfterSignal(a, price, signal) ==
  IF signal = "BUY" /\ a.position = 0 /\ a.balance > 0 THEN Opened(a, price)
  ELSE IF signal = "SELL" /\ a.position > 0 THEN Closed(a, price, "signal")
  ELSE a

AfterStops(a, price) ==
  IF a.position > 0 /\ ShouldStopLoss(a, price) THEN Closed(a, price, "stop_loss")
  ELSE IF a.position > 0 /\ ShouldTakeProfit(a, price) THEN Closed(a, price, "take_profit")
  ELSE a

(* The arithmetic of TickBacktest: a product, a quotient, and what is more *)
(* than nothing, of amounts that may be no natural numbers.                *)
Times(x, price) ==
  IF x \in Nat /\ price \in Nat THEN x * price
  ELSE IF x = Infinity /\ price \in Nat \ {0} THEN Infinity ELSE NotANumber

Over(x, price) ==
  IF x \in Nat /\ price \in Nat \ {0} THEN x \div price
  ELSE IF x \in (Nat \ {0}) \cup {Infinity} /\ price \in Nat THEN Infinity ELSE NotANumber

IsPositive(x) == x \in (Nat \ {0}) \cup {Infinity}

(* One pass of the loop of TickBacktest; only its sales cost a fee.        *)
Sold(t, price) ==
  LET worth == Times(t.position, price)
  IN  [balance |-> IF worth \in Nat THEN Less(FeeRate, worth) ELSE worth,
       position |-> 0, price |-> price]

AfterTick(t, price, signal) ==
  IF signal = "BUY" /\ t.position = 0
  THEN [balance |-> 0, position |-> Over(t.balance, price), price |-> price]
  ELSE IF signal = "SELL" /\ IsPositive(t.position) THEN Sold(t, price)
  ELSE [t EXCEPT !.price = price]

(* A candle: the engine passes over one without a price, TickBacktest      *)
(* trades at whatever it is.                                               *)
Candle(price, signal) ==
  /\ ~finished /\ candles < MaxCandles
  /\ candles' = candles + 1
  /\ last' = SafeNumber(price)
  /\ tick' = AfterTick(tick, price, signal)
  /\ IF last' = 0 THEN UNCHANGED <<account, curve>>
     ELSE /\ account' = AfterStops(AfterSignal(account, price, signal), price)
          /\ curve' = Append(curve, Equity(account', price))
  /\ UNCHANGED <<stops, finished>>

(* After the loop: what is still open is sold at the last price, if the    *)
(* last candle has one, after the last point of the curve.                 *)
Finish ==
  /\ ~finished /\ candles > 0
  /\ finished' = TRUE
  /\ account' = IF account.position > 0 /\ last > 0 THEN Closed(account, last, "eod") ELSE account
  /\ tick' = IF IsPositive(tick.position) THEN Sold(tick, tick.price) ELSE tick
  /\ UNCHANGED <<stops, candles, curve, last>>

BacktestNext ==
  \/ \E price \in Prices, signal \in {"BUY", "SELL", "HOLD"} : Candle(price, signal)
  \/ Finish

BacktestSpec == BacktestInit /\ [][BacktestNext]_backtestVars

(* results: the last point of the curve, or the balance without one.       *)
EndingBalance == IF curve = <<>> THEN account.balance ELSE curve[Len(curve)]

(* calculateTradeStats: over the sales, by their profit.                   *)
Sales(trades) == {i \in DOMAIN trades : trades[i].type = "SELL"}
Winning(trades) == {i \in Sales(trades) : trades[i].pnl > 0}

(* metrics of trading/backtest.js: over the pairs of a purchase and the    *)
(* sale after it, by their prices.                                         *)
ClosedPairs(trades) ==
  {i \in 1 .. Len(trades) :
     i % 2 = 0 /\ trades[i - 1].type = "BUY" /\ trades[i].type = "SELL"}
Wins(trades) ==
  {i \in ClosedPairs(trades) : trades[i].price > trades[i - 1].price}

(* The profits of all sales without all fees.                              *)
Net(trades) ==
  LET sum[i \in 0 .. Len(trades)] ==
        IF i = 0 THEN 0 ELSE sum[i - 1] + trades[i].pnl - trades[i].fee
  IN  sum[Len(trades)]

(***************************************************************************)
(* The divisions of the next step come out even, whichever it is: what the *)
(* model computes is then what the code computes, and no amount is rounded *)
(* away.                                                                   *)
(***************************************************************************)
Even(rate, x) == (x * rate[1]) % rate[2] = 0

EvenOpening(a, price) ==
  /\ Even(SlippageRate, price) /\ Even(FeeRate, a.balance)
  /\ (a.balance - Of(FeeRate, a.balance)) % More(SlippageRate, price) = 0

EvenClosing(a, price) ==
  Even(SlippageRate, price) /\ Even(FeeRate, a.position * Less(SlippageRate, price))

EvenTick(t, price) ==
  /\ t.position = 0 /\ t.balance \in Nat => t.balance % price = 0
  /\ t.position \in Nat => Even(FeeRate, t.position * price)

AmountsAreEven ==
  /\ (~finished /\ candles < MaxCandles) =>
       \A price \in Prices \cap (Nat \ {0}), signal \in {"BUY", "SELL", "HOLD"} :
         /\ account.position = 0 => EvenOpening(account, price)
         /\ EvenClosing(AfterSignal(account, price, signal), price)
         /\ EvenTick(tick, price)
  /\ ~finished => /\ EvenClosing(account, last)
                  /\ IsPositive(tick.position) /\ tick.price \in Nat => EvenTick(tick, tick.price)

(* Every candle so far had a price.                                        *)
AllPriced == Len(curve) = candles

EndsWith(reason) == account.trades # <<>> /\ account.trades[Len(account.trades)].reason = reason

(***************************************************************************)
(* The books of a backtest balance: what it holds, at cost, is what it     *)
(* started with and the profits of its sales without all fees; it is       *)
(* either all in cash or all in a position; purchases and sales take       *)
(* turns, so that both statistics count the same trades and wins.  The     *)
(* ending balance it reports was taken before the last sale: it is never   *)
(* less than the balance, and the same unless a position was sold at the   *)
(* end.  If every candle had a price, TickBacktest ends with a sale too,   *)
(* and without stops, since it pays less, never ends lower.                *)
(***************************************************************************)
BooksBalance ==
  /\ account.balance + account.position * account.entry = Start + Net(account.trades)
  /\ (account.position > 0) = (account.balance = 0)
  /\ \A i \in DOMAIN account.trades : (account.trades[i].type = "BUY") = (i % 2 = 1)
  /\ ClosedPairs(account.trades) = Sales(account.trades)
  /\ Wins(account.trades) = Winning(account.trades)
  /\ finished /\ last > 0 =>
       /\ account.position = 0
       /\ EndingBalance >= account.balance
       /\ EndingBalance = account.balance \/ EndsWith("eod")
  /\ finished /\ AllPriced =>
       /\ tick.position = 0
       /\ stops.loss[1] = 0 /\ stops.profit[1] = 0 => tick.balance >= account.balance
=============================================================================
