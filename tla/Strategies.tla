----------------------------- MODULE Strategies -----------------------------
(***************************************************************************)
(* The signals of the Automos strategies: pure functions of a candle       *)
(* [price, rsi, macd] and of the state [position, entry] of their caller.  *)
(* Prices are integers, in units small enough for the percentages.         *)
(***************************************************************************)
EXTENDS Integers, FiniteSets

Signals == {"BUY", "SELL", "HOLD"}

Flat == [position |-> 0, entry |-> 0]

(* A signal from the condition to sell first, then to buy, then to sell.   *)
Choice(exit, buy, sell) ==
  IF exit THEN "SELL" ELSE IF buy THEN "BUY" ELSE IF sell THEN "SELL" ELSE "HOLD"

(* strategy of advanced.js: it leaves at a loss of 3 % or a gain of 5 %.   *)
Advanced(c, st) ==
  LET held == st.position > 0 /\ st.entry > 0
      left == 100 * c.price <= 97 * st.entry \/ 100 * c.price >= 105 * st.entry
  IN  IF c.price <= 0 THEN "HOLD"
      ELSE Choice(held /\ left, c.rsi < 30 /\ c.macd > 0, c.rsi > 70 /\ c.macd < 0)

StopsOut(c, st) == st.position > 0 /\ 100 * c.price < 97 * st.entry

(* candidateStrategy of tuner.js, for one cell of its grid.                *)
Candidate(c, st, low, high) ==
  Choice(StopsOut(c, st), c.rsi < low, c.rsi > high)

(* buildParameterizedStrategy: the best cell, with the MACD asked as well. *)
Tuned(c, st, low, high) ==
  Choice(StopsOut(c, st), c.rsi < low /\ c.macd > 0, c.rsi > high /\ c.macd < 0)

(* combine: the signal of the majority of the strategies of a set.         *)
Combine(signalOf) ==
  LET Votes(s) == Cardinality({k \in DOMAIN signalOf : signalOf[k] = s})
  IN  IF Votes("BUY") > Votes("SELL") THEN "BUY"
      ELSE IF Votes("SELL") > Votes("BUY") THEN "SELL" ELSE "HOLD"

(* strategyFromName: a market is [strategy, price, prev, pnl, quantity].   *)
Momentum(m) ==
  Choice(FALSE, m.prev # 0 /\ 1000 * m.price > 1002 * m.prev,
                m.prev # 0 /\ 1000 * m.price < 998 * m.prev)

SignalOf(m) == IF m.strategy = "momentum" THEN Momentum(m) ELSE "HOLD"
=============================================================================
