------------------------------ MODULE Analytics -----------------------------
(***************************************************************************)
(* The calculations around the trading code, each as its code does it, and *)
(* what it must return.  Numbers are integers; a weight, a mean and a      *)
(* drawdown are fractions <<numerator, denominator>>.                      *)
(***************************************************************************)
EXTENDS Strategies, Sequences

CONSTANTS
  Numbers,     \* the numbers of a sample
  MaxSamples   \* the length of the longest

ASSUME AnalyticsAssumption == Numbers \subseteq Int /\ MaxSamples \in Nat

VARIABLE sample   \* returns, an equity curve, scores, sizes or raw weights; or nothing

Samples == UNION {[1 .. n -> Numbers] : n \in 1 .. MaxSamples}

AnalyticsInit == sample \in Samples
AnalyticsSpec == AnalyticsInit /\ [][FALSE]_sample

Magnitude(x) == IF x < 0 THEN -x ELSE x
Larger(x, y) == IF x > y THEN x ELSE y
Total(s) ==
  LET sum[i \in 0 .. Len(s)] == IF i = 0 THEN 0 ELSE sum[i - 1] + s[i]
  IN  sum[Len(s)]
CountOf(s, signal) == Cardinality({i \in DOMAIN s : s[i] = signal})

(* exposure counts positions of both signs, netExposure lets them cancel.  *)
Exposure(sizes) == Total([i \in DOMAIN sizes |-> Magnitude(sizes[i])])
NetExposure(sizes) == Total(sizes)

(* The order of sort.                                                      *)
Sorts(order, s) ==
  /\ \A i, j \in DOMAIN s : order[i] = order[j] => i = j
  /\ \A i, j \in DOMAIN s : i < j => s[order[i]] <= s[order[j]]

(* VaR at a tail probability of percent in a hundred, and the mean beyond. *)
VaR(s, percent) ==
  LET order == CHOOSE p \in [DOMAIN s -> DOMAIN s] : Sorts(p, s)
  IN  s[order[1 + (percent * Len(s)) \div 100]]

CVaR(s, percent) ==
  LET value == VaR(s, percent)
  IN  <<Total([i \in DOMAIN s |-> IF s[i] <= value THEN s[i] ELSE 0]),
        Cardinality({i \in DOMAIN s : s[i] <= value})>>

(* maxDrawdown: one pass, with the peak so far; the first peak is the      *)
(* first point.                                                            *)
Deeper(a, b) == a[1] * b[2] > b[1] * a[2]

Draw(acc, value) ==
  LET peak == Larger(acc.peak, value)
      drop == <<peak - value, peak>>
  IN  [peak |-> peak,
       worst |-> IF peak > 0 /\ Deeper(drop, acc.worst) THEN drop ELSE acc.worst]

MaxDrawdown(curve) ==
  LET acc[i \in 0 .. Len(curve)] ==
        IF i = 0 THEN [peak |-> curve[1], worst |-> <<0, 1>>] ELSE Draw(acc[i - 1], curve[i])
  IN  acc[Len(curve)].worst

(* Mutant: a later cell may equal the one chosen.                          *)
LaterCell(scores, top, i) == IF top = 0 \/ scores[i] >= scores[top] THEN i ELSE top

(* The optimisers go through their grid and keep the best cell so far.     *)
BetterCell(scores, top, i) == IF top = 0 \/ scores[i] > scores[top] THEN i ELSE top

Best(scores) ==
  LET top[i \in 0 .. Len(scores)] == IF i = 0 THEN 0 ELSE BetterCell(scores, top[i - 1], i)
  IN  top[Len(scores)]

(* strategy.js holds when it sees fewer prices than its EMA wants; a       *)
(* backtest shows it the last 60.                                          *)
HasPrices(seen, ema) == seen >= Larger(60, ema + 10)

(* The grid of optimize over the EMA: 20, 30 .. 100.                       *)
EmaScores(profits) ==
  [i \in 1 .. 9 |-> IF HasPrices(60, 10 + 10 * i) THEN profits[1 + (i % Len(profits))] ELSE 0]

(* normalize: no weight is negative, and without weights all are equal.    *)
Weights(raw) ==
  LET kept == [i \in DOMAIN raw |-> Larger(0, raw[i])]
  IN  [i \in DOMAIN raw |-> IF Total(kept) = 0 THEN <<1, Len(raw)>> ELSE <<kept[i], Total(kept)>>]

(* aggregate: one BUY more than SELL is not enough, unlike for combine.    *)
Aggregate(signals) ==
  LET score == CountOf(signals, "BUY") - CountOf(signals, "SELL")
  IN  IF score > 1 THEN "BUY" ELSE IF score < -1 THEN "SELL" ELSE "HOLD"

(* What a sale at one market and a purchase at another bring, in ten       *)
(* thousandths, after fees in basis points.                                *)
Gain(sell, buy, sellFee, buyFee) ==
  10000 * (sell.bid - buy.ask) - (sellFee * sell.bid + buyFee * buy.ask)

(* checkArb of LatencyArbEngine: the pair with the largest spread after    *)
(* fees, among those above minSpread; prices never expire.                 *)
BestSpread(markets, minSpread, feeBps) ==
  LET net == [p \in {q \in (DOMAIN markets) \X (DOMAIN markets) : q[1] # q[2]} |->
                Gain(markets[p[1]], markets[p[2]], feeBps, feeBps)]
      wide == {p \in DOMAIN net : net[p] > 10000 * minSpread}
  IN  {p \in wide : \A q \in wide : net[q] <= net[p]}

(* latencyArb: nothing when a quote is older than STALE_MS, or else the    *)
(* first direction whose gain, without funding and transfers, is above     *)
(* the buffer.                                                             *)
StaleMs == 30

Edge(a, b, costA, costB, buffer, time) ==
  LET fixed == costA.funding + costB.funding + costA.transfer + costB.transfer
  IN  IF time - a.ts > StaleMs \/ time - b.ts > StaleMs THEN "NONE"
      ELSE IF Gain(a, b, costA.fee, costB.fee) - 10000 * fixed > 10000 * buffer THEN "A->B"
      ELSE IF Gain(b, a, costB.fee, costA.fee) - 10000 * fixed > 10000 * buffer THEN "B->A"
      ELSE "NONE"

(* makeMarket of Automos; 0 stands for a side without a quote.             *)
MakeMarket(bid, ask, position) ==
  IF bid <= 0 \/ ask - bid < 5 THEN [buy |-> 0, sell |-> 0]
  ELSE [buy  |-> IF position >= 1 THEN 0 ELSE bid + 1,
        sell |-> IF position <= -1 THEN 0 ELSE ask - 1]

(* chooseAction when it does not explore.                                  *)
ChooseAction(values) ==
  LET First(a, b) == IF values[b] > values[a] THEN b ELSE a
  IN  First(First(First("HOLD", "BUY"), "SELL"), "HOLD")

SignOf(x) == IF x > 0 THEN "BUY" ELSE IF x < 0 THEN "SELL" ELSE "HOLD"

(* Each group of results against what its calculation is named for.        *)
RiskAgrees ==
  LET s == sample
  IN  /\ Len(s) >= 2 => \A percent \in {5, 40} :
           /\ 100 * Cardinality({i \in DOMAIN s : s[i] < VaR(s, percent)}) <= percent * Len(s)
           /\ 100 * Cardinality({i \in DOMAIN s : s[i] <= VaR(s, percent)}) > percent * Len(s)
           /\ CVaR(s, percent)[1] <= VaR(s, percent) * CVaR(s, percent)[2]
      /\ (\A i \in DOMAIN s : s[i] >= 0) =>
           \A i, j \in DOMAIN s :
             i < j /\ s[i] > 0 => ~Deeper(<<s[i] - s[j], s[i]>>, MaxDrawdown(s))
      /\ Exposure(s) >= Magnitude(NetExposure(s))

ChoicesAgree ==
  LET s == sample
      signals == [i \in DOMAIN s |-> SignOf(s[i])]
      values == [a \in Signals |-> s[CHOOSE i \in DOMAIN s : i = Len(s) \/ SignOf(s[i]) = a]]
  IN  /\ \A i \in DOMAIN s : s[i] <= s[Best(s)] /\ (i < Best(s) => s[i] < s[Best(s)])
      /\ EmaScores(s)[Best(EmaScores(s))] >= 0
      /\ Total([i \in DOMAIN s |-> Weights(s)[i][1]]) = Weights(s)[1][2]
      /\ Aggregate(signals) # "HOLD" => Combine(signals) = Aggregate(signals)
      /\ \A a \in Signals : values[a] <= values[ChooseAction(values)]

MarketsAgree ==
  LET bid == Larger(1, sample[1])
      ask == bid + Magnitude(sample[Len(sample)])
  IN  /\ \A position \in -1 .. 1 :
           LET m == MakeMarket(bid, bid + 4 * (ask - bid), position)
           IN  m.buy > 0 /\ m.sell > 0 => m.buy < m.sell
      /\ \A buffer \in 0 .. 3, fee \in {0, 300, 900}, funding \in 0 .. 1, age \in 29 .. 31 :
           LET markets == [A |-> [bid |-> bid, ask |-> ask, ts |-> 0],
                           B |-> [bid |-> ask + 2, ask |-> ask + 3, ts |-> age]]
               cost == [fee |-> fee, funding |-> funding, transfer |-> 0]
               free == [fee |-> fee, funding |-> 0, transfer |-> 0]
               spread == BestSpread(markets, buffer + funding, fee)
           IN  /\ Edge(markets.A, markets.B, cost, free, buffer, age) =
                     IF age <= StaleMs /\ spread = {<<"B", "A">>} THEN "B->A" ELSE "NONE"
               /\ Edge(markets.B, markets.A, free, cost, buffer, age) =
                     IF age <= StaleMs /\ spread # {} THEN "A->B" ELSE "NONE"

(***************************************************************************)
(* Each calculation returns what it is named for: no larger share of the   *)
(* returns than the tail is below the value at risk; no fall from an       *)
(* earlier point of a curve is deeper than its drawdown; no cell of a grid *)
(* beats the one chosen, nor equals it earlier, and the grid over the EMA  *)
(* never reports a loss, because most of it sees too few prices to trade;  *)
(* weights share out one whole; two votes more are a majority; and on the  *)
(* same fees the two arbitrage engines find the same side of uncrossed     *)
(* markets, whichever comes first, while both quotes are fresh: once one   *)
(* is stale latencyArb finds none, whatever spread checkArb still finds.   *)
(***************************************************************************)
CalculationsAgree == sample # <<>> => RiskAgrees /\ ChoicesAgree /\ MarketsAgree
=============================================================================
