----------------------------- MODULE LatencyArb -----------------------------
(***************************************************************************)
(* arb/latency_engine.js: three websockets feed one process, every quote   *)
(* has all six ordered pairs of exchanges checked, and a pair whose spread *)
(* is worth it is sold on one and bought on the other.  A handler runs     *)
(* without a break; its six checks are six steps here, and while some are  *)
(* left to do nothing else happens.  Amounts are in units of TRADE_SIZE.   *)
(***************************************************************************)
EXTENDS Integers, Sequences

CONSTANTS
  Offers,       \* the [bid, ask] pairs the exchanges send
  MinSpread,    \* MIN_SPREAD_USDT
  FeeBps,       \* TAKER_FEE_BPS
  MaxLatency,   \* MAX_LATENCY_MS
  MaxPosition,  \* MAX_POSITION
  Cooldown,     \* ARB_COOLDOWN_MS
  MaxTime,      \* bound on the clock
  MaxQuotes,    \* bound on the quotes received
  MaxCloses     \* bound on the sockets that close

ASSUME ArbAssumption ==
  /\ Offers \subseteq [bid : Nat, ask : Nat]
  /\ {MinSpread, FeeBps, MaxLatency, MaxPosition, Cooldown, MaxTime, MaxQuotes, MaxCloses} \subseteq Nat
  /\ MaxLatency < Cooldown

Exchanges == {"binance", "bybit", "okx"}

(* The order in which checkArb takes the pairs <<sell at, buy at>>.        *)
PairOrder ==
  <<<<"binance", "bybit">>, <<"binance", "okx">>, <<"bybit", "binance">>,
    <<"bybit", "okx">>, <<"okx", "binance">>, <<"okx", "bybit">>>>

Pairs == {p \in Exchanges \X Exchanges : p[1] # p[2]}

VARIABLES
  now,        \* Date.now()
  connected,  \* the exchanges whose socket is open
  closes,     \* how often a socket closed
  quotes,     \* quotes; ts is -1 while there is none
  received,   \* how many quotes came
  positions,
  locked,     \* the pairs whose state is locked
  lastTrade,  \* lastTradeAt of each pair; -Cooldown stands for the 0 of 1970
  todo,       \* the pairs checkArb has still to check
  deals       \* history: [n, sell, buy], how often each pair traded and the
              \* times of the two quotes it traded on last

socketVars == <<connected, closes>>

arbVars ==
  <<now, socketVars, quotes, received, positions, locked, lastTrade, todo, deals>>

ArbInit ==
  /\ now = 0
  /\ connected = {} /\ closes = 0 /\ received = 0
  /\ quotes = [x \in Exchanges |-> [bid |-> 0, ask |-> 0, ts |-> -1]]
  /\ positions = [x \in Exchanges |-> 0]
  /\ locked = {}
  /\ lastTrade = [p \in Pairs |-> -Cooldown]
  /\ todo = <<>>
  /\ deals = [p \in Pairs |-> [n |-> 0, sell |-> -1, buy |-> -1]]

(* connect: the socket opens, a second after the last one closed.          *)
Open(x) ==
  /\ todo = <<>> /\ x \notin connected
  /\ connected' = connected \cup {x}
  /\ UNCHANGED <<closes, now, quotes, received, positions, locked, lastTrade, todo, deals>>

(* The socket closes; its last quote stays.                                *)
Close(x) ==
  /\ todo = <<>> /\ x \in connected /\ closes < MaxCloses
  /\ connected' = connected \ {x}
  /\ closes' = closes + 1
  /\ UNCHANGED <<now, quotes, received, positions, locked, lastTrade, todo, deals>>

(* A message that normalize finds a quote in; of any other nothing is kept.*)
UpdateQuote(x, offer) ==
  /\ todo = <<>> /\ x \in connected /\ received < MaxQuotes
  /\ received' = received + 1
  /\ quotes' = [quotes EXCEPT ![x] = [bid |-> offer.bid, ask |-> offer.ask, ts |-> now]]
  /\ todo' = PairOrder
  /\ UNCHANGED <<now, socketVars, positions, locked, lastTrade, deals>>

Stale(q) == q.ts < 0 \/ now - q.ts > MaxLatency

(* The gross spread is wide enough and leaves something after both fees.   *)
WorthIt(sell, buy) ==
  /\ sell.bid - buy.ask >= MinSpread
  /\ 10000 * (sell.bid - buy.ask) > FeeBps * (sell.bid + buy.ask)

(* Mutant: a pair may trade while neither exchange is beyond its limit.    *)
CanTradeNow(p) ==
  /\ positions[p[1]] \in -MaxPosition .. MaxPosition
  /\ positions[p[2]] \in -MaxPosition .. MaxPosition

CanTrade(p) ==
  /\ positions[p[1]] - 1 \in -MaxPosition .. MaxPosition
  /\ positions[p[2]] + 1 \in -MaxPosition .. MaxPosition

(* What executeArb asks before it trades.                                  *)
Ready(p) == p \notin locked /\ now - lastTrade[p] >= Cooldown

Profitable(p) ==
  /\ ~Stale(quotes[p[1]]) /\ ~Stale(quotes[p[2]])
  /\ WorthIt(quotes[p[1]], quotes[p[2]])

(* placeSell and placeBuy change both positions before they first wait.    *)
ExecuteArb(p) ==
  /\ positions' = [positions EXCEPT ![p[1]] = @ - 1, ![p[2]] = @ + 1]
  /\ locked' = locked \cup {p}
  /\ deals' = [deals EXCEPT ![p] =
       [n |-> deals[p].n + 1, sell |-> quotes[p[1]].ts, buy |-> quotes[p[2]].ts]]

Takes(p) == Profitable(p) /\ CanTrade(p) /\ Ready(p)

(* Mutant: the pair is dealt with again as soon as its lock is gone.       *)
CheckPairWarm ==
  /\ todo # <<>>
  /\ todo' = Tail(todo)
  /\ LET p == Head(todo)
     IN  IF Profitable(p) /\ CanTrade(p) /\ p \notin locked THEN ExecuteArb(p)
         ELSE UNCHANGED <<positions, locked, deals>>
  /\ UNCHANGED <<now, socketVars, quotes, received, lastTrade>>

CheckPair ==
  /\ todo # <<>>
  /\ todo' = Tail(todo)
  /\ IF Takes(Head(todo)) THEN ExecuteArb(Head(todo))
     ELSE UNCHANGED <<positions, locked, deals>>
  /\ UNCHANGED <<now, socketVars, quotes, received, lastTrade>>

(* The microtask after both legs; a socket may deliver further messages    *)
(* of the same read before it, and the clock cannot move before it.        *)
Settle(p) ==
  /\ todo = <<>> /\ p \in locked
  /\ locked' = locked \ {p}
  /\ lastTrade' = [lastTrade EXCEPT ![p] = now]
  /\ UNCHANGED <<now, socketVars, quotes, received, positions, todo, deals>>

Pass ==
  /\ todo = <<>> /\ locked = {} /\ now < MaxTime
  /\ now' = now + 1
  /\ UNCHANGED <<socketVars, quotes, received, positions, locked, lastTrade, todo, deals>>

ArbNext ==
  \/ \E x \in Exchanges : Open(x) \/ Close(x) \/ \E o \in Offers : UpdateQuote(x, o)
  \/ CheckPair
  \/ \E p \in Pairs : Settle(p)
  \/ Pass

ArbSpec == ArbInit /\ [][ArbNext]_arbVars

(***************************************************************************)
(* Properties                                                              *)
(***************************************************************************)
(***************************************************************************)
(* What was sold on one exchange was bought on another, and no exchange is *)
(* ever further than MAX_POSITION from flat, however many pairs one quote  *)
(* has trade at once.                                                      *)
(***************************************************************************)
PositionsAreHedged ==
  /\ positions["binance"] + positions["bybit"] + positions["okx"] = 0
  /\ \A x \in Exchanges : positions[x] \in -MaxPosition .. MaxPosition

(***************************************************************************)
(* A pair deals once on a quote: both quotes of a deal are newer than      *)
(* those of the pair's last deal, because a quote is stale before the      *)
(* cooldown of the pair is over.                                           *)
(***************************************************************************)
QuoteIsDealtOnce ==
  [][\A p \in Pairs :
       deals'[p].n # deals[p].n =>
         deals'[p].sell > deals[p].sell /\ deals'[p].buy > deals[p].buy]_arbVars
=============================================================================
