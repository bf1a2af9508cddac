---------------------------- MODULE TradingLoop -----------------------------
(***************************************************************************)
(* tradingLoop of core/trading_loop.js: tune, backtest, and trade over a   *)
(* window of candles.  It yields only while an order is at the exchange,   *)
(* so a turn of it is everything from one answer to the next order.  The   *)
(* loops of a process share the profit of risk/manager.js, which each of   *)
(* them resets when it starts (POST /pipeline/run never says otherwise).   *)
(***************************************************************************)
EXTENDS AutomosRuntime, Strategies, Sequences

CONSTANTS
  Loops,   \* calls of POST /pipeline/run
  Windows, \* the last candles of the market data of a call
  Grid     \* cells <<rsiLow, rsiHigh>> of the tuner

ASSUME LoopAssumption ==
  /\ Windows \subseteq Seq([price : Int, rsi : Int, macd : Int])
  /\ Grid \subseteq Int \X Int

VARIABLES
  loop,   \* each call: [pc, window, cell, at, state]
  sent,   \* history: signals a loop sent to the exchange, in order
  past    \* history: orders placed at or below the limit since the last reset

loopVars == <<loop, sent, past>>

Idle == [pc |-> "idle", window |-> <<>>, cell |-> <<30, 70>>, at |-> 0, state |-> Flat]

LoopInit ==
  /\ loop = [l \in Loops |-> Idle]
  /\ sent = [l \in Loops |-> <<>>]
  /\ past = [l \in Loops |-> 0]

(***************************************************************************)
(* The scan over the candles                                               *)
(***************************************************************************)
SignalAt(x, k) ==
  LET c == x.window[k]
  IN  Combine(<<Advanced(c, x.state), Tuned(c, x.state, x.cell[1], x.cell[2])>>)

(* A loop buys when it is flat and sells when it is not.                   *)
Acts(x, k) ==
  \/ SignalAt(x, k) = "BUY" /\ x.state.position = 0
  \/ SignalAt(x, k) = "SELL" /\ x.state.position # 0

Acting(x) == {k \in x.at + 1 .. Len(x.window) : Acts(x, k)}

(* x places its next order, or ends; p is the history past as it stands.   *)
Onward(l, x, p) ==
  \/ /\ Acting(x) = {}
     /\ loop' = [loop EXCEPT ![l] = [x EXCEPT !.pc = "done"]]
     /\ past' = p
     /\ UNCHANGED <<sent, errors>>
  \/ \E k \in Acting(x), o \in Outcomes(1) :
       /\ \A h \in Acting(x) : k <= h
       /\ loop' = [loop EXCEPT ![l] =
            [x EXCEPT !.pc = IF Answers(o) THEN "order" ELSE "thrown", !.at = k]]
       /\ sent' = [sent EXCEPT ![l] = Append(@, SignalAt(x, k))]
       /\ past' = [p EXCEPT ![l] = @ + IF LimitReached(realizedPnl') THEN 1 ELSE 0]
       /\ CountError(o)

(***************************************************************************)
(* The steps                                                               *)
(***************************************************************************)
NoOnePast == [l \in Loops |-> 0]

(* The backtest of the tuned strategy misses the validation target.        *)
Reject(l) ==
  /\ loop[l].pc = "idle"
  /\ ResetRisk
  /\ loop' = [loop EXCEPT ![l].pc = "rejected"]
  /\ past' = NoOnePast
  /\ UNCHANGED <<sent, mode, errors>>

(* Any cell of the grid may turn out the best.                             *)
Approve(l) ==
  /\ loop[l].pc = "idle"
  /\ ResetRisk
  /\ \E w \in Windows, cell \in Grid :
       Onward(l, [Idle EXCEPT !.window = w, !.cell = cell], NoOnePast)
  /\ UNCHANGED mode

(* The loop with the position it has after its order was answered.         *)
AfterOrder(x) ==
  [x EXCEPT !.state = IF SignalAt(x, x.at) = "BUY"
                      THEN [position |-> 1, entry |-> x.window[x.at].price] ELSE Flat]

(* Mutant of Turn: the answer of checkRisk is not looked at.               *)
TurnUnchecked(l) ==
  /\ loop[l].pc = "order"
  /\ CheckRisk(0)
  /\ Onward(l, AfterOrder(loop[l]), past)
  /\ UNCHANGED mode

(* The order is answered.  The answer names no profit in any mode, so      *)
(* checkRisk adds 0: what stops a loop is the profit of the jobs.          *)
Turn(l) ==
  /\ loop[l].pc = "order"
  /\ CheckRisk(0)
  /\ \/ /\ LimitReached(realizedPnl')
        /\ loop' = [loop EXCEPT ![l] = [AfterOrder(@) EXCEPT !.pc = "halted"]]
        /\ UNCHANGED <<sent, past, errors>>
     \/ /\ ~LimitReached(realizedPnl')
        /\ Onward(l, AfterOrder(loop[l]), past)
  /\ UNCHANGED mode

(* The process dies, and the loops with it.                                *)
Abort ==
  /\ loop' = [l \in Loops |-> IF loop[l].pc = "order" THEN [loop[l] EXCEPT !.pc = "thrown"]
                              ELSE loop[l]]
  /\ past' = NoOnePast
  /\ UNCHANGED sent

LoopStep(l) == Reject(l) \/ Approve(l) \/ Turn(l)

LoopNext == \E l \in Loops : LoopStep(l)
=============================================================================
