------------------------------ MODULE MCAutomos ------------------------------
(***************************************************************************)
(* Instances of Automos, Accounts and Billing for TLC.  A                  *)
(* behaviour exercises one part: copying a job's trade while users follow  *)
(* and unfollow; jobs and a loop, which share the profit; or one of the    *)
(* two services, which share nothing with the rest.                        *)
(***************************************************************************)
EXTENDS Automos, Accounts, Billing, TLC

CONSTANTS u1, j1, x1

VARIABLE part

Parts == {"copy", "risk", "accounts", "billing"}

MarketOf(strategy, price, pnl, quantity) ==
  [strategy |-> strategy, price |-> price, prev |-> 1000, pnl |-> pnl, quantity |-> quantity]

(* A rise with a loss to come, a fall without, a quantity that is refused, *)
(* and two markets without a signal.                                       *)
Rise == MarketOf("momentum", 1003, -1, 1)

AllMarkets ==
  {Rise, MarketOf("momentum", 997, 0, 1), MarketOf("momentum", 1003, 0, 9),
   MarketOf("momentum", 1001, 0, 1), MarketOf("basic", 1003, 0, 1)}

Candle(price, rsi, macd) == [price |-> price, rsi |-> rsi, macd |-> macd]

(* Buy, sell on the indicators or at the stop, buy again; no price.        *)
AllWindows ==
  {<<Candle(100, 25, 1), Candle(101, 80, -1), Candle(100, 25, 1)>>,
   <<Candle(100, 25, 1), Candle(96, 25, 1)>>,
   <<Candle(0, 50, 1)>>}

AllCells == {<<20, 80>>}

mcVars == <<automosVars, accountsVars, billingVars, part>>

MCInit ==
  /\ part \in Parts
  /\ AutomosInit /\ AccountsInit /\ BillingInit
  /\ \A j \in Jobs :
       /\ Owner(j) = u1
       /\ part # "copy" \/ j # j1 => Market(j) = Rise
  /\ part \notin {"copy", "risk"} => mode = "live"
  /\ part # "billing" => \A s \in Sessions : payer[s] = x1

(* Job j1 and its followers; the process may die.                          *)
Copying ==
  \/ CopyNext /\ UNCHANGED <<loopVars, crashes>>
  \/ Crash

(* Jobs without followers and the loops; the process may die between jobs  *)
(* while a loop is at an order, unless something failed before.            *)
Risking ==
  \/ (\E j \in Jobs : Enqueue(j) \/ JobStep(j)) /\ UNCHANGED <<loopVars, crashes>>
  \/ LoopNext /\ UNCHANGED <<copyVars, crashes>>
  \/ (\E l \in Loops : loop[l].pc = "order") /\ (\A j \in Jobs : ~Active(j)) /\ Crash

MCNext ==
  /\ UNCHANGED part
  /\ \/ /\ part = "copy" /\ Copying /\ \A j \in Jobs \ {j1} : pc'[j] = "new"
        /\ UNCHANGED <<accountsVars, billingVars>>
     \/ /\ part = "risk" /\ Risking /\ errors' + crashes' <= 1
        /\ UNCHANGED <<accountsVars, billingVars>>
     \/ part = "accounts" /\ AccountsNext /\ UNCHANGED <<automosVars, billingVars>>
     \/ part = "billing" /\ BillingNext /\ UNCHANGED <<automosVars, accountsVars>>

MCSpec == MCInit /\ [][MCNext]_mcVars /\ AutomosFairness /\ BillingFairness
=============================================================================
