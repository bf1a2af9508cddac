--------------------------- MODULE AutomosRuntime ---------------------------
(***************************************************************************)
(* What the jobs and the pipelines of one Automos API process share: the   *)
(* profit of risk/manager.js, and the way of execution/live.js to the      *)
(* exchange.                                                               *)
(***************************************************************************)
EXTENDS Integers

CONSTANTS
  MaxLoss,      \* MAX_DAILY_LOSS without its sign
  MaxTrade,     \* MAX_TRADE_USD, which validateTrade compares quantities with
  MaxErrors     \* bound on the failures of the exchange and of the database

ASSUME RuntimeAssumption ==
  MaxLoss \in Nat /\ MaxTrade \in Nat /\ MaxErrors \in Nat

VARIABLES
  mode,        \* LIVE_TRADING, and whether createClient succeeds
  realizedPnl, \* the module variable of risk/manager.js
  errors       \* failures so far

runtimeVars == <<mode, realizedPnl, errors>>

Modes == {"simulation", "noClient", "live"}

RuntimeInit ==
  /\ mode \in Modes
  /\ realizedPnl = 0
  /\ errors = 0

(* checkRisk adds first and compares then.                                 *)
CheckRisk(pnl) == realizedPnl' = realizedPnl + pnl

LimitReached(pnl) == pnl <= -MaxLoss

(* resetRisk, and what a restart of the process does to the variable.      *)
ResetRisk == realizedPnl' = 0

(***************************************************************************)
(* executeTrade: without a live client it answers and places nothing; an   *)
(* order can be refused, or placed with its answer lost, and both throw.   *)
(***************************************************************************)
ValidTrade(quantity) == quantity > 0 /\ quantity <= MaxTrade

Outcomes(quantity) ==
  IF mode # "live" THEN {"none"}
  ELSE IF ~ValidTrade(quantity) THEN {"refused"}
  ELSE {"placed"} \cup (IF errors < MaxErrors THEN {"refused", "lost"} ELSE {})

Sent(o) == IF o \in {"placed", "lost"} THEN 1 ELSE 0

Answers(o) == o \in {"none", "placed"}

(* An INSERT: it may fail, or be done with its answer lost.                *)
InsertOutcomes ==
  {"done"} \cup (IF errors < MaxErrors THEN {"failed", "doneAndLost"} ELSE {})

Stored(o) == IF o = "failed" THEN 0 ELSE 1

(* Counts a failure of the exchange or of the database.                    *)
CountError(o) ==
  errors' = IF o \in {"refused", "lost", "failed", "doneAndLost"} /\ errors < MaxErrors
            THEN errors + 1 ELSE errors
=============================================================================
