------------------------------- MODULE Automos -------------------------------
(***************************************************************************)
(* The trading side of the Automos API process: the jobs of CopyTrading    *)
(* and the calls of TradingLoop share the profit of the risk manager and   *)
(* die together.                                                           *)
(***************************************************************************)
EXTENDS CopyTrading, TradingLoop

CONSTANT MaxCrashes \* bound on the crashes of the process

ASSUME CrashAssumption == MaxCrashes \in Nat

VARIABLE crashes

automosVars == <<runtimeVars, copyVars, loopVars, crashes>>

AutomosInit == RuntimeInit /\ CopyInit /\ LoopInit /\ crashes = 0

(* The process dies and is started again.                                  *)
Crash ==
  /\ crashes < MaxCrashes
  /\ crashes' = crashes + 1
  /\ Stall
  /\ Abort
  /\ ResetRisk
  /\ UNCHANGED <<mode, errors>>

AutomosNext ==
  \/ CopyNext /\ UNCHANGED <<loopVars, crashes>>
  \/ LoopNext /\ UNCHANGED <<copyVars, crashes>>
  \/ Crash

(* Redis, the database and the exchange answer a job; requests, failures   *)
(* and crashes need not come, and nothing is asked of the loops.           *)
AutomosFairness ==
  \A j \in Jobs : WF_automosVars(JobStep(j) /\ UNCHANGED <<loopVars, crashes>>)

Spec == AutomosInit /\ [][AutomosNext]_automosVars /\ AutomosFairness

(***************************************************************************)
(* Properties                                                              *)
(***************************************************************************)
(* Orders a job placed and wrote no row for: those of a user are numbered. *)
Unrecorded(j) == UNION {{u} \X (trades[j][u] + 1 .. orders[j][u]) : u \in Users}

(***************************************************************************)
(* With a live client no row of table trades is without its order, and     *)
(* each attempt of a job leaves at most one order without its row: the one *)
(* it was at when it failed or died.                                       *)
(***************************************************************************)
RowsHaveOrders ==
  mode = "live" =>
    \A j \in Jobs :
      /\ \A u \in Users : trades[j][u] <= orders[j][u]
      /\ Cardinality(Unrecorded(j)) <= stalls[j] + 1

(***************************************************************************)
(* An attempt trades once for the owner of the job and at most once for a  *)
(* follower, whoever follows and unfollows meanwhile; only a run after a   *)
(* crash can trade again.                                                  *)
(***************************************************************************)
OncePerAttempt ==
  \A j \in Jobs, u \in Users :
    orders[j][u] <= stalls[j] + 1 /\ trades[j][u] <= stalls[j] + 1

(***************************************************************************)
(* A trade is copied to nobody who did not follow its master while the job *)
(* ran, and a job that is done has a row for its owner and for everyone    *)
(* its last attempt found.                                                 *)
(***************************************************************************)
CopiesAreOfFollowers ==
  \A j \in Jobs :
    /\ \A u \in Users \ {Owner(j)} :
         orders[j][u] + trades[j][u] > 0 => u \in during[j]
    /\ pc[j] = "done" => \A u \in chosen[j] \cup {Owner(j)} : trades[j][u] > 0

(***************************************************************************)
(* A loop buys and sells in turn, and places at most one order at or below *)
(* the loss limit, the order whose check stops it; jobs of the same        *)
(* process move the profit while the order is at the exchange.             *)
(***************************************************************************)
LoopsStopAtTheLimit ==
  \A l \in Loops :
    /\ past[l] <= 1
    /\ \A i \in DOMAIN sent[l] : sent[l][i] = IF i % 2 = 1 THEN "BUY" ELSE "SELL"

(***************************************************************************)
(* A queued job ends, although jobs before it fill the process, fail, or   *)
(* die with it.                                                            *)
(***************************************************************************)
JobsEnd == \A j \in Jobs : pc[j] = "waiting" ~> pc[j] \in Ended

(***************************************************************************)
(* risk/manager.test.js:17 says of checkRisk that it "halts trading when   *)
(* max daily loss is reached": a job then places no order.                 *)
(***************************************************************************)
JobsHaltAtTheLimit ==
  [][\A j \in Jobs :
       pc[j] = "getUser" /\ orders'[j] # orders[j] => ~LimitReached(realizedPnl')]_automosVars
=============================================================================
