---------------------------- MODULE CopyTrading -----------------------------
(***************************************************************************)
(* Copy trading of Automos: users follow masters, a queued job trades for  *)
(* a user and copies the trade to the followers one after the other        *)
(* (trading/userEngine.js, copy/, queue/tradingQueue.js).  A job yields at *)
(* each query and order, so jobs, requests and a crash come in between;    *)
(* Bull runs a job whose process died once more.                           *)
(***************************************************************************)
EXTENDS AutomosRuntime, Strategies

CONSTANTS
  Users,
  Jobs,        \* requests to POST /trading/queue
  Markets,     \* the bodies of these requests
  Concurrency, \* jobs a process runs at a time
  MaxStalled,  \* Bull's maxStalledCount
  MaxFollows   \* bound on the requests to follow and unfollow

ASSUME CopyAssumption ==
  /\ IsFiniteSet(Users) /\ IsFiniteSet(Jobs)
  /\ {Concurrency, MaxStalled, MaxFollows} \subseteq Nat
  /\ Markets \subseteq [strategy : {"basic", "momentum"}, price : Nat, prev : Nat,
                        pnl : Int, quantity : Int]

VARIABLES
  followers, \* rows of the table: followers[u][m] of user u and master m
  follows,   \* requests made so far
  job,       \* the data of each job
  pc,        \* what a job waits for
  left,      \* rows of the SELECT in propagate not yet copied
  turn,      \* the follower in turn
  chosen,    \* history: the followers the SELECT of the last attempt found
  during,    \* history: who followed the master while the job ran
  stalls,    \* attempts that died with their process
  orders,    \* orders[j][u]: orders of job j for user u at the exchange
  trades     \* trades[j][u]: rows of table trades

copyVars == <<followers, follows, job, pc, left, turn, chosen, during, stalls, orders, trades>>

Owner(j) == job[j].user

Market(j) == job[j].market

Waits == {"getUser", "insert", "select", "copy", "insertCopy"}

Active(j) == pc[j] \in Waits

Ended == {"skipped", "done", "failed"}

FollowersOf(m) == {u \in Users : followers[u][m] > 0}

CopyInit ==
  /\ followers = [u \in Users |-> [m \in Users |-> 0]]
  /\ follows = 0
  /\ job \in [Jobs -> [user : Users, market : Markets]]
  /\ pc = [j \in Jobs |-> "new"]
  /\ left = [j \in Jobs |-> [u \in Users |-> 0]]
  /\ turn = [j \in Jobs |-> Owner(j)]
  /\ chosen = [j \in Jobs |-> {}]
  /\ during = [j \in Jobs |-> {}]
  /\ stalls = [j \in Jobs |-> 0]
  /\ orders = [j \in Jobs |-> [u \in Users |-> 0]]
  /\ trades = [j \in Jobs |-> [u \in Users |-> 0]]

Become(j, wait) == pc' = [pc EXCEPT ![j] = wait]

(***************************************************************************)
(* Requests to follow and unfollow                                         *)
(***************************************************************************)
(* INSERT ... ON CONFLICT DO NOTHING.                                      *)
InsertFollower(u, m) == followers' = [followers EXCEPT ![u][m] = 1]

(* Follow refuses a user that follows itself.                              *)
Follow(u, m) ==
  /\ follows < MaxFollows
  /\ u # m
  /\ InsertFollower(u, m)
  /\ during' = [j \in Jobs |-> IF Active(j) /\ Owner(j) = m
                               THEN during[j] \cup {u} ELSE during[j]]
  /\ follows' = follows + 1
  /\ UNCHANGED <<job, pc, left, turn, chosen, stalls, orders, trades, runtimeVars>>

Unfollow(u, m) ==
  /\ follows < MaxFollows
  /\ followers[u][m] > 0
  /\ followers' = [followers EXCEPT ![u][m] = 0]
  /\ follows' = follows + 1
  /\ UNCHANGED <<job, pc, left, turn, chosen, during, stalls, orders, trades, runtimeVars>>

(***************************************************************************)
(* The queue                                                               *)
(***************************************************************************)
Enqueue(j) ==
  /\ pc[j] = "new"
  /\ Become(j, "waiting")
  /\ UNCHANGED <<followers, follows, job, left, turn, chosen, during, stalls, orders, trades,
                 runtimeVars>>

(* The handler starts and getUser is asked.                                *)
Start(j) ==
  /\ pc[j] = "waiting"
  /\ Cardinality({k \in Jobs : Active(k)}) < Concurrency
  /\ Become(j, "getUser")
  /\ during' = [during EXCEPT ![j] = @ \cup FollowersOf(Owner(j))]
  /\ UNCHANGED <<followers, follows, job, left, turn, chosen, stalls, orders, trades, runtimeVars>>

(* Mutant of Stall: a job leaves the queue when it starts, as a record of  *)
(* the worker's Redis list does.                                           *)
StallForGood ==
  /\ pc' = [j \in Jobs |-> IF Active(j) THEN "lost" ELSE pc[j]]
  /\ stalls' = [j \in Jobs |-> IF Active(j) THEN stalls[j] + 1 ELSE stalls[j]]
  /\ UNCHANGED <<followers, follows, job, left, turn, chosen, during, orders, trades>>

(* The process dies: its jobs stall and wait again, up to a number of      *)
(* times, and its memory is lost.                                          *)
Stall ==
  /\ pc' = [j \in Jobs |-> IF ~Active(j) THEN pc[j]
                           ELSE IF stalls[j] < MaxStalled THEN "waiting" ELSE "failed"]
  /\ stalls' = [j \in Jobs |-> IF Active(j) THEN stalls[j] + 1 ELSE stalls[j]]
  /\ UNCHANGED <<followers, follows, job, left, turn, chosen, during, orders, trades>>

(***************************************************************************)
(* runUser                                                                 *)
(***************************************************************************)
(* An order of job j for user u with outcome o.                            *)
Execute(j, u, o) ==
  /\ orders' = [orders EXCEPT ![j][u] = @ + Sent(o)]
  /\ CountError(o)

(* A row of job j for user u with outcome o.                               *)
Insert(j, u, o) ==
  /\ trades' = [trades EXCEPT ![j][u] = @ + Stored(o)]
  /\ CountError(o)

(* The user is there: HOLD ends the job.  The answer of checkRisk is an    *)
(* object, so !checkRisk(...) is never true and the order is placed.       *)
Skip(j) ==
  /\ pc[j] = "getUser"
  /\ SignalOf(Market(j)) = "HOLD"
  /\ Become(j, "skipped")
  /\ UNCHANGED <<followers, follows, job, left, turn, chosen, during, stalls, orders, trades,
                 runtimeVars>>

Trade(j) ==
  /\ pc[j] = "getUser"
  /\ SignalOf(Market(j)) # "HOLD"
  /\ CheckRisk(Market(j).pnl)
  /\ \E o \in Outcomes(Market(j).quantity) :
       /\ Execute(j, Owner(j), o)
       /\ Become(j, IF Answers(o) THEN "insert" ELSE "failed")
  /\ UNCHANGED <<followers, follows, job, left, turn, chosen, during, stalls, trades, mode>>

(* Mutant of InsertTrade: the row is written again when its answer was     *)
(* lost.                                                                   *)
InsertTradeAgain(j) ==
  /\ pc[j] = "insert"
  /\ \E o \in InsertOutcomes :
       /\ Insert(j, Owner(j), o)
       /\ Become(j, IF o = "done" THEN "select" ELSE "insert")
  /\ UNCHANGED <<followers, follows, job, left, turn, chosen, during, stalls, orders, mode,
                 realizedPnl>>

InsertTrade(j) ==
  /\ pc[j] = "insert"
  /\ \E o \in InsertOutcomes :
       /\ Insert(j, Owner(j), o)
       /\ Become(j, IF o = "done" THEN "select" ELSE "failed")
  /\ UNCHANGED <<followers, follows, job, left, turn, chosen, during, stalls, orders, mode,
                 realizedPnl>>

(***************************************************************************)
(* propagate                                                               *)
(***************************************************************************)
(* Mutant of Rows: the WHERE clause takes the columns for one another.     *)
RowsOfMasters(j) == [u \in Users |-> followers[Owner(j)][u]]

Rows(j) == [u \in Users |-> followers[u][Owner(j)]]

(* SELECT user_id FROM followers: the rows are copied in any order.        *)
SelectFollowers(j) ==
  /\ pc[j] = "select"
  /\ left' = [left EXCEPT ![j] = Rows(j)]
  /\ chosen' = [chosen EXCEPT ![j] = {u \in Users : left'[j][u] > 0}]
  /\ Become(j, IF chosen'[j] = {} THEN "done" ELSE "copy")
  /\ UNCHANGED <<followers, follows, job, turn, during, stalls, orders, trades, runtimeVars>>

(* Mutant of CopyOrder: the orders are placed first, the rows follow.      *)
CopyOrders(j) ==
  /\ pc[j] = "copy"
  /\ left' = [left EXCEPT ![j] = [u \in Users |-> 0]]
  /\ orders' = [orders EXCEPT ![j] = [u \in Users |-> @[u] + left[j][u]]]
  /\ turn' = [turn EXCEPT ![j] = CHOOSE u \in Users : left[j][u] > 0]
  /\ Become(j, "insertCopy")
  /\ UNCHANGED <<followers, follows, job, chosen, during, stalls, trades, runtimeVars>>

CopyOrder(j) ==
  /\ pc[j] = "copy"
  /\ \E u \in Users, o \in Outcomes(Market(j).quantity) :
       /\ left[j][u] > 0
       /\ left' = [left EXCEPT ![j][u] = @ - 1]
       /\ turn' = [turn EXCEPT ![j] = u]
       /\ Execute(j, u, o)
       /\ Become(j, IF Answers(o) THEN "insertCopy" ELSE "failed")
  /\ UNCHANGED <<followers, follows, job, chosen, during, stalls, trades, mode, realizedPnl>>

Rest(j) == \E u \in Users : left[j][u] > 0

(* The row of the copy; after the last the trade is shown and the job done.*)
CopyRow(j) ==
  /\ pc[j] = "insertCopy"
  /\ \E o \in InsertOutcomes :
       /\ Insert(j, turn[j], o)
       /\ Become(j, IF o # "done" THEN "failed" ELSE IF Rest(j) THEN "copy" ELSE "done")
  /\ UNCHANGED <<followers, follows, job, left, turn, chosen, during, stalls, orders, mode,
                 realizedPnl>>

JobStep(j) ==
  \/ Start(j) \/ Skip(j) \/ Trade(j) \/ InsertTrade(j)
  \/ SelectFollowers(j) \/ CopyOrder(j) \/ CopyRow(j)

CopyNext ==
  \/ \E u, m \in Users : Follow(u, m) \/ Unfollow(u, m)
  \/ \E j \in Jobs : Enqueue(j) \/ JobStep(j)
=============================================================================
