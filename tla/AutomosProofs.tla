--------------------------- MODULE AutomosProofs ----------------------------
(***************************************************************************)
(* What TLAPS proves of the Automos API.  Of Automos, for any users, jobs, *)
(* markets and loops and any number of crashes: an attempt of a job trades *)
(* once for each user, its copies are of those who followed its master     *)
(* meanwhile, no row is without its order, and a loop stops at the loss    *)
(* limit.  Of Accounts and Billing: a role ends with its tokens, and plans *)
(* are paid.                                                               *)
(***************************************************************************)
EXTENDS Automos, Accounts, Billing, TLAPS, FiniteSetTheorems

Phases == Waits \cup Ended \cup {"new", "waiting"}

Amounts == [Users -> Nat]

TypeOK ==
  /\ followers \in [Users -> [Users -> {0, 1}]]
  /\ \A u \in Users : followers[u][u] = 0
  /\ job \in [Jobs -> [user : Users, market : Markets]]
  /\ pc \in [Jobs -> Phases]
  /\ left \in [Jobs -> Amounts]
  /\ turn \in [Jobs -> Users]
  /\ chosen \in [Jobs -> SUBSET Users]
  /\ during \in [Jobs -> SUBSET Users]
  /\ stalls \in [Jobs -> Nat]
  /\ orders \in [Jobs -> Amounts]
  /\ trades \in [Jobs -> Amounts]

(* The owner has not been traded for in this attempt.                      *)
Before == {"new", "waiting", "getUser"}

Copying == {"copy", "insertCopy"}

One(condition) == IF condition THEN 1 ELSE 0

(* Attempts that died and this one: the orders of a user are no more; what *)
(* is yet to be copied is counted in.                                      *)
OrdersInv(j, u) ==
  /\ orders[j][u] <= stalls[j] + 1
  /\ pc[j] \in Before => orders[j][u] <= stalls[j]
  /\ pc[j] \in {"insert", "select"} /\ u # Owner(j) => orders[j][u] <= stalls[j]
  /\ pc[j] \in Copying => orders[j][u] + left[j][u] <= stalls[j] + 1

(* The same of the rows, which come after the orders.                      *)
TradesInv(j, u) ==
  /\ trades[j][u] <= stalls[j] + 1
  /\ pc[j] \in Before \cup {"insert"} => trades[j][u] <= stalls[j]
  /\ pc[j] = "select" /\ u # Owner(j) => trades[j][u] <= stalls[j]
  /\ pc[j] = "copy" => trades[j][u] + left[j][u] <= stalls[j] + 1
  /\ pc[j] = "insertCopy" =>
       trades[j][u] + left[j][u] + One(turn[j] = u) <= stalls[j] + 1

(* Who follows while a job runs is remembered, so those it copies to are.  *)
FollowersInv(j, u) ==
  /\ Active(j) /\ followers[u][Owner(j)] > 0 => u \in during[j]
  /\ pc[j] \in Copying /\ left[j][u] > 0 => u \in during[j]
  /\ pc[j] = "insertCopy" => turn[j] \in during[j]
  /\ u # Owner(j) /\ orders[j][u] + trades[j][u] > 0 => u \in during[j]

(* The rows of those the attempt found are written or still to be written. *)
RowsInv(j, u) ==
  /\ pc[j] \in {"select", "done"} \cup Copying => trades[j][Owner(j)] > 0
  /\ u \in chosen[j] =>
       /\ pc[j] = "copy" => trades[j][u] > 0 \/ left[j][u] > 0
       /\ pc[j] = "insertCopy" => trades[j][u] > 0 \/ left[j][u] > 0 \/ u = turn[j]
       /\ pc[j] = "done" => trades[j][u] > 0

JobInv(j) ==
  \A u \in Users : OrdersInv(j, u) /\ TradesInv(j, u) /\ FollowersInv(j, u) /\ RowsInv(j, u)

(* The inductive invariant of the jobs.                                    *)
IInv == TypeOK /\ \A j \in Jobs : JobInv(j)

(* A step of one job leaves the others and their data alone.               *)
OthersKeep(j) ==
  /\ followers' = followers /\ job' = job
  /\ \A i \in Jobs \ {j} :
       /\ pc'[i] = pc[i] /\ left'[i] = left[i] /\ turn'[i] = turn[i]
       /\ chosen'[i] = chosen[i] /\ during'[i] = during[i] /\ stalls'[i] = stalls[i]
       /\ orders'[i] = orders[i] /\ trades'[i] = trades[i]

-----------------------------------------------------------------------------
(* The types of what a job has for one user.                               *)
LEMMA JobTypes ==
  ASSUME TypeOK, NEW j \in Jobs, NEW u \in Users
  PROVE  /\ pc[j] \in Phases /\ Owner(j) \in Users /\ turn[j] \in Users /\ stalls[j] \in Nat
         /\ left[j][u] \in Nat /\ orders[j][u] \in Nat /\ trades[j][u] \in Nat
         /\ followers[u][Owner(j)] \in {0, 1}
         /\ chosen[j] \subseteq Users /\ during[j] \subseteq Users
<1>1. Owner(j) \in Users
  BY DEF TypeOK, Owner
<1>2. left[j] \in Amounts /\ orders[j] \in Amounts /\ trades[j] \in Amounts
  BY DEF TypeOK
<1>. QED  BY <1>1, <1>2 DEF TypeOK, Amounts

(* A step of job j keeps the invariant if it does so for j.                *)
LEMMA OneJob ==
  ASSUME IInv, NEW j \in Jobs, OthersKeep(j), TypeOK', JobInv(j)'
  PROVE  IInv'
<1>1. ASSUME NEW i \in Jobs \ {j} PROVE JobInv(i)'
  <2>1. JobInv(i)
    BY DEF IInv
  <2>2. /\ followers' = followers /\ job' = job
        /\ pc'[i] = pc[i] /\ left'[i] = left[i] /\ turn'[i] = turn[i]
        /\ chosen'[i] = chosen[i] /\ during'[i] = during[i] /\ stalls'[i] = stalls[i]
        /\ orders'[i] = orders[i] /\ trades'[i] = trades[i]
    BY DEF OthersKeep
  <2>. QED  BY <2>1, <2>2
            DEF JobInv, OrdersInv, TradesInv, FollowersInv, RowsInv, Owner, Active
<1>. QED  BY <1>1 DEF IInv

(* An order or a row is one more at most.                                  *)
LEMMA OneMore == \A o : Sent(o) \in {0, 1} /\ Stored(o) \in {0, 1}
BY DEF Sent, Stored

-----------------------------------------------------------------------------
(* The requests to follow: who begins to follow is remembered by the jobs. *)
LEMMA FollowKeeps ==
  ASSUME IInv, NEW u \in Users, NEW m \in Users, Follow(u, m) \/ Unfollow(u, m)
  PROVE  IInv'
<1>1. TypeOK /\ \A j \in Jobs : JobInv(j)
  BY DEF IInv
<1>2. UNCHANGED <<job, pc, left, turn, chosen, stalls, orders, trades>>
  BY DEF Follow, Unfollow
<1>3. /\ followers' \in [Users -> [Users -> {0, 1}]]
      /\ \A v \in Users : followers'[v][v] = 0
      /\ \A v, w \in Users : followers'[v][w] > 0 =>
           followers[v][w] > 0 \/ (Follow(u, m) /\ v = u /\ w = m)
  <2>1. CASE Follow(u, m)
    <3>1. u # m /\ followers' = [followers EXCEPT ![u][m] = 1]
      BY <2>1 DEF Follow, InsertFollower
    <3>. QED  BY <1>1, <2>1, <3>1 DEF TypeOK
  <2>2. CASE Unfollow(u, m)
    <3>1. followers' = [followers EXCEPT ![u][m] = 0]
      BY <2>2 DEF Unfollow
    <3>. QED  BY <1>1, <3>1 DEF TypeOK
  <2>. QED  BY <2>1, <2>2
<1>4. /\ during' \in [Jobs -> SUBSET Users]
      /\ \A j \in Jobs : during[j] \subseteq during'[j]
      /\ Follow(u, m) => \A j \in Jobs : Active(j) /\ Owner(j) = m => u \in during'[j]
  <2>1. CASE Follow(u, m)
    <3>1. during' = [j \in Jobs |-> IF Active(j) /\ Owner(j) = m
                                    THEN during[j] \cup {u} ELSE during[j]]
      BY <2>1 DEF Follow
    <3>. QED  BY <1>1, <3>1 DEF TypeOK
  <2>2. CASE Unfollow(u, m) /\ ~Follow(u, m)
    BY <1>1, <2>2 DEF Unfollow, TypeOK
  <2>. QED  BY <2>1, <2>2
<1>5. TypeOK'
  BY <1>1, <1>2, <1>3, <1>4 DEF TypeOK
<1>6. ASSUME NEW j \in Jobs PROVE JobInv(j)'
  <2>1. Owner(j) \in Users /\ Owner(j)' = Owner(j) /\ (Active(j)' <=> Active(j))
    BY <1>1, <1>2, JobTypes DEF Owner, Active
  <2>2. ASSUME NEW v \in Users PROVE OrdersInv(j, v)' /\ TradesInv(j, v)'
    <3>1. OrdersInv(j, v) /\ TradesInv(j, v)
      BY <1>1 DEF JobInv
    <3>. QED  BY <1>2, <3>1 DEF OrdersInv, TradesInv, Owner
  <2>3. ASSUME NEW v \in Users PROVE FollowersInv(j, v)'
    <3>1. FollowersInv(j, v)
      BY <1>1 DEF JobInv
    <3>2. Active(j)' /\ followers'[v][Owner(j)] > 0 => v \in during'[j]
      BY <1>3, <1>4, <2>1, <3>1 DEF FollowersInv
    <3>. QED  BY <1>2, <1>4, <2>1, <3>1, <3>2 DEF FollowersInv
  <2>4. ASSUME NEW v \in Users PROVE RowsInv(j, v)'
    <3>1. RowsInv(j, v)
      BY <1>1 DEF JobInv
    <3>. QED  BY <1>2, <2>1, <3>1 DEF RowsInv
  <2>. QED  BY <2>2, <2>3, <2>4 DEF JobInv
<1>. QED  BY <1>5, <1>6 DEF IInv

(* A job is queued, or it is skipped: nothing is traded.                   *)
LEMMA EnqueueKeeps ==
  ASSUME IInv, NEW j \in Jobs, Enqueue(j) \/ Skip(j)
  PROVE  IInv'
<1>1. TypeOK /\ JobInv(j)
  BY DEF IInv
<1>2. UNCHANGED <<followers, job, left, turn, chosen, during, stalls, orders, trades>>
  BY DEF Enqueue, Skip
<1>3. \/ pc[j] = "new" /\ pc' = [pc EXCEPT ![j] = "waiting"]
      \/ pc[j] = "getUser" /\ pc' = [pc EXCEPT ![j] = "skipped"]
  BY DEF Enqueue, Skip, Become
<1>4. pc' \in [Jobs -> Phases] /\ \A i \in Jobs \ {j} : pc'[i] = pc[i]
  BY <1>1, <1>3 DEF TypeOK, Phases, Ended
<1>5. pc[j] \in Before /\ pc'[j] \in {"waiting", "skipped"}
  BY <1>1, <1>3 DEF TypeOK, Before
<1>6. TypeOK'
  BY <1>1, <1>2, <1>4 DEF TypeOK
<1>7. OthersKeep(j)
  BY <1>2, <1>4 DEF OthersKeep
<1>8. JobInv(j)'
  BY <1>1, <1>2, <1>5
     DEF JobInv, OrdersInv, TradesInv, FollowersInv, RowsInv, Before, Copying, Owner, Active, Waits
<1>. QED  BY <1>6, <1>7, <1>8, OneJob

(* The attempt starts, and remembers who follows.                          *)
LEMMA StartKeeps ==
  ASSUME IInv, NEW j \in Jobs, Start(j)
  PROVE  IInv'
<1>1. TypeOK /\ JobInv(j)
  BY DEF IInv
<1>2. /\ UNCHANGED <<followers, job, left, turn, chosen, stalls, orders, trades>>
      /\ pc[j] = "waiting" /\ pc' = [pc EXCEPT ![j] = "getUser"]
      /\ during' = [during EXCEPT ![j] = @ \cup FollowersOf(Owner(j))]
  BY DEF Start, Become
<1>3. pc' \in [Jobs -> Phases] /\ pc'[j] = "getUser" /\ \A i \in Jobs \ {j} : pc'[i] = pc[i]
  BY <1>1, <1>2 DEF TypeOK, Phases, Waits
<1>4. /\ during' \in [Jobs -> SUBSET Users] /\ during'[j] = during[j] \cup FollowersOf(Owner(j))
      /\ \A i \in Jobs \ {j} : during'[i] = during[i]
  BY <1>1, <1>2 DEF TypeOK, FollowersOf
<1>5. TypeOK'
  BY <1>1, <1>2, <1>3, <1>4 DEF TypeOK
<1>6. OthersKeep(j)
  BY <1>2, <1>3, <1>4 DEF OthersKeep
<1>7. ASSUME NEW u \in Users
      PROVE  OrdersInv(j, u)' /\ TradesInv(j, u)' /\ FollowersInv(j, u)' /\ RowsInv(j, u)'
  <2>1. OrdersInv(j, u) /\ TradesInv(j, u) /\ FollowersInv(j, u) /\ RowsInv(j, u)
    BY <1>1 DEF JobInv
  <2>2. OrdersInv(j, u)' /\ TradesInv(j, u)'
    BY <1>2, <1>3, <2>1 DEF OrdersInv, TradesInv, Before, Copying
  <2>3. FollowersInv(j, u)'
    BY <1>2, <1>3, <1>4, <2>1 DEF FollowersInv, FollowersOf, Copying, Owner
  <2>4. RowsInv(j, u)'
    BY <1>2, <1>3 DEF RowsInv, Copying
  <2>. QED  BY <2>2, <2>3, <2>4
<1>. QED  BY <1>5, <1>6, <1>7, OneJob DEF JobInv

(* The process dies: every attempt that ran counts as one that died.       *)
LEMMA StallKeeps ==
  ASSUME IInv, Stall
  PROVE  IInv'
<1>1. TypeOK /\ \A j \in Jobs : JobInv(j)
  BY DEF IInv
<1>2. /\ UNCHANGED <<followers, job, left, turn, chosen, during, orders, trades>>
      /\ pc' = [j \in Jobs |-> IF ~Active(j) THEN pc[j]
                               ELSE IF stalls[j] < MaxStalled THEN "waiting" ELSE "failed"]
      /\ stalls' = [j \in Jobs |-> IF Active(j) THEN stalls[j] + 1 ELSE stalls[j]]
  BY DEF Stall
<1>3. TypeOK'
  BY <1>1, <1>2 DEF TypeOK, Phases, Ended
<1>4. ASSUME NEW j \in Jobs PROVE JobInv(j)'
  <2>1. JobInv(j) /\ stalls[j] \in Nat
    BY <1>1 DEF TypeOK
  <2>2. CASE ~Active(j)
    <3>1. pc'[j] = pc[j] /\ stalls'[j] = stalls[j]
      BY <1>2, <2>2
    <3>. QED  BY <1>2, <2>1, <3>1
              DEF JobInv, OrdersInv, TradesInv, FollowersInv, RowsInv, Owner, Active
  <2>3. CASE Active(j)
    <3>1. pc'[j] \in {"waiting", "failed"} /\ stalls'[j] = stalls[j] + 1
      BY <1>2, <2>3
    <3>2. ASSUME NEW u \in Users
          PROVE  OrdersInv(j, u)' /\ TradesInv(j, u)' /\ FollowersInv(j, u)' /\ RowsInv(j, u)'
      <4>1. OrdersInv(j, u) /\ TradesInv(j, u) /\ FollowersInv(j, u)
        BY <2>1 DEF JobInv
      <4>2. orders[j][u] \in Nat /\ trades[j][u] \in Nat
        BY <1>1, JobTypes
      <4>3. OrdersInv(j, u)' /\ TradesInv(j, u)'
        BY <1>2, <2>1, <3>1, <4>1, <4>2 DEF OrdersInv, TradesInv, Before, Copying
      <4>4. FollowersInv(j, u)' /\ RowsInv(j, u)'
        BY <1>2, <3>1, <4>1 DEF FollowersInv, RowsInv, Copying, Owner, Active, Waits
      <4>. QED  BY <4>3, <4>4
    <3>. QED  BY <3>2 DEF JobInv
  <2>. QED  BY <2>2, <2>3
<1>. QED  BY <1>3, <1>4 DEF IInv

(* The order for the owner.                                                *)
LEMMA TradeKeeps ==
  ASSUME IInv, NEW j \in Jobs, Trade(j)
  PROVE  IInv'
<1>1. TypeOK /\ JobInv(j) /\ Owner(j) \in Users
  BY JobTypes DEF IInv, TypeOK, Owner
<1>2. PICK o \in Outcomes(Market(j).quantity) :
        /\ Execute(j, Owner(j), o)
        /\ Become(j, IF Answers(o) THEN "insert" ELSE "failed")
  BY DEF Trade
<1>3. UNCHANGED <<followers, job, left, turn, chosen, during, stalls, trades>>
      /\ pc[j] = "getUser"
  BY DEF Trade
<1>4. /\ pc' \in [Jobs -> Phases] /\ pc'[j] \in {"insert", "failed"}
      /\ \A i \in Jobs \ {j} : pc'[i] = pc[i]
  BY <1>1, <1>2 DEF Become, TypeOK, Phases, Waits, Ended
<1>. DEFINE n == orders[j][Owner(j)] + Sent(o)
<1>5. n \in Nat /\ n <= orders[j][Owner(j)] + 1
  BY <1>1, JobTypes, OneMore
<1>6. orders' = [orders EXCEPT ![j][Owner(j)] = n]
  BY <1>2 DEF Execute
<1>. HIDE DEF n
<1>7. /\ orders' \in [Jobs -> Amounts] /\ \A i \in Jobs \ {j} : orders'[i] = orders[i]
      /\ orders'[j][Owner(j)] = n
      /\ \A u \in Users \ {Owner(j)} : orders'[j][u] = orders[j][u]
  BY <1>1, <1>5, <1>6 DEF TypeOK, Amounts
<1>8. TypeOK'
  BY <1>1, <1>3, <1>4, <1>7 DEF TypeOK
<1>9. OthersKeep(j)
  BY <1>3, <1>4, <1>7 DEF OthersKeep
<1>10. ASSUME NEW u \in Users
       PROVE  OrdersInv(j, u)' /\ TradesInv(j, u)' /\ FollowersInv(j, u)' /\ RowsInv(j, u)'
  <2>1. OrdersInv(j, u) /\ TradesInv(j, u) /\ FollowersInv(j, u)
    BY <1>1 DEF JobInv
  <2>2. orders[j][u] \in Nat /\ trades[j][u] \in Nat /\ stalls[j] \in Nat
    BY <1>1, JobTypes
  <2>3. orders[j][u] <= stalls[j] /\ trades[j][u] <= stalls[j]
    BY <1>3, <2>1 DEF OrdersInv, TradesInv, Before
  <2>4. orders'[j][u] <= stalls[j] + 1 /\ (u # Owner(j) => orders'[j][u] <= stalls[j])
    BY <1>5, <1>7, <2>2, <2>3
  <2>5. OrdersInv(j, u)' /\ TradesInv(j, u)'
    BY <1>3, <1>4, <2>2, <2>3, <2>4 DEF OrdersInv, TradesInv, Before, Copying, Owner
  <2>6. FollowersInv(j, u)' /\ RowsInv(j, u)'
    BY <1>3, <1>4, <1>7, <2>1 DEF FollowersInv, RowsInv, Copying, Owner, Active, Waits
  <2>. QED  BY <2>5, <2>6
<1>. QED  BY <1>8, <1>9, <1>10, OneJob DEF JobInv

(* The row of the owner.                                                   *)
LEMMA InsertTradeKeeps ==
  ASSUME IInv, NEW j \in Jobs, InsertTrade(j)
  PROVE  IInv'
<1>1. TypeOK /\ JobInv(j) /\ Owner(j) \in Users
  BY JobTypes DEF IInv, TypeOK, Owner
<1>2. PICK o \in InsertOutcomes :
        /\ Insert(j, Owner(j), o)
        /\ Become(j, IF o = "done" THEN "select" ELSE "failed")
  BY DEF InsertTrade
<1>3. UNCHANGED <<followers, job, left, turn, chosen, during, stalls, orders>>
      /\ pc[j] = "insert"
  BY DEF InsertTrade
<1>4. /\ pc' \in [Jobs -> Phases] /\ pc'[j] \in {"select", "failed"}
      /\ pc'[j] = "select" => o = "done"
      /\ \A i \in Jobs \ {j} : pc'[i] = pc[i]
  BY <1>1, <1>2 DEF Become, TypeOK, Phases, Waits, Ended
<1>. DEFINE n == trades[j][Owner(j)] + Stored(o)
<1>5. n \in Nat /\ n <= trades[j][Owner(j)] + 1 /\ (o = "done" => n > 0)
  BY <1>1, JobTypes, OneMore DEF Stored
<1>6. trades' = [trades EXCEPT ![j][Owner(j)] = n]
  BY <1>2 DEF Insert
<1>. HIDE DEF n
<1>7. /\ trades' \in [Jobs -> Amounts] /\ \A i \in Jobs \ {j} : trades'[i] = trades[i]
      /\ trades'[j][Owner(j)] = n
      /\ \A u \in Users \ {Owner(j)} : trades'[j][u] = trades[j][u]
  BY <1>1, <1>5, <1>6 DEF TypeOK, Amounts
<1>8. TypeOK'
  BY <1>1, <1>3, <1>4, <1>7 DEF TypeOK
<1>9. OthersKeep(j)
  BY <1>3, <1>4, <1>7 DEF OthersKeep
<1>10. ASSUME NEW u \in Users
       PROVE  OrdersInv(j, u)' /\ TradesInv(j, u)' /\ FollowersInv(j, u)' /\ RowsInv(j, u)'
  <2>1. OrdersInv(j, u) /\ TradesInv(j, u) /\ FollowersInv(j, u)
    BY <1>1 DEF JobInv
  <2>2. orders[j][u] \in Nat /\ trades[j][u] \in Nat /\ stalls[j] \in Nat
    BY <1>1, JobTypes
  <2>3. trades[j][u] <= stalls[j]
    BY <1>3, <2>1 DEF TradesInv
  <2>4. trades'[j][u] <= stalls[j] + 1 /\ (u # Owner(j) => trades'[j][u] <= stalls[j])
    BY <1>5, <1>7, <2>2, <2>3
  <2>5. OrdersInv(j, u)' /\ TradesInv(j, u)'
    BY <1>3, <1>4, <2>1, <2>2, <2>4 DEF OrdersInv, TradesInv, Before, Copying, Owner
  <2>6. FollowersInv(j, u)'
    BY <1>3, <1>4, <1>7, <2>1 DEF FollowersInv, Copying, Owner, Active, Waits
  <2>7. RowsInv(j, u)'
    BY <1>3, <1>4, <1>5, <1>7 DEF RowsInv, Copying, Owner
  <2>. QED  BY <2>5, <2>6, <2>7
<1>. QED  BY <1>8, <1>9, <1>10, OneJob DEF JobInv

(* The followers are found: none of them is the owner.                     *)
LEMMA SelectFollowersKeeps ==
  ASSUME IInv, NEW j \in Jobs, SelectFollowers(j)
  PROVE  IInv'
<1>1. TypeOK /\ JobInv(j) /\ Owner(j) \in Users
  BY JobTypes DEF IInv, TypeOK, Owner
<1>2. /\ UNCHANGED <<followers, job, turn, during, stalls, orders, trades>>
      /\ pc[j] = "select"
      /\ left' = [left EXCEPT ![j] = Rows(j)]
      /\ chosen' = [chosen EXCEPT ![j] = {u \in Users : left'[j][u] > 0}]
      /\ pc' = [pc EXCEPT ![j] = IF chosen'[j] = {} THEN "done" ELSE "copy"]
  BY DEF SelectFollowers, Become
<1>3. Rows(j) \in Amounts /\ \A u \in Users : Rows(j)[u] = followers[u][Owner(j)]
  BY <1>1 DEF Rows, Amounts, TypeOK
<1>4. /\ left' \in [Jobs -> Amounts] /\ \A i \in Jobs \ {j} : left'[i] = left[i]
      /\ \A u \in Users : left'[j][u] = followers[u][Owner(j)]
  BY <1>1, <1>2, <1>3 DEF TypeOK
<1>5. /\ chosen' \in [Jobs -> SUBSET Users] /\ \A i \in Jobs \ {j} : chosen'[i] = chosen[i]
      /\ chosen'[j] = {u \in Users : left'[j][u] > 0}
  BY <1>1, <1>2 DEF TypeOK
<1>6. /\ pc' \in [Jobs -> Phases] /\ \A i \in Jobs \ {j} : pc'[i] = pc[i]
      /\ pc'[j] = "copy" \/ (pc'[j] = "done" /\ chosen'[j] = {})
  BY <1>1, <1>2 DEF TypeOK, Phases, Waits, Ended
<1>7. TypeOK'
  BY <1>1, <1>2, <1>4, <1>5, <1>6 DEF TypeOK
<1>8. OthersKeep(j)
  BY <1>2, <1>4, <1>5, <1>6 DEF OthersKeep
<1>9. ASSUME NEW u \in Users
      PROVE  OrdersInv(j, u)' /\ TradesInv(j, u)' /\ FollowersInv(j, u)' /\ RowsInv(j, u)'
  <2>1. OrdersInv(j, u) /\ TradesInv(j, u) /\ FollowersInv(j, u) /\ RowsInv(j, u)
    BY <1>1 DEF JobInv
  <2>2. orders[j][u] \in Nat /\ trades[j][u] \in Nat /\ stalls[j] \in Nat
    BY <1>1, JobTypes
  <2>3. left'[j][u] \in {0, 1} /\ (u = Owner(j) => left'[j][u] = 0)
    BY <1>1, <1>4, JobTypes DEF TypeOK
  <2>4. OrdersInv(j, u)' /\ TradesInv(j, u)'
    BY <1>2, <1>6, <2>1, <2>2, <2>3 DEF OrdersInv, TradesInv, Before, Copying, Owner
  <2>5. FollowersInv(j, u)'
    <3>1. followers[u][Owner(j)] > 0 => u \in during[j]
      BY <1>2, <2>1 DEF FollowersInv, Active, Waits
    <3>. QED  BY <1>2, <1>4, <1>6, <2>1, <3>1 DEF FollowersInv, Copying, Owner
  <2>6. RowsInv(j, u)'
    <3>1. trades[j][Owner(j)] > 0
      BY <1>2, <2>1 DEF RowsInv
    <3>. QED  BY <1>2, <1>5, <1>6, <3>1 DEF RowsInv, Owner
  <2>. QED  BY <2>4, <2>5, <2>6
<1>. QED  BY <1>7, <1>8, <1>9, OneJob DEF JobInv

(* The order of a follower, whose row comes next.                          *)
LEMMA CopyOrderKeeps ==
  ASSUME IInv, NEW j \in Jobs, CopyOrder(j)
  PROVE  IInv'
<1>1. TypeOK /\ JobInv(j) /\ Owner(j) \in Users
  BY JobTypes DEF IInv, TypeOK, Owner
<1>2. PICK v \in Users, o \in Outcomes(Market(j).quantity) :
        /\ left[j][v] > 0
        /\ left' = [left EXCEPT ![j][v] = @ - 1]
        /\ turn' = [turn EXCEPT ![j] = v]
        /\ Execute(j, v, o)
        /\ Become(j, IF Answers(o) THEN "insertCopy" ELSE "failed")
  BY DEF CopyOrder
<1>3. UNCHANGED <<followers, job, chosen, during, stalls, trades>> /\ pc[j] = "copy"
  BY DEF CopyOrder
<1>4. /\ pc' \in [Jobs -> Phases] /\ pc'[j] \in {"insertCopy", "failed"}
      /\ \A i \in Jobs \ {j} : pc'[i] = pc[i]
  BY <1>1, <1>2 DEF Become, TypeOK, Phases, Waits, Ended
<1>. DEFINE n == orders[j][v] + Sent(o)
            k == left[j][v] - 1
<1>5. n \in Nat /\ n <= orders[j][v] + 1 /\ k \in Nat
  BY <1>1, <1>2, JobTypes, OneMore
<1>6. orders' = [orders EXCEPT ![j][v] = n] /\ left' = [left EXCEPT ![j][v] = k]
  BY <1>2 DEF Execute
<1>7. left[j][v] = k + 1
  BY <1>1, JobTypes
<1>. HIDE DEF n, k
<1>8. /\ orders' \in [Jobs -> Amounts] /\ \A i \in Jobs \ {j} : orders'[i] = orders[i]
      /\ orders'[j][v] = n
      /\ \A u \in Users \ {v} : orders'[j][u] = orders[j][u]
  BY <1>1, <1>5, <1>6 DEF TypeOK, Amounts
<1>9. /\ left' \in [Jobs -> Amounts] /\ \A i \in Jobs \ {j} : left'[i] = left[i]
      /\ left'[j][v] = k
      /\ \A u \in Users \ {v} : left'[j][u] = left[j][u]
  BY <1>1, <1>5, <1>6 DEF TypeOK, Amounts
<1>10. turn' \in [Jobs -> Users] /\ turn'[j] = v /\ \A i \in Jobs \ {j} : turn'[i] = turn[i]
  BY <1>1, <1>2 DEF TypeOK
<1>11. TypeOK'
  BY <1>1, <1>3, <1>4, <1>8, <1>9, <1>10 DEF TypeOK
<1>12. OthersKeep(j)
  BY <1>3, <1>4, <1>8, <1>9, <1>10 DEF OthersKeep
<1>13. v \in during[j]
  BY <1>1, <1>2, <1>3 DEF JobInv, FollowersInv, Copying
<1>14. ASSUME NEW u \in Users
       PROVE  OrdersInv(j, u)' /\ TradesInv(j, u)' /\ FollowersInv(j, u)' /\ RowsInv(j, u)'
  <2>1. OrdersInv(j, u) /\ TradesInv(j, u) /\ FollowersInv(j, u) /\ RowsInv(j, u)
    BY <1>1 DEF JobInv
  <2>2. /\ orders[j][u] \in Nat /\ trades[j][u] \in Nat /\ stalls[j] \in Nat
        /\ left[j][u] \in Nat
    BY <1>1, JobTypes
  <2>3. /\ orders[j][u] + left[j][u] <= stalls[j] + 1
        /\ trades[j][u] + left[j][u] <= stalls[j] + 1
    BY <1>3, <2>1 DEF OrdersInv, TradesInv, Copying
  <2>4. OrdersInv(j, u)'
    <3>1. orders'[j][u] + left'[j][u] <= stalls[j] + 1 /\ orders'[j][u] <= stalls[j] + 1
      BY <1>5, <1>7, <1>8, <1>9, <2>2, <2>3
    <3>. QED  BY <1>3, <1>4, <3>1 DEF OrdersInv, Before
  <2>5. TradesInv(j, u)'
    <3>1. trades[j][u] <= stalls[j] + 1
      BY <2>2, <2>3
    <3>2. trades[j][u] + left'[j][u] + One(turn'[j] = u) <= stalls[j] + 1
      <4>1. CASE u = v
        BY <1>5, <1>7, <1>9, <1>10, <2>2, <2>3, <4>1 DEF One
      <4>2. CASE u # v
        BY <1>9, <1>10, <2>2, <2>3, <4>2 DEF One
      <4>. QED  BY <4>1, <4>2
    <3>. QED  BY <1>3, <1>4, <3>1, <3>2 DEF TradesInv, Before
  <2>6. FollowersInv(j, u)'
    <3>1. left'[j][u] > 0 => u \in during[j]
      BY <1>3, <1>9, <1>13, <2>1 DEF FollowersInv, Copying
    <3>2. Active(j) /\ Owner(j)' = Owner(j)
      BY <1>3 DEF Active, Waits, Owner
    <3>3. followers[u][Owner(j)] > 0 => u \in during[j]
      BY <2>1, <3>2 DEF FollowersInv
    <3>4. u # Owner(j) /\ orders'[j][u] + trades[j][u] > 0 => u \in during[j]
      BY <1>8, <1>13, <2>1 DEF FollowersInv
    <3>. QED  BY <1>3, <1>10, <1>13, <3>1, <3>2, <3>3, <3>4 DEF FollowersInv
  <2>7. RowsInv(j, u)'
    <3>1. trades[j][Owner(j)] > 0 /\ (u \in chosen[j] => trades[j][u] > 0 \/ left[j][u] > 0)
      BY <1>3, <2>1 DEF RowsInv, Copying
    <3>2. u \in chosen[j] => trades[j][u] > 0 \/ left'[j][u] > 0 \/ u = turn'[j]
      BY <1>9, <1>10, <3>1
    <3>. QED  BY <1>3, <1>4, <3>1, <3>2 DEF RowsInv, Owner
  <2>. QED  BY <2>4, <2>5, <2>6, <2>7
<1>. QED  BY <1>11, <1>12, <1>14, OneJob DEF JobInv

(* The row of a copy; the job is done when nothing is left.                *)
LEMMA CopyRowKeeps ==
  ASSUME IInv, NEW j \in Jobs, CopyRow(j)
  PROVE  IInv'
<1>. DEFINE v == turn[j]
<1>1. TypeOK /\ JobInv(j) /\ Owner(j) \in Users /\ v \in Users
  BY JobTypes DEF IInv, TypeOK, Owner
<1>2. PICK o \in InsertOutcomes :
        /\ Insert(j, v, o)
        /\ Become(j, IF o # "done" THEN "failed" ELSE IF Rest(j) THEN "copy" ELSE "done")
  BY DEF CopyRow
<1>3. UNCHANGED <<followers, job, left, turn, chosen, during, stalls, orders>>
      /\ pc[j] = "insertCopy"
  BY DEF CopyRow
<1>4. /\ pc' \in [Jobs -> Phases] /\ pc'[j] \in {"failed", "copy", "done"}
      /\ pc'[j] \in {"copy", "done"} => o = "done"
      /\ pc'[j] = "done" => \A u \in Users : ~(left[j][u] > 0)
      /\ \A i \in Jobs \ {j} : pc'[i] = pc[i]
  BY <1>1, <1>2 DEF Become, Rest, TypeOK, Phases, Waits, Ended
<1>. DEFINE n == trades[j][v] + Stored(o)
<1>5. /\ n \in Nat /\ n >= trades[j][v] /\ n <= trades[j][v] + 1 /\ (o = "done" => n > 0)
      /\ trades[j][v] \in Nat
  BY <1>1, JobTypes, OneMore DEF Stored
<1>6. trades' = [trades EXCEPT ![j][v] = n]
  BY <1>2 DEF Insert
<1>. HIDE DEF n, v
<1>7. /\ trades' \in [Jobs -> Amounts] /\ \A i \in Jobs \ {j} : trades'[i] = trades[i]
      /\ trades'[j][v] = n
      /\ \A u \in Users \ {v} : trades'[j][u] = trades[j][u]
  BY <1>1, <1>5, <1>6 DEF TypeOK, Amounts
<1>8. TypeOK'
  BY <1>1, <1>3, <1>4, <1>7 DEF TypeOK
<1>9. OthersKeep(j)
  BY <1>3, <1>4, <1>7 DEF OthersKeep
<1>10. v \in during[j]
  BY <1>1, <1>3 DEF JobInv, FollowersInv, v
<1>11. ASSUME NEW u \in Users
       PROVE  OrdersInv(j, u)' /\ TradesInv(j, u)' /\ FollowersInv(j, u)' /\ RowsInv(j, u)'
  <2>1. OrdersInv(j, u) /\ TradesInv(j, u) /\ FollowersInv(j, u) /\ RowsInv(j, u)
    BY <1>1 DEF JobInv
  <2>2. /\ orders[j][u] \in Nat /\ trades[j][u] \in Nat /\ stalls[j] \in Nat
        /\ left[j][u] \in Nat
    BY <1>1, JobTypes
  <2>3. OrdersInv(j, u)'
    BY <1>3, <1>4, <2>1 DEF OrdersInv, Before, Copying
  <2>4. TradesInv(j, u)'
    <3>1. trades[j][u] + left[j][u] + One(v = u) <= stalls[j] + 1
      BY <1>3, <2>1 DEF TradesInv, v
    <3>2. trades'[j][u] + left[j][u] <= stalls[j] + 1 /\ trades'[j][u] <= stalls[j] + 1
      <4>1. CASE u = v
        BY <1>5, <1>7, <2>2, <3>1, <4>1 DEF One
      <4>2. CASE u # v
        BY <1>7, <2>2, <3>1, <4>2 DEF One
      <4>. QED  BY <4>1, <4>2
    <3>. QED  BY <1>3, <1>4, <3>2 DEF TradesInv, Before
  <2>5. FollowersInv(j, u)'
    <3>1. Active(j) /\ Owner(j)' = Owner(j)
      BY <1>3 DEF Active, Waits, Owner
    <3>2. /\ followers[u][Owner(j)] > 0 => u \in during[j]
          /\ left[j][u] > 0 => u \in during[j]
      BY <1>3, <2>1, <3>1 DEF FollowersInv, Copying
    <3>3. u # Owner(j) /\ orders[j][u] + trades'[j][u] > 0 => u \in during[j]
      BY <1>7, <1>10, <2>1 DEF FollowersInv
    <3>. QED  BY <1>3, <1>4, <3>1, <3>2, <3>3 DEF FollowersInv
  <2>6. RowsInv(j, u)'
    <3>1. trades'[j][Owner(j)] > 0
      <4>1. trades[j][Owner(j)] > 0
        BY <1>3, <2>1 DEF RowsInv, Copying
      <4>. QED  BY <1>1, <1>5, <1>7, <4>1
    <3>2. u \in chosen[j] => trades[j][u] > 0 \/ left[j][u] > 0 \/ u = v
      BY <1>3, <2>1 DEF RowsInv, v
    <3>3. pc'[j] \in {"copy", "done"} /\ u \in chosen[j] => trades'[j][u] > 0 \/ left[j][u] > 0
      BY <1>4, <1>5, <1>7, <3>2
    <3>. QED  BY <1>3, <1>4, <3>1, <3>3 DEF RowsInv, Owner
  <2>. QED  BY <2>3, <2>4, <2>5, <2>6
<1>. QED  BY <1>8, <1>9, <1>11, OneJob DEF JobInv

-----------------------------------------------------------------------------
(* The invariant of the jobs holds at first.                               *)
LEMMA InitInvariant == AutomosInit => IInv
<1>. SUFFICES ASSUME AutomosInit PROVE IInv
  OBVIOUS
<1>1. CopyInit
  BY DEF AutomosInit
<1>. DEFINE zero == [u \in Users |-> 0]
<1>2. zero \in Amounts /\ \A u \in Users : zero[u] = 0
  BY DEF Amounts
<1>3. /\ pc = [j \in Jobs |-> "new"] /\ stalls = [j \in Jobs |-> 0]
      /\ left = [j \in Jobs |-> zero] /\ orders = [j \in Jobs |-> zero]
      /\ trades = [j \in Jobs |-> zero]
  BY <1>1 DEF CopyInit
<1>4. job \in [Jobs -> [user : Users, market : Markets]] /\ \A j \in Jobs : Owner(j) \in Users
  BY <1>1 DEF CopyInit, Owner
<1>5. /\ followers \in [Users -> [Users -> {0, 1}]] /\ \A u \in Users : followers[u][u] = 0
      /\ turn \in [Jobs -> Users]
      /\ chosen = [j \in Jobs |-> {}] /\ during = [j \in Jobs |-> {}]
  BY <1>1, <1>4 DEF CopyInit
<1>. HIDE DEF zero
<1>6. TypeOK
  BY <1>2, <1>3, <1>4, <1>5 DEF TypeOK, Phases
<1>7. ASSUME NEW j \in Jobs PROVE JobInv(j)
  <2>1. /\ pc[j] = "new" /\ stalls[j] = 0 /\ chosen[j] = {} /\ Owner(j) \in Users
        /\ \A u \in Users : orders[j][u] = 0 /\ trades[j][u] = 0
    BY <1>2, <1>3, <1>4, <1>5
  <2>. QED  BY <2>1
            DEF JobInv, OrdersInv, TradesInv, FollowersInv, RowsInv, Before, Copying, Active, Waits
<1>. QED  BY <1>6, <1>7 DEF IInv

(* Every step keeps it.                                                    *)
LEMMA NextInvariant == IInv /\ [AutomosNext]_automosVars => IInv'
<1>. SUFFICES ASSUME IInv, [AutomosNext]_automosVars PROVE IInv'
  OBVIOUS
<1>1. CASE UNCHANGED copyVars
  BY <1>1 DEF copyVars, IInv, TypeOK, JobInv, OrdersInv, TradesInv, FollowersInv, RowsInv,
              Owner, Active
<1>2. ASSUME NEW u \in Users, NEW m \in Users, Follow(u, m) \/ Unfollow(u, m) PROVE IInv'
  BY <1>2, FollowKeeps
<1>3. ASSUME NEW j \in Jobs, Enqueue(j) \/ JobStep(j) PROVE IInv'
  BY <1>3, EnqueueKeeps, StartKeeps, TradeKeeps, InsertTradeKeeps, SelectFollowersKeeps,
     CopyOrderKeeps, CopyRowKeeps DEF JobStep
<1>4. CASE Crash
  BY <1>4, StallKeeps DEF Crash
<1>5. CASE UNCHANGED automosVars
  BY <1>1, <1>5 DEF automosVars
<1>. QED  BY <1>1, <1>2, <1>3, <1>4, <1>5 DEF AutomosNext, CopyNext

(* The invariant of the jobs holds throughout.                             *)
THEOREM JobsInvariant == Spec => []IInv
BY InitInvariant, NextInvariant, PTL DEF Spec

(* An attempt of a job trades at most once for each user, so a user has at *)
(* most one order and one row more than the job had crashes (runUser,      *)
(* propagate).                                                             *)
THEOREM JobsTradeOncePerAttempt == Spec => []OncePerAttempt
<1>1. IInv => OncePerAttempt
  BY DEF IInv, JobInv, OrdersInv, TradesInv, OncePerAttempt
<1>. QED  BY <1>1, JobsInvariant, PTL

(* A trade is copied to followers only, and a job that is done wrote the   *)
(* row of its owner and of everyone it found (propagate).                  *)
THEOREM CopiesGoToFollowers == Spec => []CopiesAreOfFollowers
<1>1. IInv => CopiesAreOfFollowers
  <2>. SUFFICES ASSUME IInv, NEW j \in Jobs
                PROVE  /\ \A u \in Users \ {Owner(j)} :
                            orders[j][u] + trades[j][u] > 0 => u \in during[j]
                       /\ pc[j] = "done" => \A u \in chosen[j] \cup {Owner(j)} : trades[j][u] > 0
    BY DEF CopiesAreOfFollowers
  <2>1. TypeOK /\ JobInv(j) /\ Owner(j) \in Users /\ chosen[j] \subseteq Users
    BY DEF IInv, TypeOK, Owner
  <2>. QED  BY <2>1 DEF JobInv, FollowersInv, RowsInv
<1>. QED  BY <1>1, JobsInvariant, PTL
-----------------------------------------------------------------------------
(***************************************************************************)
(* Orders and rows                                                         *)
(***************************************************************************)
(* The user whose row a job is about to write.                             *)
OwedTo(j) == IF pc[j] = "insert" THEN Owner(j) ELSE turn[j]

Inserting == {"insert", "insertCopy"}

(* One order may be without its row while the row is on its way, and after *)
(* an attempt that failed.                                                 *)
RecordsInv(j) ==
  /\ \A u \in Users : trades[j][u] <= orders[j][u]
  /\ pc[j] \in Inserting => trades[j][OwedTo(j)] < orders[j][OwedTo(j)]
  /\ Cardinality(Unrecorded(j)) <= stalls[j] + One(pc[j] \in Inserting \cup {"failed"})

RInv == mode = "live" => \A j \in Jobs : RecordsInv(j)

(* The orders without a row, one by one.                                   *)
LEMMA UnrecordedOrders ==
  ASSUME NEW j, NEW u \in Users, NEW n \in trades[j][u] + 1 .. orders[j][u]
  PROVE  <<u, n>> \in Unrecorded(j)
<1>1. <<u, n>> \in {u} \X (trades[j][u] + 1 .. orders[j][u])
  OBVIOUS
<1>. QED  BY <1>1 DEF Unrecorded

(* There are finitely many.                                                *)
LEMMA UnrecordedIsFinite ==
  ASSUME IInv, NEW j \in Jobs
  PROVE  IsFiniteSet(Unrecorded(j)) /\ Cardinality(Unrecorded(j)) \in Nat
<1>1. TypeOK /\ stalls[j] \in Nat /\ \A u \in Users : orders[j][u] <= stalls[j] + 1
  BY DEF IInv, JobInv, OrdersInv, TypeOK
<1>2. \A u \in Users : orders[j][u] \in Nat /\ trades[j][u] \in Nat
  BY <1>1, JobTypes
<1>3. \A u \in Users : trades[j][u] + 1 .. orders[j][u] \subseteq 1 .. stalls[j] + 1
  BY <1>1, <1>2
<1>4. Unrecorded(j) \subseteq Users \X (1 .. stalls[j] + 1)
  BY <1>3 DEF Unrecorded
<1>5. IsFiniteSet(1 .. stalls[j] + 1)
  BY <1>1, FS_Interval, 1 \in Int, stalls[j] + 1 \in Int
<1>6. IsFiniteSet(Users \X (1 .. stalls[j] + 1))
  BY <1>5, FS_Product, CopyAssumption
<1>. QED  BY <1>4, <1>6, FS_Subset, FS_CardinalityType

(* As it stands in the state before and after a step.                      *)
LEMMA UnrecordedAreFinite == IInv => \A i \in Jobs : Cardinality(Unrecorded(i)) \in Nat
BY UnrecordedIsFinite

(* An order more is one more without a row; a row is one less.             *)
LEMMA OneOrderMore ==
  ASSUME IInv, NEW j \in Jobs, NEW v \in Users, trades[j][v] <= orders[j][v],
         trades' = trades, orders'[j][v] = orders[j][v] + 1,
         \A u \in Users \ {v} : orders'[j][u] = orders[j][u]
  PROVE  Cardinality(Unrecorded(j)') <= Cardinality(Unrecorded(j)) + 1
<1>. DEFINE x == <<v, orders[j][v] + 1>>
<1>1. \A u \in Users : orders[j][u] \in Nat /\ trades[j][u] \in Nat
  BY JobTypes DEF IInv
<1>2. trades[j][v] + 1 .. orders'[j][v] = (trades[j][v] + 1 .. orders[j][v]) \cup {orders[j][v] + 1}
  BY <1>1
<1>3. Unrecorded(j)' = UNION {{u} \X (trades[j][u] + 1 .. orders'[j][u]) : u \in Users}
  BY DEF Unrecorded
<1>4. Unrecorded(j)' = Unrecorded(j) \cup {x}
  BY <1>2, <1>3 DEF Unrecorded
<1>5. /\ IsFiniteSet(Unrecorded(j)) /\ Cardinality(Unrecorded(j)) \in Nat
  BY UnrecordedIsFinite
<1>. HIDE DEF x
<1>6. Cardinality(Unrecorded(j) \cup {x}) =
        IF x \in Unrecorded(j) THEN Cardinality(Unrecorded(j)) ELSE Cardinality(Unrecorded(j)) + 1
  BY <1>5, FS_AddElement, Zenon
<1>. QED  BY <1>4, <1>5, <1>6

(* The row of an order that had none.                                      *)
LEMMA OneRowMore ==
  ASSUME IInv, NEW j \in Jobs, NEW v \in Users, trades[j][v] < orders[j][v],
         orders' = orders, trades'[j][v] = trades[j][v] + 1,
         \A u \in Users \ {v} : trades'[j][u] = trades[j][u]
  PROVE  Cardinality(Unrecorded(j)') = Cardinality(Unrecorded(j)) - 1
<1>. DEFINE x == <<v, trades[j][v] + 1>>
<1>1. \A u \in Users : orders[j][u] \in Nat /\ trades[j][u] \in Nat
  BY JobTypes DEF IInv
<1>2. trades'[j][v] + 1 .. orders[j][v] = (trades[j][v] + 1 .. orders[j][v]) \ {trades[j][v] + 1}
  BY <1>1
<1>3. Unrecorded(j)' = UNION {{u} \X (trades'[j][u] + 1 .. orders[j][u]) : u \in Users}
  BY DEF Unrecorded
<1>4. Unrecorded(j)' = Unrecorded(j) \ {x}
  BY <1>2, <1>3 DEF Unrecorded
<1>5. x \in Unrecorded(j)
  BY <1>1, UnrecordedOrders
<1>6. /\ IsFiniteSet(Unrecorded(j)) /\ Cardinality(Unrecorded(j)) \in Nat
  BY UnrecordedIsFinite
<1>. HIDE DEF x
<1>7. Cardinality(Unrecorded(j) \ {x}) =
        IF x \in Unrecorded(j) THEN Cardinality(Unrecorded(j)) - 1 ELSE Cardinality(Unrecorded(j))
  BY <1>6, FS_RemoveElement, Zenon
<1>. QED  BY <1>4, <1>5, <1>7

(* A step that leaves the orders and rows of a job alone, and where it is  *)
(* owed a row.                                                             *)
LEMMA RecordsMove ==
  ASSUME NEW j \in Jobs, IInv, RecordsInv(j),
         orders'[j] = orders[j], trades'[j] = trades[j], stalls'[j] \in Nat,
         pc'[j] \notin Inserting \/ (pc'[j] = pc[j] /\ OwedTo(j)' = OwedTo(j)),
         \/ stalls'[j] = stalls[j] /\ (pc[j] \in Inserting \cup {"failed"} =>
                                        pc'[j] \in Inserting \cup {"failed"})
         \/ stalls'[j] = stalls[j] + 1
  PROVE  RecordsInv(j)'
<1>1. Unrecorded(j)' = Unrecorded(j)
  BY DEF Unrecorded
<1>2. /\ Cardinality(Unrecorded(j)) \in Nat /\ stalls[j] \in Nat
  BY UnrecordedIsFinite DEF IInv, TypeOK
<1>3. Cardinality(Unrecorded(j)') <= stalls'[j] + One(pc[j] \in Inserting \cup {"failed"})'
  BY <1>1, <1>2 DEF RecordsInv, One
<1>4. \A u \in Users : trades'[j][u] <= orders'[j][u]
  BY DEF RecordsInv
<1>5. pc'[j] \in Inserting => trades'[j][OwedTo(j)'] < orders'[j][OwedTo(j)']
  BY DEF RecordsInv
<1>. QED  BY <1>3, <1>4, <1>5 DEF RecordsInv

(* An order of a job for v, with outcome o, while nothing else is owed.    *)
LEMMA RecordsOrder ==
  ASSUME NEW j \in Jobs, NEW v \in Users, NEW o, IInv, IInv', RecordsInv(j), mode = "live",
         o \in Outcomes(Market(j).quantity), Execute(j, v, o),
         UNCHANGED <<trades, stalls>>, pc[j] \in {"getUser", "copy"},
         pc'[j] \in IF Answers(o) THEN Inserting ELSE {"failed"},
         OwedTo(j)' = v \/ pc'[j] = "failed"
  PROVE  RecordsInv(j)'
<1>1. o \in {"placed", "refused", "lost"}
  BY DEF Outcomes
<1>2. pc'[j] \in Inserting => o = "placed"
  BY <1>1 DEF Answers, Inserting
<1>3. pc'[j] \in Inserting \cup {"failed"} /\ pc[j] \notin Inserting \cup {"failed"}
  BY DEF Inserting
<1>4. /\ \A u \in Users : orders[j][u] \in Nat /\ trades[j][u] \in Nat /\ trades[j][u] <= orders[j][u]
      /\ stalls[j] \in Nat
  BY JobTypes DEF IInv, RecordsInv, TypeOK
<1>5. /\ Cardinality(Unrecorded(j)) \in Nat /\ Cardinality(Unrecorded(j)) <= stalls[j]
  BY <1>3, <1>4, UnrecordedIsFinite DEF RecordsInv, One
<1>6. orders' = [orders EXCEPT ![j][v] = @ + Sent(o)]
  BY DEF Execute
<1>7. orders \in [Jobs -> Amounts]
  BY DEF IInv, TypeOK
<1>8. /\ orders'[j][v] = orders[j][v] + Sent(o)
      /\ \A u \in Users \ {v} : orders'[j][u] = orders[j][u]
  BY <1>6, <1>7 DEF Amounts
<1>9. Sent(o) \in {0, 1} /\ (o = "placed" => Sent(o) = 1)
  BY DEF Sent
<1>10. \A u \in Users : trades'[j][u] <= orders'[j][u]
  BY <1>4, <1>8, <1>9
<1>11. pc'[j] \in Inserting => trades'[j][v] < orders'[j][v]
  BY <1>2, <1>4, <1>8, <1>9
<1>12. Cardinality(Unrecorded(j)') <= Cardinality(Unrecorded(j)) + 1
  <2>1. CASE Sent(o) = 1
    BY <1>4, <1>8, <2>1, OneOrderMore
  <2>2. CASE Sent(o) = 0
    <3>1. \A u \in Users : orders'[j][u] = orders[j][u]
      BY <1>4, <1>8, <2>2
    <3>2. Unrecorded(j)' = Unrecorded(j)
      BY <3>1 DEF Unrecorded
    <3>. QED  BY <1>5, <3>2
  <2>. QED  BY <1>9, <2>1, <2>2
<1>13. Cardinality(Unrecorded(j)') \in Nat
  <2>1. (\A i \in Jobs : Cardinality(Unrecorded(i)) \in Nat)'
    BY UnrecordedAreFinite, PTL
  <2>. QED  BY <2>1
<1>14. Cardinality(Unrecorded(j)') <= stalls[j] + 1
  BY <1>4, <1>5, <1>12, <1>13
<1>15. pc'[j] \in Inserting => trades'[j][OwedTo(j)'] < orders'[j][OwedTo(j)']
  BY <1>11 DEF Inserting
<1>. QED  BY <1>3, <1>10, <1>14, <1>15 DEF RecordsInv, One

(* The row a job owes, with outcome o.                                     *)
LEMMA RecordsRow ==
  ASSUME NEW j \in Jobs, NEW o, IInv, IInv', RecordsInv(j), Insert(j, OwedTo(j), o),
         UNCHANGED <<orders, stalls>>, pc[j] \in Inserting,
         o = "failed" => pc'[j] = "failed",
         pc'[j] \notin Inserting
  PROVE  RecordsInv(j)'
<1>. DEFINE v == OwedTo(j)
<1>1. v \in Users
  BY DEF IInv, TypeOK, Owner, OwedTo
<1>2. /\ \A u \in Users : orders[j][u] \in Nat /\ trades[j][u] \in Nat /\ trades[j][u] <= orders[j][u]
      /\ stalls[j] \in Nat /\ trades[j][v] < orders[j][v]
  BY JobTypes DEF IInv, RecordsInv, TypeOK
<1>3. trades' = [trades EXCEPT ![j][v] = @ + Stored(o)] /\ trades \in [Jobs -> Amounts]
  BY DEF Insert, IInv, TypeOK
<1>4. Cardinality(Unrecorded(j)) \in Nat /\ Cardinality(Unrecorded(j)) <= stalls[j] + 1
  BY UnrecordedIsFinite DEF RecordsInv, One
<1>. HIDE DEF v
<1>5. /\ trades'[j][v] = trades[j][v] + Stored(o)
      /\ \A u \in Users \ {v} : trades'[j][u] = trades[j][u]
  BY <1>1, <1>3 DEF Amounts
<1>6. CASE o = "failed"
  <2>1. \A u \in Users : trades'[j][u] = trades[j][u]
    BY <1>2, <1>5, <1>6 DEF Stored
  <2>2. Unrecorded(j)' = Unrecorded(j)
    BY <2>1 DEF Unrecorded
  <2>. QED  BY <1>2, <1>4, <1>6, <2>1, <2>2 DEF RecordsInv, One
<1>7. CASE o # "failed"
  <2>1. trades'[j][v] = trades[j][v] + 1
    BY <1>5, <1>7 DEF Stored
  <2>2. Cardinality(Unrecorded(j)') = Cardinality(Unrecorded(j)) - 1
    BY <1>1, <1>2, <1>5, <2>1, OneRowMore
  <2>3. \A u \in Users : trades'[j][u] <= orders[j][u]
    BY <1>2, <1>5, <2>1
  <2>4. Cardinality(Unrecorded(j)') <= stalls[j]
    BY <1>2, <1>4, <2>2
  <2>5. stalls[j] <= stalls[j] + One(pc[j] \in Inserting \cup {"failed"})'
    BY <1>2 DEF One
  <2>6. Cardinality(Unrecorded(j)') <= stalls[j] + One(pc[j] \in Inserting \cup {"failed"})'
    BY <1>2, <1>4, <2>2, <2>4 DEF One
  <2>. QED  BY <2>3, <2>6 DEF RecordsInv
<1>. QED  BY <1>6, <1>7

(* Whether orders reach the exchange is settled before the process starts. *)
LEMMA ModeStays == [AutomosNext]_automosVars => mode' = mode
<1>. SUFFICES ASSUME [AutomosNext]_automosVars PROVE mode' = mode
  OBVIOUS
<1>1. CASE CopyNext
  BY <1>1 DEF CopyNext, JobStep, Follow, Unfollow, Enqueue, Start, Skip, Trade, InsertTrade,
              SelectFollowers, CopyOrder, CopyRow, runtimeVars
<1>2. CASE LoopNext
  BY <1>2 DEF LoopNext, LoopStep, Reject, Approve, Turn
<1>3. CASE Crash
  BY <1>3 DEF Crash
<1>4. CASE UNCHANGED automosVars
  BY <1>4 DEF automosVars, runtimeVars
<1>. QED  BY <1>1, <1>2, <1>3, <1>4 DEF AutomosNext

(* A step of a job leaves the records of the others alone.                 *)
LEMMA OtherRecordsKeep ==
  ASSUME NEW j \in Jobs, NEW i \in Jobs, IInv, RecordsInv(i), i # j, job' = job,
         pc'[i] = pc[i], turn'[i] = turn[i], stalls'[i] = stalls[i],
         orders'[i] = orders[i], trades'[i] = trades[i]
  PROVE  RecordsInv(i)'
<1>1. OwedTo(i)' = OwedTo(i) /\ stalls'[i] \in Nat
  BY DEF OwedTo, Owner, IInv, TypeOK
<1>. QED  BY <1>1, RecordsMove

(* The records of a job through its own steps.                             *)
LEMMA RecordsStep ==
  ASSUME NEW j \in Jobs, IInv, IInv', mode = "live", \A i \in Jobs : RecordsInv(i),
         Enqueue(j) \/ JobStep(j)
  PROVE  \A i \in Jobs : RecordsInv(i)'
<1>1. /\ pc \in [Jobs -> Phases] /\ turn \in [Jobs -> Users] /\ stalls \in [Jobs -> Nat]
      /\ orders \in [Jobs -> Amounts] /\ trades \in [Jobs -> Amounts]
      /\ Owner(j) \in Users
  BY DEF IInv, TypeOK, Owner
<1>2. CASE Enqueue(j) \/ Start(j) \/ Skip(j) \/ SelectFollowers(j)
  <2>1. UNCHANGED <<job, turn, stalls, orders, trades>>
    BY <1>2 DEF Enqueue, Start, Skip, SelectFollowers
  <2>2. /\ pc[j] \in {"new", "waiting", "getUser", "select"}
        /\ pc'[j] \in {"waiting", "getUser", "skipped", "copy", "done"}
        /\ \A i \in Jobs \ {j} : pc'[i] = pc[i]
    BY <1>1, <1>2 DEF Enqueue, Start, Skip, SelectFollowers, Become
  <2>3. RecordsInv(j)'
    BY <1>1, <2>1, <2>2, RecordsMove DEF Inserting
  <2>. QED  BY <2>1, <2>2, <2>3, OtherRecordsKeep
<1>3. CASE Trade(j)
  <2>1. PICK o \in Outcomes(Market(j).quantity) :
          Execute(j, Owner(j), o) /\ Become(j, IF Answers(o) THEN "insert" ELSE "failed")
    BY <1>3 DEF Trade
  <2>2. UNCHANGED <<job, turn, stalls, trades>> /\ pc[j] = "getUser"
    BY <1>3 DEF Trade
  <2>3. /\ pc'[j] = IF Answers(o) THEN "insert" ELSE "failed"
        /\ \A i \in Jobs \ {j} : pc'[i] = pc[i] /\ orders'[i] = orders[i]
    BY <1>1, <2>1 DEF Become, Execute
  <2>4. OwedTo(j)' = Owner(j) \/ pc'[j] = "failed"
    BY <2>2, <2>3 DEF OwedTo, Owner
  <2>5. pc'[j] \in IF Answers(o) THEN Inserting ELSE {"failed"}
    BY <2>3 DEF Inserting
  <2>6. RecordsInv(j)'
    BY <1>1, <2>1, <2>2, <2>4, <2>5, RecordsOrder
  <2>. QED  BY <2>2, <2>3, <2>6, OtherRecordsKeep
<1>4. CASE CopyOrder(j)
  <2>1. PICK v \in Users, o \in Outcomes(Market(j).quantity) :
          /\ turn' = [turn EXCEPT ![j] = v] /\ Execute(j, v, o)
          /\ Become(j, IF Answers(o) THEN "insertCopy" ELSE "failed")
    BY <1>4 DEF CopyOrder
  <2>2. UNCHANGED <<job, stalls, trades>> /\ pc[j] = "copy"
    BY <1>4 DEF CopyOrder
  <2>3. /\ pc'[j] = IF Answers(o) THEN "insertCopy" ELSE "failed"
        /\ turn'[j] = v
        /\ \A i \in Jobs \ {j} :
             pc'[i] = pc[i] /\ orders'[i] = orders[i] /\ turn'[i] = turn[i]
    BY <1>1, <2>1 DEF Become, Execute
  <2>4. OwedTo(j)' = v
    BY <2>3 DEF OwedTo
  <2>5. pc'[j] \in IF Answers(o) THEN Inserting ELSE {"failed"}
    BY <2>3 DEF Inserting
  <2>6. RecordsInv(j)'
    BY <1>1, <2>1, <2>2, <2>4, <2>5, RecordsOrder
  <2>. QED  BY <2>2, <2>3, <2>6, OtherRecordsKeep
<1>5. CASE InsertTrade(j) \/ CopyRow(j)
  <2>1. PICK o \in InsertOutcomes :
          /\ Insert(j, OwedTo(j), o)
          /\ \E next \in {"select", "copy", "done", "failed"} :
               Become(j, next) /\ (o = "failed" => next = "failed")
    <3>1. CASE InsertTrade(j)
      BY <3>1 DEF InsertTrade, OwedTo
    <3>2. CASE CopyRow(j)
      <4>1. OwedTo(j) = turn[j]
        BY <3>2 DEF CopyRow, OwedTo
      <4>. QED  BY <3>2, <4>1 DEF CopyRow
    <3>. QED  BY <1>5, <3>1, <3>2
  <2>2. UNCHANGED <<job, turn, stalls, orders>> /\ pc[j] \in Inserting
    BY <1>5 DEF InsertTrade, CopyRow, Inserting
  <2>3. /\ pc'[j] \notin Inserting /\ (o = "failed" => pc'[j] = "failed")
        /\ \A i \in Jobs \ {j} : pc'[i] = pc[i] /\ trades'[i] = trades[i]
    BY <1>1, <2>1 DEF Become, Insert, Inserting
  <2>4. RecordsInv(j)'
    BY <2>1, <2>2, <2>3, RecordsRow
  <2>. QED  BY <2>2, <2>3, <2>4, OtherRecordsKeep
<1>. QED  BY <1>2, <1>3, <1>4, <1>5 DEF JobStep

(* With a live client every row of a job has its order, and each attempt   *)
(* leaves one order without its row at most, whatever failed or died.      *)
THEOREM RowsAreOrdered == Spec => []RowsHaveOrders
<1>1. AutomosInit /\ IInv => RInv
  <2>. SUFFICES ASSUME AutomosInit, IInv, NEW j \in Jobs PROVE RecordsInv(j)
    BY DEF RInv
  <2>1. /\ pc[j] = "new" /\ stalls[j] = 0
        /\ \A u \in Users : orders[j][u] = 0 /\ trades[j][u] = 0
    BY DEF AutomosInit, CopyInit
  <2>2. Unrecorded(j) = {}
    BY <2>1 DEF Unrecorded
  <2>. QED  BY <2>1, <2>2, FS_EmptySet DEF RecordsInv, Inserting, One
<1>2. IInv /\ IInv' /\ RInv /\ [AutomosNext]_automosVars => RInv'
  <2>. SUFFICES ASSUME IInv, IInv', [AutomosNext]_automosVars, mode = "live",
                       \A j \in Jobs : RecordsInv(j)
                PROVE  \A j \in Jobs : RecordsInv(j)'
    BY ModeStays DEF RInv
  <2>1. CASE UNCHANGED <<job, pc, turn, stalls, orders, trades>>
    BY <2>1 DEF RecordsInv, Unrecorded, OwedTo, Owner
  <2>2. ASSUME NEW j \in Jobs, Enqueue(j) \/ JobStep(j) PROVE \A i \in Jobs : RecordsInv(i)'
    BY <2>2, RecordsStep
  <2>3. CASE \E u, m \in Users : Follow(u, m) \/ Unfollow(u, m)
    BY <2>1, <2>3 DEF Follow, Unfollow
  <2>4. CASE Crash
    <3>. SUFFICES ASSUME NEW j \in Jobs PROVE RecordsInv(j)'
      OBVIOUS
    <3>1. /\ pc' = [i \in Jobs |-> IF ~Active(i) THEN pc[i]
                                   ELSE IF stalls[i] < MaxStalled THEN "waiting" ELSE "failed"]
          /\ stalls' = [i \in Jobs |-> IF Active(i) THEN stalls[i] + 1 ELSE stalls[i]]
          /\ UNCHANGED <<job, turn, orders, trades>>
      BY <2>4 DEF Crash, Stall
    <3>2. stalls[j] \in Nat
      BY DEF IInv, TypeOK
    <3>3. CASE Active(j)
      <4>1. pc'[j] \notin Inserting /\ stalls'[j] = stalls[j] + 1
        BY <3>1, <3>3 DEF Inserting
      <4>. QED  BY <3>1, <3>2, <4>1, RecordsMove
    <3>4. CASE ~Active(j)
      <4>1. pc'[j] = pc[j] /\ stalls'[j] = stalls[j]
        BY <3>1, <3>4
      <4>2. OwedTo(j)' = OwedTo(j)
        BY <3>1, <4>1 DEF OwedTo, Owner
      <4>. QED  BY <3>1, <3>2, <4>1, <4>2, RecordsMove
    <3>. QED  BY <3>3, <3>4
  <2>5. CASE UNCHANGED copyVars
    BY <2>1, <2>5 DEF copyVars
  <2>. QED  BY <2>2, <2>3, <2>4, <2>5 DEF AutomosNext, CopyNext, automosVars
<1>3. IInv /\ RInv => RowsHaveOrders
  <2>. SUFFICES ASSUME IInv, RInv, mode = "live", NEW j \in Jobs
                PROVE  /\ \A u \in Users : trades[j][u] <= orders[j][u]
                       /\ Cardinality(Unrecorded(j)) <= stalls[j] + 1
    BY DEF RowsHaveOrders
  <2>1. stalls[j] \in Nat /\ Cardinality(Unrecorded(j)) \in Nat /\ RecordsInv(j)
    BY UnrecordedIsFinite DEF IInv, TypeOK, RInv
  <2>. QED  BY <2>1 DEF RecordsInv, One
<1>. QED  BY <1>1, <1>2, <1>3, JobsInvariant, PTL DEF Spec

-----------------------------------------------------------------------------
(***************************************************************************)
(* The loops                                                               *)
(***************************************************************************)
(* The signal of the order after n orders.                                 *)
Due(n) == IF n % 2 = 0 THEN "BUY" ELSE "SELL"

IsLoop(x) ==
  x = [pc |-> x.pc, window |-> x.window, cell |-> x.cell, at |-> x.at, state |-> x.state]

(* The orders of a loop alternate; while one is at the exchange it is the  *)
(* last that was sent.                                                     *)
LoopInv(x, signals, n) ==
  /\ IsLoop(x)
  /\ signals \in Seq({"BUY", "SELL"})
  /\ n \in 0 .. 1
  /\ x.pc = "idle" => signals = <<>>
  /\ x.pc = "order" => /\ signals # <<>>
                       /\ SignalAt(x, x.at) = Due(Len(signals) - 1)
  /\ \A i \in 1 .. Len(signals) : signals[i] = Due(i - 1)

(* The inductive invariant of the loops.                                   *)
LInv ==
  /\ loop = [l \in Loops |-> loop[l]]
  /\ sent = [l \in Loops |-> sent[l]]
  /\ past = [l \in Loops |-> past[l]]
  /\ \A l \in Loops : LoopInv(loop[l], sent[l], past[l])

(* Two numbers in a row are not both even.                                 *)
LEMMA Parity == \A n \in Nat : (n + 1) % 2 = 0 <=> n % 2 # 0
OBVIOUS

(* An order of a loop is the one due, if its position is what the orders   *)
(* before it leave.                                                        *)
LEMMA OnwardKeeps ==
  ASSUME LInv, NEW l \in Loops, NEW x, NEW p, Onward(l, x, p),
         IsLoop(x), p = [k \in Loops |-> p[k]], \A k \in Loops : p[k] \in 0 .. 1,
         LimitReached(realizedPnl') => p[l] = 0,
         Len(sent[l]) % 2 = 0 <=> x.state.position = 0
  PROVE  LInv'
<1>1. /\ loop = [k \in Loops |-> loop[k]] /\ sent = [k \in Loops |-> sent[k]]
      /\ \A k \in Loops : LoopInv(loop[k], sent[k], past[k])
  BY DEF LInv
<1>2. sent[l] \in Seq({"BUY", "SELL"}) /\ \A i \in 1 .. Len(sent[l]) : sent[l][i] = Due(i - 1)
  BY <1>1 DEF LoopInv
<1>3. CASE /\ loop' = [loop EXCEPT ![l] = [x EXCEPT !.pc = "done"]]
           /\ past' = p /\ sent' = sent
  <2>. DEFINE y == [x EXCEPT !.pc = "done"]
  <2>1. IsLoop(y) /\ y.pc = "done"
    BY DEF IsLoop
  <2>. HIDE DEF y
  <2>2. /\ loop' = [k \in Loops |-> loop'[k]] /\ loop'[l] = y
        /\ \A k \in Loops \ {l} : loop'[k] = loop[k]
    BY <1>1, <1>3 DEF y
  <2>3. LoopInv(y, sent[l], p[l])
    BY <1>2, <2>1 DEF LoopInv
  <2>4. \A k \in Loops \ {l} : LoopInv(loop[k], sent[k], p[k])
    BY <1>1 DEF LoopInv
  <2>. QED  BY <1>1, <1>3, <2>2, <2>3, <2>4 DEF LInv
<1>4. ASSUME NEW k \in Acting(x), NEW o,
             loop' = [loop EXCEPT ![l] =
               [x EXCEPT !.pc = IF Answers(o) THEN "order" ELSE "thrown", !.at = k]],
             sent' = [sent EXCEPT ![l] = Append(@, SignalAt(x, k))],
             past' = [p EXCEPT ![l] = @ + IF LimitReached(realizedPnl') THEN 1 ELSE 0]
      PROVE  LInv'
  <2>. DEFINE wait == IF Answers(o) THEN "order" ELSE "thrown"
              y == [x EXCEPT !.pc = wait, !.at = k]
              signal == SignalAt(x, k)
              s == Append(sent[l], signal)
              n == p[l] + IF LimitReached(realizedPnl') THEN 1 ELSE 0
  <2>1. wait \in {"order", "thrown"}
    OBVIOUS
  <2>2. signal = Due(Len(sent[l])) /\ signal \in {"BUY", "SELL"}
    <3>1. \/ signal = "BUY" /\ x.state.position = 0
          \/ signal = "SELL" /\ x.state.position # 0
      BY DEF Acting, Acts
    <3>. QED  BY <3>1 DEF Due
  <2>3. n \in 0 .. 1
    BY DEF LimitReached
  <2>4. /\ IsLoop(y) /\ y.pc = wait /\ y.at = k
        /\ y.window = x.window /\ y.state = x.state /\ y.cell = x.cell
    <3>. HIDE DEF wait
    <3>. DEFINE z == [x EXCEPT !.pc = wait]
    <3>1. z = [pc |-> wait, window |-> x.window, cell |-> x.cell, at |-> x.at, state |-> x.state]
      BY DEF IsLoop
    <3>2. y = [z EXCEPT !.at = k]
      BY <3>1 DEF IsLoop
    <3>. HIDE DEF y, z
    <3>3. y = [pc |-> wait, window |-> x.window, cell |-> x.cell, at |-> k, state |-> x.state]
      BY <3>1, <3>2
    <3>. QED  BY <3>3 DEF IsLoop
  <2>5. SignalAt(y, y.at) = signal
    BY <2>4 DEF SignalAt
  <2>6. /\ loop' = [h \in Loops |-> loop'[h]] /\ loop'[l] = y
        /\ \A h \in Loops \ {l} : loop'[h] = loop[h]
    <3>1. loop' = [loop EXCEPT ![l] = y]
      BY <1>4
    <3>. HIDE DEF y
    <3>. QED  BY <1>1, <3>1
  <2>7. /\ sent' = [h \in Loops |-> sent'[h]] /\ sent'[l] = s
        /\ \A h \in Loops \ {l} : sent'[h] = sent[h]
    <3>1. sent' = [sent EXCEPT ![l] = s]
      BY <1>4
    <3>. HIDE DEF s
    <3>. QED  BY <1>1, <3>1
  <2>8. /\ past' = [h \in Loops |-> past'[h]] /\ past'[l] = n
        /\ \A h \in Loops \ {l} : past'[h] = p[h]
    <3>1. past' = [p EXCEPT ![l] = n]
      BY <1>4
    <3>. HIDE DEF n
    <3>. QED  BY <3>1
  <2>. HIDE DEF wait, y, signal, n
  <2>9. /\ s \in Seq({"BUY", "SELL"}) /\ Len(s) = Len(sent[l]) + 1 /\ s # <<>>
        /\ \A i \in 1 .. Len(s) : s[i] = Due(i - 1)
    <3>1. /\ s \in Seq({"BUY", "SELL"}) /\ Len(s) = Len(sent[l]) + 1 /\ s # <<>>
          /\ Len(sent[l]) \in Nat
      BY <1>2, <2>2
    <3>2. /\ \A i \in 1 .. Len(sent[l]) : s[i] = sent[l][i]
          /\ s[Len(sent[l]) + 1] = signal
      BY <1>2, <2>2
    <3>3. ASSUME NEW i \in 1 .. Len(s) PROVE s[i] = Due(i - 1)
      <4>1. CASE i \in 1 .. Len(sent[l])
        BY <1>2, <3>2, <4>1
      <4>2. CASE i = Len(sent[l]) + 1
        <5>1. i - 1 = Len(sent[l])
          BY <3>1, <4>2
        <5>. QED  BY <2>2, <3>2, <4>2, <5>1
      <4>. QED  BY <3>1, <4>1, <4>2
    <3>. QED  BY <3>1, <3>3
  <2>. HIDE DEF s
  <2>10. LoopInv(y, s, n)
    <3>1. Len(s) - 1 = Len(sent[l])
      BY <1>2, <2>9
    <3>. QED  BY <2>1, <2>2, <2>3, <2>4, <2>5, <2>9, <3>1 DEF LoopInv
  <2>11. \A h \in Loops \ {l} : LoopInv(loop[h], sent[h], p[h])
    BY <1>1 DEF LoopInv
  <2>. QED  BY <2>6, <2>7, <2>8, <2>10, <2>11 DEF LInv
<1>. QED  BY <1>3, <1>4 DEF Onward

(* After an order the position is what the orders so far leave.            *)
LEMMA AfterOrderIsHeld ==
  ASSUME LInv, NEW l \in Loops, loop[l].pc = "order"
  PROVE  /\ IsLoop(AfterOrder(loop[l]))
         /\ Len(sent[l]) % 2 = 0 <=> AfterOrder(loop[l]).state.position = 0
<1>. DEFINE x == loop[l]
            n == Len(sent[l]) - 1
<1>1. /\ IsLoop(x) /\ sent[l] \in Seq({"BUY", "SELL"}) /\ sent[l] # <<>>
      /\ SignalAt(x, x.at) = Due(n)
  BY DEF LInv, LoopInv
<1>2. n \in Nat /\ Len(sent[l]) = n + 1
  BY <1>1
<1>. DEFINE st == IF SignalAt(x, x.at) = "BUY"
                  THEN [position |-> 1, entry |-> x.window[x.at].price] ELSE Flat
<1>3. st.position = 0 <=> SignalAt(x, x.at) # "BUY"
  BY DEF Flat
<1>. HIDE DEF x, n
<1>4. AfterOrder(x) = [x EXCEPT !.state = st]
  BY DEF AfterOrder
<1>. HIDE DEF st
<1>5. IsLoop(AfterOrder(x)) /\ AfterOrder(x).state = st
  BY <1>1, <1>4 DEF IsLoop
<1>6. SignalAt(x, x.at) # "BUY" <=> n % 2 # 0
  BY <1>1 DEF Due
<1>. QED  BY <1>2, <1>3, <1>5, <1>6, Parity DEF x

(* A call that is refused, or runs.                                        *)
LEMMA BeginKeeps ==
  ASSUME LInv, NEW l \in Loops, Reject(l) \/ Approve(l)
  PROVE  LInv'
<1>1. \A k \in Loops : LoopInv(loop[k], sent[k], past[k])
  BY DEF LInv
<1>2. loop[l].pc = "idle" /\ sent[l] = <<>>
  BY <1>1 DEF Reject, Approve, LoopInv
<1>3. CASE Reject(l)
  <2>. DEFINE x == loop[l]
              y == [x EXCEPT !.pc = "rejected"]
  <2>1. loop' = [loop EXCEPT ![l] = y] /\ sent' = sent /\ past' = NoOnePast
    BY <1>3 DEF Reject
  <2>2. IsLoop(y) /\ y.pc = "rejected"
    <3>1. IsLoop(x)
      BY <1>1 DEF LoopInv
    <3>. HIDE DEF x
    <3>. QED  BY <3>1 DEF IsLoop
  <2>. HIDE DEF y
  <2>3. /\ loop' = [k \in Loops |-> loop'[k]] /\ loop'[l] = y
        /\ \A k \in Loops \ {l} : loop'[k] = loop[k]
    BY <2>1 DEF LInv
  <2>4. \A k \in Loops : NoOnePast[k] = 0
    BY DEF NoOnePast
  <2>5. LoopInv(y, sent[l], 0)
    BY <1>1, <2>2 DEF LoopInv
  <2>6. \A k \in Loops \ {l} : LoopInv(loop[k], sent[k], 0)
    BY <1>1 DEF LoopInv
  <2>7. NoOnePast = [k \in Loops |-> NoOnePast[k]]
    BY DEF NoOnePast
  <2>. QED  BY <2>1, <2>3, <2>4, <2>5, <2>6, <2>7 DEF LInv
<1>4. CASE Approve(l)
  <2>1. PICK w \in Windows, cell \in Grid :
          Onward(l, [Idle EXCEPT !.window = w, !.cell = cell], NoOnePast)
    BY <1>4 DEF Approve
  <2>. DEFINE x == [Idle EXCEPT !.window = w, !.cell = cell]
  <2>2. Onward(l, x, NoOnePast)
    BY <2>1
  <2>3. x = [pc |-> "idle", window |-> w, cell |-> cell, at |-> 0, state |-> Flat]
    <3>. DEFINE z == [Idle EXCEPT !.window = w]
    <3>1. Idle = [pc |-> "idle", window |-> Idle.window, cell |-> Idle.cell, at |-> 0,
                  state |-> Flat]
      BY DEF Idle
    <3>2. z = [pc |-> "idle", window |-> w, cell |-> Idle.cell, at |-> 0, state |-> Flat]
      BY <3>1
    <3>3. x = [z EXCEPT !.cell = cell]
      BY <3>1
    <3>. HIDE DEF x, z
    <3>. QED  BY <3>2, <3>3
  <2>. HIDE DEF x
  <2>4. IsLoop(x) /\ x.state.position = 0
    BY <2>3 DEF IsLoop, Flat
  <2>5. NoOnePast = [k \in Loops |-> NoOnePast[k]] /\ \A k \in Loops : NoOnePast[k] = 0
    BY DEF NoOnePast
  <2>6. Len(sent[l]) % 2 = 0
    BY <1>2
  <2>7. \A k \in Loops : NoOnePast[k] \in 0 .. 1
    BY <2>5
  <2>. QED  BY <2>2, <2>4, <2>5, <2>6, <2>7, OnwardKeeps
<1>. QED  BY <1>3, <1>4

(* An order is answered: at the limit the loop halts, else it goes on.     *)
LEMMA TurnKeeps ==
  ASSUME LInv, NEW l \in Loops, Turn(l)
  PROVE  LInv'
<1>1. /\ \A k \in Loops : LoopInv(loop[k], sent[k], past[k])
      /\ past = [k \in Loops |-> past[k]]
      /\ loop[l].pc = "order"
  BY DEF LInv, Turn
<1>2. /\ IsLoop(AfterOrder(loop[l]))
      /\ Len(sent[l]) % 2 = 0 <=> AfterOrder(loop[l]).state.position = 0
  BY <1>1, AfterOrderIsHeld
<1>3. CASE /\ loop' = [loop EXCEPT ![l] = [AfterOrder(@) EXCEPT !.pc = "halted"]]
           /\ UNCHANGED <<sent, past>>
  <2>. DEFINE x == AfterOrder(loop[l])
              y == [x EXCEPT !.pc = "halted"]
  <2>1. IsLoop(y) /\ y.pc = "halted"
    <3>. HIDE DEF x
    <3>. QED  BY <1>2 DEF IsLoop, x
  <2>2. loop' = [loop EXCEPT ![l] = y]
    BY <1>3
  <2>. HIDE DEF y
  <2>3. /\ loop' = [k \in Loops |-> loop'[k]] /\ loop'[l] = y
        /\ \A k \in Loops \ {l} : loop'[k] = loop[k]
    BY <2>2 DEF LInv
  <2>4. LoopInv(y, sent[l], past[l])
    BY <1>1, <2>1 DEF LoopInv
  <2>. QED  BY <1>1, <1>3, <2>3, <2>4 DEF LInv
<1>4. CASE ~LimitReached(realizedPnl') /\ Onward(l, AfterOrder(loop[l]), past)
  <2>1. \A k \in Loops : past[k] \in 0 .. 1
    BY <1>1 DEF LoopInv
  <2>. QED  BY <1>1, <1>2, <1>4, <2>1, OnwardKeeps
<1>. QED  BY <1>3, <1>4 DEF Turn

(* The process dies.                                                       *)
LEMMA AbortKeeps == ASSUME LInv, Abort PROVE LInv'
<1>1. /\ \A k \in Loops : LoopInv(loop[k], sent[k], past[k])
      /\ sent = [k \in Loops |-> sent[k]]
  BY DEF LInv
<1>2. /\ loop' = [l \in Loops |-> IF loop[l].pc = "order" THEN [loop[l] EXCEPT !.pc = "thrown"]
                                  ELSE loop[l]]
      /\ past' = [l \in Loops |-> 0] /\ sent' = sent
  BY DEF Abort, NoOnePast
<1>3. ASSUME NEW l \in Loops PROVE LoopInv(loop'[l], sent[l], 0)
  <2>1. LoopInv(loop[l], sent[l], past[l])
    BY <1>1
  <2>2. CASE loop[l].pc = "order"
    <3>. DEFINE x == loop[l]
                y == [x EXCEPT !.pc = "thrown"]
    <3>1. loop'[l] = y
      BY <1>2, <2>2
    <3>2. IsLoop(x)
      BY <2>1 DEF LoopInv
    <3>. HIDE DEF x
    <3>3. IsLoop(y) /\ y.pc = "thrown"
      BY <3>2 DEF IsLoop
    <3>. HIDE DEF y
    <3>. QED  BY <2>1, <3>1, <3>3 DEF LoopInv
  <2>3. CASE loop[l].pc # "order"
    BY <1>2, <2>1, <2>3 DEF LoopInv
  <2>. QED  BY <2>2, <2>3
<1>4. loop' = [l \in Loops |-> loop'[l]]
  BY <1>2
<1>. QED  BY <1>1, <1>2, <1>3, <1>4 DEF LInv

(* A loop never holds more than one position, and places no order past the *)
(* limit but the one whose check stops it (tradingLoop, checkRisk).        *)
THEOREM LoopsAreStopped == Spec => []LoopsStopAtTheLimit
<1>1. AutomosInit => LInv
  <2>. SUFFICES ASSUME AutomosInit PROVE LInv
    OBVIOUS
  <2>1. /\ loop = [l \in Loops |-> Idle] /\ sent = [l \in Loops |-> <<>>]
        /\ past = [l \in Loops |-> 0]
    BY DEF AutomosInit, LoopInit
  <2>2. IsLoop(Idle) /\ Idle.pc = "idle"
    BY DEF IsLoop, Idle
  <2>3. LoopInv(Idle, <<>>, 0)
    BY <2>2 DEF LoopInv
  <2>. QED  BY <2>1, <2>3 DEF LInv
<1>2. LInv /\ [AutomosNext]_automosVars => LInv'
  <2>. SUFFICES ASSUME LInv, [AutomosNext]_automosVars PROVE LInv'
    OBVIOUS
  <2>1. CASE UNCHANGED loopVars
    BY <2>1 DEF loopVars, LInv
  <2>2. CASE LoopNext
    BY <2>2, BeginKeeps, TurnKeeps DEF LoopNext, LoopStep
  <2>3. CASE Crash
    BY <2>3, AbortKeeps DEF Crash
  <2>4. CASE UNCHANGED automosVars
    BY <2>1, <2>4 DEF automosVars
  <2>. QED  BY <2>1, <2>2, <2>3, <2>4 DEF AutomosNext
<1>3. LInv => LoopsStopAtTheLimit
  <2>. SUFFICES ASSUME LInv, NEW l \in Loops
                PROVE  /\ past[l] <= 1
                       /\ \A i \in DOMAIN sent[l] :
                            sent[l][i] = IF i % 2 = 1 THEN "BUY" ELSE "SELL"
    BY DEF LoopsStopAtTheLimit
  <2>1. LoopInv(loop[l], sent[l], past[l])
    BY DEF LInv
  <2>2. past[l] <= 1 /\ sent[l] \in Seq({"BUY", "SELL"})
    BY <2>1 DEF LoopInv
  <2>3. ASSUME NEW i \in DOMAIN sent[l]
        PROVE  sent[l][i] = IF i % 2 = 1 THEN "BUY" ELSE "SELL"
    <3>1. i \in 1 .. Len(sent[l]) /\ i - 1 \in Nat
      BY <2>2
    <3>2. sent[l][i] = Due(i - 1)
      BY <2>1, <3>1 DEF LoopInv
    <3>3. (i - 1) % 2 = 0 <=> i % 2 = 1
      BY <3>1
    <3>. QED  BY <3>2, <3>3 DEF Due
  <2>. QED  BY <2>2, <2>3
<1>. QED  BY <1>1, <1>2, <1>3, PTL DEF Spec

(***************************************************************************)
(* Accounts                                                                *)
(***************************************************************************)
Roles == {"user", "admin"}

Stages == {"new", "hashed", "conflict", "created", "compare", "token", "refused"}

Requests == [pc : Stages, email : Emails \cup {NoAccount},
             password : Passwords \cup {NoAccount}, role : Roles, since : Nat]

AccountsTypes ==
  /\ clock \in Nat
  /\ account \in [Emails -> [password : Passwords \cup {NoAccount}, role : Roles] \cup {NoAccount}]
  /\ call \in [Calls -> Requests]
  /\ tokens \subseteq [email : Emails, role : Roles, expires : Nat]
  /\ lastAdmin \in [Emails -> Int]
  /\ served \in [email : Emails \cup {NoAccount}, at : Nat]

(* An administrator of now is remembered as one of now.                    *)
AdminsInv ==
  \A e \in Emails : lastAdmin[e] <= clock /\ (IsAdmin(e) => lastAdmin[e] = clock)

(* A login sees the clock move once at most, and knows its account.        *)
LoginsInv ==
  \A c \in Calls : call[c].pc = "compare" =>
    /\ call[c].email \in Emails
    /\ clock - 1 <= call[c].since
    /\ call[c].role = "admin" => lastAdmin[call[c].email] >= call[c].since

(* A token of an administrator outlives the role by its life at most; the  *)
(* tick more is that of its login, and is the tick in which it expires.    *)
TokensInv ==
  \A t \in tokens : t.role = "admin" =>
    lastAdmin[t.email] >= 0 /\ t.expires <= lastAdmin[t.email] + 1 + ExpiresIn

AccountsInv ==
  AccountsTypes /\ AdminsInv /\ LoginsInv /\ TokensInv /\ AdminAccessExpires

(* Nothing but the clock and a role moves lastAdmin, and only forward.     *)
LEMMA CallsKeepAdmins ==
  ASSUME AccountsInv, AccountsTypes', UNCHANGED <<clock, account, lastAdmin>>,
         LoginsInv', TokensInv', AdminAccessExpires'
  PROVE  AccountsInv'
BY DEF AccountsInv, AdminsInv, IsAdmin, Known

(* A registration that is hashed is no login.                              *)
LEMMA RegisterKeeps == ASSUME AccountsInv, NEW c \in Calls, Register(c) PROVE AccountsInv'
<1>1. AccountsTypes /\ UNCHANGED <<clock, account, tokens, lastAdmin, served>>
  BY DEF AccountsInv, Register
<1>2. PICK e \in Emails, p \in Passwords :
        call' = [call EXCEPT ![c] = [NoCall EXCEPT !.pc = "hashed", !.email = e, !.password = p]]
  BY DEF Register
<1>. DEFINE r == [NoCall EXCEPT !.pc = "hashed", !.email = e, !.password = p]
<1>3. r \in Requests /\ r.pc # "compare"
  BY DEF NoCall, Requests, Stages, Roles
<1>. HIDE DEF r
<1>4. AccountsTypes' /\ \A d \in Calls : call'[d].pc = "compare" => call'[d] = call[d]
  BY <1>1, <1>2, <1>3 DEF AccountsTypes, r
<1>5. LoginsInv' /\ TokensInv' /\ AdminAccessExpires'
  BY <1>1, <1>4 DEF AccountsInv, LoginsInv, TokensInv, AdminAccessExpires
<1>. QED  BY <1>1, <1>4, <1>5, CallsKeepAdmins

(* A new account is no administrator.                                      *)
LEMMA InsertUserKeeps == ASSUME AccountsInv, NEW c \in Calls, InsertUser(c) PROVE AccountsInv'
<1>1. /\ AccountsTypes /\ AdminsInv /\ UNCHANGED <<clock, tokens, lastAdmin, served>>
      /\ call[c].pc = "hashed"
  BY DEF AccountsInv, InsertUser
<1>2. AccountsTypes' /\ \A d \in Calls : call'[d].pc = "compare" => call'[d] = call[d]
  <2>1. PICK stage \in {"conflict", "created"} : call' = [call EXCEPT ![c].pc = stage]
    BY DEF InsertUser, Advance
  <2>2. /\ call' \in [Calls -> Requests]
        /\ \A d \in Calls : call'[d].pc = "compare" => call'[d] = call[d]
    BY <1>1, <2>1 DEF AccountsTypes, Requests, Stages
  <2>3. account' \in [Emails ->
          [password : Passwords \cup {NoAccount}, role : Roles] \cup {NoAccount}]
    <3>1. CASE account' = account
      BY <1>1, <3>1 DEF AccountsTypes
    <3>2. CASE /\ ~Known(call[c].email)
               /\ account' = [account EXCEPT ![call[c].email] =
                                [password |-> call[c].password, role |-> "user"]]
      BY <1>1, <3>2 DEF AccountsTypes, Requests, Roles
    <3>. QED  BY <3>1, <3>2 DEF InsertUser
  <2>. QED  BY <1>1, <2>2, <2>3 DEF AccountsTypes
<1>3. LoginsInv' /\ TokensInv' /\ AdminAccessExpires'
  BY <1>1, <1>2 DEF AccountsInv, LoginsInv, TokensInv, AdminAccessExpires
<1>4. AdminsInv'
  <2>1. \A e \in Emails : IsAdmin(e)' => IsAdmin(e)
    BY <1>1 DEF AccountsTypes, InsertUser, IsAdmin, Known
  <2>. QED  BY <1>1, <2>1 DEF AdminsInv
<1>. QED  BY <1>2, <1>3, <1>4 DEF AccountsInv

(* The role a login reads is that of now.                                  *)
LEMMA LoginKeeps == ASSUME AccountsInv, NEW c \in Calls, Login(c) PROVE AccountsInv'
<1>1. AccountsTypes /\ AdminsInv /\ UNCHANGED <<clock, account, tokens, lastAdmin, served>>
  BY DEF AccountsInv, Login
<1>2. PICK e \in Emails, p \in Passwords :
        call' = [call EXCEPT ![c] =
          IF Known(e) THEN [pc |-> "compare", email |-> e, password |-> p,
                            role |-> account[e].role, since |-> clock]
          ELSE [NoCall EXCEPT !.pc = "refused"]]
  BY DEF Login
<1>3. AccountsTypes'
  <2>1. CASE Known(e)
    <3>1. [pc |-> "compare", email |-> e, password |-> p,
           role |-> account[e].role, since |-> clock] \in Requests
      BY <1>1, <2>1 DEF AccountsTypes, Known, Requests, Stages
    <3>. QED  BY <1>1, <1>2, <2>1, <3>1 DEF AccountsTypes
  <2>2. CASE ~Known(e)
    <3>1. [NoCall EXCEPT !.pc = "refused"] \in Requests
      BY DEF NoCall, Requests, Stages, Roles
    <3>. QED  BY <1>1, <1>2, <2>2, <3>1 DEF AccountsTypes
  <2>. QED  BY <2>1, <2>2
<1>4. LoginsInv'
  <2>. SUFFICES ASSUME NEW d \in Calls, call'[d].pc = "compare"
                PROVE  /\ call'[d].email \in Emails
                       /\ clock - 1 <= call'[d].since
                       /\ call'[d].role = "admin" => lastAdmin[call'[d].email] >= call'[d].since
    BY <1>1 DEF LoginsInv
  <2>1. CASE d # c
    BY <1>1, <1>2, <2>1 DEF AccountsInv, AccountsTypes, LoginsInv
  <2>2. CASE d = c
    <3>1. /\ Known(e)
          /\ call'[d] = [pc |-> "compare", email |-> e, password |-> p,
                         role |-> account[e].role, since |-> clock]
      BY <1>1, <1>2, <2>2 DEF AccountsTypes, NoCall
    <3>2. account[e].role = "admin" => lastAdmin[e] = clock
      BY <1>1, <3>1 DEF AdminsInv, IsAdmin
    <3>. QED  BY <1>1, <3>1, <3>2 DEF AccountsTypes
  <2>. QED  BY <2>1, <2>2
<1>5. TokensInv' /\ AdminAccessExpires'
  BY <1>1 DEF AccountsInv, TokensInv, AdminAccessExpires
<1>. QED  BY <1>1, <1>3, <1>4, <1>5, CallsKeepAdmins

(* A token carries the role its login read, a tick ago at most.            *)
LEMMA CompareKeeps == ASSUME AccountsInv, NEW c \in Calls, Compare(c) PROVE AccountsInv'
<1>1. /\ AccountsTypes /\ LoginsInv /\ TokensInv
      /\ UNCHANGED <<clock, account, lastAdmin, served>> /\ call[c].pc = "compare"
  BY DEF AccountsInv, Compare
<1>2. PICK stage \in {"token", "refused"} : call' = [call EXCEPT ![c].pc = stage]
  BY DEF Compare, Advance
<1>3. Token(c) \in [email : Emails, role : Roles, expires : Nat]
  BY <1>1, AccountsAssumption DEF AccountsTypes, LoginsInv, Token, Requests
<1>4. tokens' \subseteq tokens \cup {Token(c)}
  BY DEF Compare
<1>5. AccountsTypes'
  <2>1. call' \in [Calls -> Requests]
    BY <1>1, <1>2 DEF AccountsTypes, Requests, Stages
  <2>. QED  BY <1>1, <1>3, <1>4, <2>1 DEF AccountsTypes
<1>6. LoginsInv'
  BY <1>1, <1>2 DEF AccountsTypes, LoginsInv
<1>7. Token(c).role = "admin" =>
        /\ lastAdmin[Token(c).email] >= 0
        /\ Token(c).expires <= lastAdmin[Token(c).email] + 1 + ExpiresIn
  BY <1>1, AccountsAssumption DEF AccountsTypes, LoginsInv, Token, Requests
<1>8. TokensInv'
  BY <1>1, <1>4, <1>7 DEF TokensInv
<1>9. AdminAccessExpires'
  BY <1>1 DEF AccountsInv, AdminAccessExpires
<1>. QED  BY <1>1, <1>5, <1>6, <1>8, <1>9, CallsKeepAdmins

(* A token that is good has not outlived the role by more than its life.   *)
LEMMA ReadKeeps == ASSUME AccountsInv, NEW t \in tokens, ReadAsAdmin(t) PROVE AccountsInv'
<1>1. /\ AccountsTypes /\ TokensInv
      /\ UNCHANGED <<clock, account, call, tokens, lastAdmin>>
      /\ clock < t.expires /\ t.role = "admin" /\ served' = [email |-> t.email, at |-> clock]
  BY DEF AccountsInv, ReadAsAdmin, Verified
<1>2. t \in [email : Emails, role : Roles, expires : Nat]
  BY <1>1 DEF AccountsTypes
<1>3. AccountsTypes'
  BY <1>1, <1>2 DEF AccountsTypes
<1>4. lastAdmin[t.email] >= 0 /\ t.expires <= lastAdmin[t.email] + 1 + ExpiresIn
  BY <1>1 DEF TokensInv
<1>5. clock \in Nat /\ t.expires \in Nat /\ lastAdmin[t.email] \in Int /\ ExpiresIn \in Nat
  BY <1>1, <1>2, AccountsAssumption DEF AccountsTypes
<1>6. clock <= lastAdmin[t.email] + ExpiresIn
  BY <1>1, <1>4, <1>5
<1>7. AdminAccessExpires'
  BY <1>1, <1>4, <1>6 DEF AdminAccessExpires
<1>8. LoginsInv' /\ TokensInv'
  BY <1>1 DEF AccountsInv, LoginsInv, TokensInv
<1>. QED  BY <1>1, <1>3, <1>7, <1>8, CallsKeepAdmins

(* When lastAdmin only moves forward, and clock within what logins allow.  *)
LEMMA LaterAdminsKeep ==
  ASSUME AccountsInv, AccountsTypes', UNCHANGED <<call, tokens, served>>,
         \A e \in Emails : lastAdmin'[e] >= lastAdmin[e],
         \A c \in Calls : call[c].pc = "compare" => clock' - 1 <= call[c].since
  PROVE  LoginsInv' /\ TokensInv' /\ AdminAccessExpires'
<1>1. AccountsTypes /\ LoginsInv /\ TokensInv /\ AdminAccessExpires
  BY DEF AccountsInv
<1>2. LoginsInv'
  BY <1>1 DEF AccountsTypes, LoginsInv, Requests
<1>3. TokensInv'
  BY <1>1, AccountsAssumption DEF AccountsTypes, TokensInv
<1>4. AdminAccessExpires'
  BY <1>1, AccountsAssumption DEF AccountsTypes, AdminAccessExpires
<1>. QED  BY <1>2, <1>3, <1>4

(* A role is given or taken, and both are remembered.                      *)
LEMMA SetRoleKeeps ==
  ASSUME AccountsInv, NEW e \in Emails, NEW r \in Roles, SetRole(e, r) PROVE AccountsInv'
<1>1. /\ AccountsTypes /\ AdminsInv /\ LoginsInv /\ UNCHANGED <<clock, call, tokens, served>>
      /\ Known(e) /\ account' = [account EXCEPT ![e].role = r]
      /\ lastAdmin' = [lastAdmin EXCEPT ![e] = IF r = "admin" \/ IsAdmin(e) THEN clock ELSE @]
  BY DEF AccountsInv, SetRole
<1>2. AccountsTypes'
  BY <1>1 DEF AccountsTypes, Known
<1>3. \A f \in Emails : lastAdmin'[f] >= lastAdmin[f] /\ lastAdmin'[f] <= clock
  BY <1>1 DEF AccountsTypes, AdminsInv
<1>4. LoginsInv' /\ TokensInv' /\ AdminAccessExpires'
  BY <1>1, <1>2, <1>3, LaterAdminsKeep DEF LoginsInv
<1>5. \A f \in Emails : IsAdmin(f)' => lastAdmin'[f] = clock
  BY <1>1 DEF AccountsTypes, AdminsInv, IsAdmin, Known
<1>. QED  BY <1>1, <1>2, <1>3, <1>4, <1>5 DEF AccountsInv, AdminsInv

(* The clock moves, and administrators with it.                            *)
LEMMA TickKeeps == ASSUME AccountsInv, Tick PROVE AccountsInv'
<1>1. /\ AccountsTypes /\ AdminsInv /\ LoginsInv /\ UNCHANGED <<account, call, tokens, served>>
      /\ clock' = clock + 1
      /\ \A c \in Calls : call[c].pc = "compare" => call[c].since = clock
      /\ lastAdmin' = [e \in Emails |-> IF IsAdmin(e) THEN clock' ELSE lastAdmin[e]]
  BY DEF AccountsInv, Tick
<1>2. AccountsTypes'
  BY <1>1 DEF AccountsTypes
<1>3. \A e \in Emails : lastAdmin'[e] >= lastAdmin[e] /\ lastAdmin'[e] <= clock'
  BY <1>1 DEF AccountsTypes, AdminsInv
<1>4. LoginsInv' /\ TokensInv' /\ AdminAccessExpires'
  BY <1>1, <1>2, <1>3, LaterAdminsKeep DEF AccountsTypes
<1>5. AdminsInv'
  BY <1>1, <1>3 DEF AdminsInv, IsAdmin, Known
<1>. QED  BY <1>2, <1>4, <1>5 DEF AccountsInv

(* A role that was taken away gives access no longer than the life of a    *)
(* token (login, auth, requireAdmin), for any accounts and any clock.      *)
THEOREM RolesExpire == AccountsSpec => []AdminAccessExpires
<1>1. AccountsInit => AccountsInv
  BY AccountsAssumption DEF AccountsInit, AccountsInv, AccountsTypes, AdminsInv, LoginsInv,
     TokensInv, AdminAccessExpires, NoCall, IsAdmin, Known, Roles, Requests, Stages
<1>2. AccountsInv /\ [AccountsNext]_accountsVars => AccountsInv'
  <2>. SUFFICES ASSUME AccountsInv, [AccountsNext]_accountsVars PROVE AccountsInv'
    OBVIOUS
  <2>1. CASE UNCHANGED accountsVars
    BY <2>1 DEF accountsVars, AccountsInv, AccountsTypes, AdminsInv, LoginsInv, TokensInv,
       AdminAccessExpires, IsAdmin, Known
  <2>. QED  BY <2>1, RegisterKeeps, InsertUserKeeps, LoginKeeps, CompareKeeps, ReadKeeps,
              SetRoleKeeps, TickKeeps DEF AccountsNext, Roles
<1>3. AccountsInv => AdminAccessExpires
  BY DEF AccountsInv
<1>. QED  BY <1>1, <1>2, <1>3, PTL DEF AccountsSpec

(***************************************************************************)
(* Subscriptions                                                           *)
(***************************************************************************)
BillingTypes ==
  /\ payer \in [Sessions -> Customers]
  /\ session \in [Sessions -> {"none", "open", "paid"}]
  /\ delivery \in [Deliveries -> [pc : {"idle", "update", "insert"},
                                 session : Sessions \cup {NoSession}]]
  /\ plan \in [Customers -> {"free", "pro"}]
  /\ subscription \in [Customers -> Sessions \cup {NoSession}]

(* What a delivery is about is paid; before the row comes the plan.        *)
DeliveriesInv ==
  \A d \in Deliveries : delivery[d].pc # "idle" =>
    /\ delivery[d].session \in Sessions
    /\ session[delivery[d].session] = "paid"
    /\ delivery[d].pc = "insert" => plan[payer[delivery[d].session]] = "pro"

BillingInv == BillingTypes /\ DeliveriesInv /\ SubscriptionIsPaid

(* A session moves on, and a paid one stays paid.                          *)
LEMMA SessionsKeep ==
  ASSUME BillingInv, NEW s \in Sessions, CreateCheckout(s) \/ Pay(s)
  PROVE  BillingInv'
<1>1. /\ BillingTypes /\ UNCHANGED <<payer, delivery, plan, subscription>>
      /\ \E st \in {"open", "paid"} : session' = [session EXCEPT ![s] = st]
      /\ session[s] # "paid"
  BY DEF BillingInv, CreateCheckout, Pay
<1>2. BillingTypes' /\ \A t \in Sessions : session[t] = "paid" => session'[t] = "paid"
  BY <1>1 DEF BillingTypes
<1>. QED  BY <1>1, <1>2 DEF BillingInv, BillingTypes, DeliveriesInv, SubscriptionIsPaid

(* An event is about a session that was paid.                              *)
LEMMA DeliverKeeps ==
  ASSUME BillingInv, NEW d \in Deliveries, NEW s \in Sessions, Deliver(d, s)
  PROVE  BillingInv'
<1>1. /\ BillingTypes /\ session[s] = "paid" /\ UNCHANGED <<payer, session, plan, subscription>>
      /\ delivery' = [delivery EXCEPT ![d] = [pc |-> "update", session |-> s]]
  BY DEF BillingInv, Deliver, Event
<1>2. BillingTypes' /\ DeliveriesInv'
  BY <1>1 DEF BillingInv, BillingTypes, DeliveriesInv
<1>. QED  BY <1>1, <1>2 DEF BillingInv, SubscriptionIsPaid

(* A delivery that fails is forgotten.                                     *)
LEMMA FailDeliveryKeeps ==
  ASSUME BillingInv, NEW d \in Deliveries, FailDelivery(d) PROVE BillingInv'
<1>1. /\ BillingTypes /\ UNCHANGED <<payer, session, plan, subscription>>
      /\ delivery' = [delivery EXCEPT ![d] = NoDelivery]
  BY DEF BillingInv, FailDelivery
<1>2. BillingTypes' /\ DeliveriesInv'
  BY <1>1 DEF BillingInv, BillingTypes, DeliveriesInv, NoDelivery
<1>. QED  BY <1>1, <1>2 DEF BillingInv, SubscriptionIsPaid

(* The plan is written for a paid session, and no plan is taken back.      *)
LEMMA UpdatePlanKeeps ==
  ASSUME BillingInv, NEW d \in Deliveries, UpdatePlan(d) PROVE BillingInv'
<1>1. /\ BillingTypes /\ DeliveriesInv /\ SubscriptionIsPaid
      /\ UNCHANGED <<payer, session, subscription>>
      /\ delivery[d].pc = "update"
      /\ plan' = [plan EXCEPT ![payer[delivery[d].session]] = "pro"]
      /\ delivery' = [delivery EXCEPT ![d].pc = "insert"]
  BY DEF BillingInv, UpdatePlan
<1>2. /\ delivery[d].session \in Sessions /\ session[delivery[d].session] = "paid"
      /\ payer[delivery[d].session] \in Customers
  BY <1>1 DEF DeliveriesInv, BillingTypes
<1>3. /\ plan' \in [Customers -> {"free", "pro"}] /\ plan'[payer[delivery[d].session]] = "pro"
      /\ \A u \in Customers : plan[u] = "pro" => plan'[u] = "pro"
      /\ \A u \in Customers : plan'[u] = "pro" => plan[u] = "pro" \/ u = payer[delivery[d].session]
  BY <1>1, <1>2 DEF BillingTypes
<1>4. /\ delivery'[d] = [pc |-> "insert", session |-> delivery[d].session]
      /\ \A e \in Deliveries \ {d} : delivery'[e] = delivery[e]
  BY <1>1 DEF BillingTypes
<1>5. BillingTypes'
  BY <1>1, <1>3 DEF BillingTypes
<1>6. DeliveriesInv'
  BY <1>1, <1>2, <1>3, <1>4 DEF BillingTypes, DeliveriesInv
<1>7. SubscriptionIsPaid'
  BY <1>1, <1>2, <1>3 DEF SubscriptionIsPaid
<1>. QED  BY <1>5, <1>6, <1>7 DEF BillingInv

(* The row is written beside the plan.                                     *)
LEMMA UpsertKeeps ==
  ASSUME BillingInv, NEW d \in Deliveries, UpsertSubscription(d) PROVE BillingInv'
<1>. DEFINE s == delivery[d].session
<1>1. /\ BillingTypes /\ DeliveriesInv /\ SubscriptionIsPaid
      /\ UNCHANGED <<payer, session, plan>>
      /\ delivery[d].pc = "insert"
      /\ subscription' = [subscription EXCEPT ![payer[s]] = s]
      /\ delivery' = [delivery EXCEPT ![d] = NoDelivery]
  BY DEF BillingInv, UpsertSubscription
<1>2. /\ s \in Sessions /\ session[s] = "paid" /\ payer[s] \in Customers
      /\ plan[payer[s]] = "pro"
  BY <1>1 DEF DeliveriesInv, BillingTypes
<1>. HIDE DEF s
<1>3. /\ BillingTypes' /\ subscription'[payer[s]] = s
      /\ \A u \in Customers : subscription'[u] = subscription[u] \/ u = payer[s]
  BY <1>1, <1>2 DEF BillingTypes, NoDelivery
<1>4. DeliveriesInv'
  BY <1>1 DEF BillingTypes, DeliveriesInv, NoDelivery
<1>5. SubscriptionIsPaid'
  BY <1>1, <1>2, <1>3 DEF SubscriptionIsPaid
<1>. QED  BY <1>3, <1>4, <1>5 DEF BillingInv

(* A row is of a paid session of its user and stands beside the plan pro,  *)
(* and no plan is pro unpaid (stripe.js), for any number of deliveries.    *)
THEOREM SubscriptionsArePaid == BillingSpec => []SubscriptionIsPaid
<1>1. BillingInit => BillingInv
  BY BillingAssumption DEF BillingInit, BillingInv, BillingTypes, DeliveriesInv,
     SubscriptionIsPaid, NoDelivery
<1>2. BillingInv /\ [BillingNext]_billingVars => BillingInv'
  <2>. SUFFICES ASSUME BillingInv, [BillingNext]_billingVars PROVE BillingInv'
    OBVIOUS
  <2>1. CASE UNCHANGED billingVars
    BY <2>1 DEF billingVars, BillingInv, BillingTypes, DeliveriesInv, SubscriptionIsPaid
  <2>. QED  BY <2>1, SessionsKeep, DeliverKeeps, FailDeliveryKeeps, UpdatePlanKeeps, UpsertKeeps
            DEF BillingNext
<1>3. BillingInv => SubscriptionIsPaid
  BY DEF BillingInv
<1>. QED  BY <1>1, <1>2, <1>3, PTL DEF BillingSpec
=============================================================================
