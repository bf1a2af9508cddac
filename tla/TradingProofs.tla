---------------------------- MODULE TradingProofs ---------------------------
(***************************************************************************)
(* What TLAPS proves of the trading tools: of TaskQueue, for any tasks,    *)
(* that they end in the order of their enqueue and none is left behind in  *)
(* an inactive queue; of AtomicHedge, for any calls and any quantity, that *)
(* the order for the residual never turns the excess to the other side; of *)
(* Routing, for any exchanges, books and tolerance, that orders follow the *)
(* prices read; of TickPipeline, for any intervals and batches, which      *)
(* ticks may be lost; of LatencyArb, for any offers, limits and times,     *)
(* that the positions are hedged and a pair deals once on a quote; of      *)
(* Backtest, for any prices, signals, rates and stops, that its books      *)
(* balance.                                                                *)
(***************************************************************************)
EXTENDS TaskQueue, AtomicHedge, Routing, TickPipeline, LatencyArb, Backtest,
        FiniteSetTheorems, SequenceTheorems, WellFoundedInduction, TLAPS

(***************************************************************************)
(* The task queue                                                          *)
(***************************************************************************)
TaskTypes ==
  /\ queue \in Seq(Tasks)
  /\ active \in BOOLEAN
  /\ running \in Tasks \cup {NoTask}
  /\ asked \in Seq(Tasks)
  /\ ended \in Seq(Tasks)

(* The inductive invariant.                                                *)
TasksInv == TaskTypes /\ TasksInOrder

-----------------------------------------------------------------------------
(* What drain leaves of the tasks that wait: what it takes and what it     *)
(* leaves are these tasks in their order.                                  *)
LEMMA DrainKeepsOrder ==
  ASSUME NEW waiting \in Seq(Tasks), Drain(waiting)
  PROVE  /\ queue' \in Seq(Tasks) /\ active' \in BOOLEAN /\ running' \in Tasks \cup {NoTask}
         /\ active' <=> running' # NoTask
         /\ ~active' => queue' = <<>>
         /\ waiting = (IF active' THEN <<running'>> ELSE <<>>) \o queue'
<1>1. CASE waiting = <<>>
  <2>1. queue' = <<>> /\ running' = NoTask /\ active' = FALSE
    BY <1>1 DEF Drain
  <2>2. <<>> \o queue' = <<>> /\ queue' \in Seq(Tasks)
    BY <2>1
  <2>. QED  BY <1>1, <2>1, <2>2
<1>2. CASE waiting # <<>>
  <2>1. queue' = Tail(waiting) /\ running' = Head(waiting) /\ active' = TRUE
    BY <1>2 DEF Drain
  <2>2. Head(waiting) \in Tasks /\ Tail(waiting) \in Seq(Tasks)
    BY <1>2
  <2>3. waiting = <<Head(waiting)>> \o Tail(waiting)
    BY <1>2
  <2>. QED  BY <2>1, <2>2, <2>3, TaskAssumption
<1>. QED  BY <1>1, <1>2

(* Sequences are joined in any grouping.                                   *)
LEMMA Joined ==
  ASSUME NEW S, NEW s \in Seq(S), NEW t \in Seq(S), NEW u \in Seq(S)
  PROVE  (s \o t) \o u = s \o (t \o u)
OBVIOUS

(* An enqueue puts its task behind all others.                             *)
LEMMA EnqueueInvariant ==
  ASSUME TasksInv, NEW t \in Tasks, Enqueue(t)
  PROVE  TasksInv'
<1>1. TaskTypes /\ TasksInOrder
  BY DEF TasksInv
<1>2. asked' = Append(asked, t) /\ ended' = ended /\ asked' \in Seq(Tasks)
  BY <1>1 DEF Enqueue, TaskTypes
<1>3. CASE active
  <2>1. queue' = Append(queue, t) /\ UNCHANGED <<active, running>>
    BY <1>3 DEF Enqueue
  <2>2. TaskTypes'
    BY <1>1, <1>2, <2>1 DEF TaskTypes
  <2>3. asked = (ended \o <<running>>) \o queue /\ running \in Tasks
    BY <1>1, <1>3 DEF TasksInOrder, TaskTypes
  <2>. DEFINE before == ended \o <<running>>
  <2>4. before \in Seq(Tasks)
    BY <1>1, <2>3 DEF TaskTypes
  <2>. HIDE DEF before
  <2>5. Append(before \o queue, t) = before \o Append(queue, t)
    <3>1. queue \in Seq(Tasks)
      BY <1>1 DEF TaskTypes
    <3>2. before \o queue \in Seq(Tasks) /\ <<t>> \in Seq(Tasks)
      BY <2>4, <3>1
    <3>3. Append(before \o queue, t) = (before \o queue) \o <<t>>
      BY <3>2
    <3>4. Append(queue, t) = queue \o <<t>>
      BY <3>1
    <3>. QED  BY <2>4, <3>1, <3>2, <3>3, <3>4, Joined
  <2>6. asked' = (ended' \o <<running'>>) \o queue'
    BY <1>2, <2>1, <2>3, <2>5 DEF before
  <2>. QED  BY <1>1, <1>3, <2>1, <2>2, <2>6 DEF TasksInv, TasksInOrder
<1>4. CASE ~active
  <2>1. queue = <<>> /\ asked = ended
    BY <1>1, <1>4 DEF TasksInOrder, TaskTypes
  <2>2. Drain(<<t>>) /\ <<t>> \in Seq(Tasks)
    BY <1>4, <2>1 DEF Enqueue
  <2>3. <<t>> = (IF active' THEN <<running'>> ELSE <<>>) \o queue'
    BY <2>2, DrainKeepsOrder
  <2>4. /\ queue' \in Seq(Tasks) /\ active' \in BOOLEAN /\ running' \in Tasks \cup {NoTask}
        /\ active' <=> running' # NoTask
        /\ ~active' => queue' = <<>>
    BY <2>2, DrainKeepsOrder
  <2>5. active' /\ <<running'>> \in Seq(Tasks)
    BY <2>3, <2>4
  <2>6. asked' = ended \o (<<running'>> \o queue')
    BY <1>1, <1>2, <2>1, <2>3, <2>5 DEF TaskTypes
  <2>7. asked' = (ended' \o <<running'>>) \o queue'
    BY <1>1, <1>2, <2>4, <2>5, <2>6, Joined DEF TaskTypes
  <2>8. TaskTypes'
    BY <1>1, <1>2, <2>4 DEF TaskTypes
  <2>. QED  BY <2>4, <2>5, <2>7, <2>8 DEF TasksInv, TasksInOrder
<1>. QED  BY <1>3, <1>4

(* Whether a task resolves or throws, the next one runs.                   *)
LEMMA EndInvariant ==
  ASSUME TasksInv, Resolve \/ Throw
  PROVE  TasksInv'
<1>1. TaskTypes /\ TasksInOrder
  BY DEF TasksInv
<1>2. running # NoTask /\ ended' = Append(ended, running) /\ asked' = asked /\ Drain(queue)
  BY DEF Resolve, Throw
<1>3. active /\ running \in Tasks /\ queue \in Seq(Tasks)
  BY <1>1, <1>2 DEF TasksInOrder, TaskTypes
<1>4. asked = (ended \o <<running>>) \o queue
  BY <1>1, <1>3 DEF TasksInOrder
<1>5. ended' = ended \o <<running>> /\ ended' \in Seq(Tasks)
  BY <1>1, <1>2, <1>3 DEF TaskTypes
<1>6. /\ queue' \in Seq(Tasks) /\ active' \in BOOLEAN /\ running' \in Tasks \cup {NoTask}
      /\ active' <=> running' # NoTask
      /\ ~active' => queue' = <<>>
      /\ queue = (IF active' THEN <<running'>> ELSE <<>>) \o queue'
  BY <1>2, <1>3, DrainKeepsOrder
<1>. DEFINE taken == IF active' THEN <<running'>> ELSE <<>>
<1>7. taken \in Seq(Tasks)
  BY <1>6
<1>8. asked' = ended' \o (taken \o queue')
  BY <1>2, <1>4, <1>5, <1>6
<1>. HIDE DEF taken
<1>9. asked' = (ended' \o taken) \o queue'
  <2>1. ended' \in Seq(Tasks) /\ taken \in Seq(Tasks) /\ queue' \in Seq(Tasks)
    BY <1>5, <1>6, <1>7
  <2>2. (ended' \o taken) \o queue' = ended' \o (taken \o queue')
    BY <2>1, Joined
  <2>. QED  BY <1>8, <2>2
<1>10. TaskTypes'
  BY <1>1, <1>2, <1>5, <1>6 DEF TaskTypes
<1>. QED  BY <1>6, <1>9, <1>10 DEF TasksInv, TasksInOrder, taken

-----------------------------------------------------------------------------
(* Tasks run one at a time, in the order of their enqueue, none dropped or *)
(* left behind when one throws (queue.ts, drain and its finally).          *)
THEOREM TasksStayInOrder == TaskSpec => []TasksInOrder
<1>1. TaskInit => TasksInv
  <2>. SUFFICES ASSUME TaskInit PROVE TasksInv
    OBVIOUS
  <2>1. queue = <<>> /\ active = FALSE /\ running = NoTask /\ asked = <<>> /\ ended = <<>>
    BY DEF TaskInit
  <2>2. <<>> \in Seq(Tasks) /\ (<<>> \o <<>>) \o <<>> = <<>>
    OBVIOUS
  <2>. QED  BY <2>1, <2>2 DEF TasksInv, TaskTypes, TasksInOrder
<1>2. TasksInv /\ [TaskNext]_taskVars => TasksInv'
  <2>. SUFFICES ASSUME TasksInv, [TaskNext]_taskVars PROVE TasksInv'
    OBVIOUS
  <2>1. CASE \E t \in Tasks : Enqueue(t)
    BY <2>1, EnqueueInvariant
  <2>2. CASE Resolve \/ Throw
    BY <2>2, EndInvariant
  <2>3. CASE UNCHANGED taskVars
    BY <2>3 DEF taskVars, TasksInv, TaskTypes, TasksInOrder
  <2>. QED  BY <2>1, <2>2, <2>3 DEF TaskNext
<1>3. TasksInv => TasksInOrder
  BY DEF TasksInv
<1>. QED  BY <1>1, <1>2, <1>3, PTL DEF TaskSpec

(***************************************************************************)
(* The hedge                                                               *)
(***************************************************************************)
Waits == {"new", "legs", "residual", "done", "thrown"}

Legs == [Sides -> {"none", "sent", "answered", "rejected"}]

Amounts == [Sides -> Nat]

HedgeTypes ==
  /\ hedge \in [Hedges -> Waits]
  /\ order \in [Hedges -> Legs]
  /\ filled \in [Hedges -> Amounts]
  /\ extra \in [Hedges -> Amounts]

Nothing == [s \in Sides |-> 0]

(* What is filled beyond the legs is at most what one of them lacks.       *)
Within(f, e) == e[HedgeSide(f)] <= Residual(f) /\ e[Other(HedgeSide(f))] = 0

(* Of one call: the last order is sent once both legs are answered, so     *)
(* what it is sent for does not change any more.                           *)
CallInv(wait, legs, f, e) ==
  /\ wait = "legs" => \A s \in Sides : legs[s] \in {"sent", "answered"}
  /\ wait \in {"residual", "done"} => \A s \in Sides : legs[s] = "answered"
  /\ e = Nothing \/ (wait = "done" /\ Within(f, e))

(* The inductive invariant.                                                *)
HedgesInv == HedgeTypes /\ \A h \in Hedges : CallInv(hedge[h], order[h], filled[h], extra[h])

-----------------------------------------------------------------------------
(* A step of one call leaves the invariant of the others.                  *)
LEMMA OneCall ==
  ASSUME HedgesInv, NEW h \in Hedges,
         NEW wait \in Waits, NEW legs \in Legs, NEW f \in Amounts, NEW e \in Amounts,
         hedge' = [hedge EXCEPT ![h] = wait], order' = [order EXCEPT ![h] = legs],
         filled' = [filled EXCEPT ![h] = f], extra' = [extra EXCEPT ![h] = e],
         CallInv(wait, legs, f, e)
  PROVE  HedgesInv'
<1>1. HedgeTypes /\ \A g \in Hedges : CallInv(hedge[g], order[g], filled[g], extra[g])
  BY DEF HedgesInv
<1>2. HedgeTypes'
  BY <1>1 DEF HedgeTypes
<1>3. hedge'[h] = wait /\ order'[h] = legs /\ filled'[h] = f /\ extra'[h] = e
  BY <1>1 DEF HedgeTypes
<1>4. \A g \in Hedges \ {h} :
        /\ hedge'[g] = hedge[g] /\ order'[g] = order[g]
        /\ filled'[g] = filled[g] /\ extra'[g] = extra[g]
  BY <1>1 DEF HedgeTypes
<1>. QED  BY <1>1, <1>2, <1>3, <1>4 DEF HedgesInv

(* SendLegs keeps the invariant.                                           *)
LEMMA SendLegsKeeps == ASSUME HedgesInv, NEW h \in Hedges, SendLegs(h) PROVE HedgesInv'
<1>. DEFINE legs == [s \in Sides |-> "sent"]
<1>1. HedgeTypes /\ CallInv(hedge[h], order[h], filled[h], extra[h]) /\ hedge[h] = "new"
  BY DEF HedgesInv, SendLegs
<1>2. /\ hedge' = [hedge EXCEPT ![h] = "legs"] /\ order' = [order EXCEPT ![h] = legs]
      /\ filled' = [filled EXCEPT ![h] = filled[h]] /\ extra' = [extra EXCEPT ![h] = extra[h]]
  BY <1>1 DEF SendLegs, HedgeTypes
<1>3. legs \in Legs /\ filled[h] \in Amounts /\ extra[h] \in Amounts
  BY <1>1 DEF HedgeTypes, Legs
<1>4. CallInv("legs", legs, filled[h], extra[h])
  BY <1>1 DEF CallInv
<1>5. "legs" \in Waits
  BY DEF Waits
<1>. HIDE DEF legs
<1>. QED  BY <1>2, <1>3, <1>4, <1>5, OneCall

(* AnswerLeg keeps the invariant.                                          *)
LEMMA AnswerLegKeeps ==
  ASSUME HedgesInv, NEW h \in Hedges, NEW s \in Sides, NEW q \in 0 .. Quantity, AnswerLeg(h, s, q)
  PROVE  HedgesInv'
<1>. DEFINE f == [filled[h] EXCEPT ![s] = q]
            legs == [order[h] EXCEPT ![s] = "answered"]
            wait == IF hedge[h] # "legs" \/ order[h][Other(s)] = "sent" THEN hedge[h]
                    ELSE IF Residual(f) > 0 THEN "residual" ELSE "done"
<1>1. HedgeTypes /\ CallInv(hedge[h], order[h], filled[h], extra[h]) /\ order[h][s] = "sent"
  BY DEF HedgesInv, AnswerLeg
<1>2. hedge[h] \in Waits /\ order[h] \in Legs /\ filled[h] \in Amounts /\ extra[h] \in Amounts
  BY <1>1 DEF HedgeTypes
<1>3. /\ hedge' = [hedge EXCEPT ![h] = wait] /\ order' = [order EXCEPT ![h] = legs]
      /\ filled' = [filled EXCEPT ![h] = f] /\ extra' = [extra EXCEPT ![h] = extra[h]]
  <2>1. hedge' = [hedge EXCEPT ![h] = wait]
    BY <1>1 DEF AnswerLeg, HedgeTypes
  <2>2. order' = [order EXCEPT ![h] = legs]
    BY <1>1 DEF AnswerLeg, HedgeTypes
  <2>3. filled' = [filled EXCEPT ![h] = f]
    BY DEF AnswerLeg
  <2>4. extra' = [extra EXCEPT ![h] = extra[h]]
    BY <1>1 DEF AnswerLeg, HedgeTypes
  <2>. QED  BY <2>1, <2>2, <2>3, <2>4
<1>4. f \in Amounts /\ legs \in Legs
  BY <1>2, HedgeAssumption DEF Amounts, Legs
<1>5. wait \in Waits
  BY <1>2 DEF Waits
<1>6. hedge[h] \notin {"residual", "done"} /\ extra[h] = Nothing
  BY <1>1 DEF CallInv
<1>7. /\ legs[s] = "answered"
      /\ \A x \in Sides \ {s} : legs[x] = order[h][x]
      /\ Other(s) \in Sides \ {s} /\ \A x \in Sides \ {s} : x = Other(s)
  BY <1>2 DEF Legs, Sides, Other
<1>8. wait = hedge[h] \/ (hedge[h] = "legs" /\ order[h][Other(s)] # "sent")
  OBVIOUS
<1>. HIDE DEF f, legs, wait
<1>9. CallInv(wait, legs, f, extra[h])
  <2>1. CASE wait = hedge[h]
    BY <1>1, <1>6, <1>7, <2>1 DEF CallInv
  <2>2. CASE hedge[h] = "legs" /\ order[h][Other(s)] # "sent"
    BY <1>1, <1>6, <1>7, <2>2 DEF CallInv
  <2>. QED  BY <1>8, <2>1, <2>2
<1>. QED  BY <1>2, <1>3, <1>4, <1>5, <1>9, OneCall

(* RejectLeg keeps the invariant.                                          *)
LEMMA RejectLegKeeps ==
  ASSUME HedgesInv, NEW h \in Hedges, NEW s \in Sides, RejectLeg(h, s)
  PROVE  HedgesInv'
<1>. DEFINE legs == [order[h] EXCEPT ![s] = "rejected"]
<1>1. HedgeTypes /\ CallInv(hedge[h], order[h], filled[h], extra[h]) /\ order[h][s] = "sent"
  BY DEF HedgesInv, RejectLeg
<1>2. order[h] \in Legs /\ filled[h] \in Amounts /\ extra[h] \in Amounts
  BY <1>1 DEF HedgeTypes
<1>3. /\ hedge' = [hedge EXCEPT ![h] = "thrown"] /\ order' = [order EXCEPT ![h] = legs]
      /\ filled' = [filled EXCEPT ![h] = filled[h]] /\ extra' = [extra EXCEPT ![h] = extra[h]]
  BY <1>1 DEF RejectLeg, HedgeTypes
<1>4. legs \in Legs /\ "thrown" \in Waits
  BY <1>2 DEF Legs, Waits
<1>5. CallInv("thrown", legs, filled[h], extra[h])
  BY <1>1 DEF CallInv
<1>. HIDE DEF legs
<1>. QED  BY <1>2, <1>3, <1>4, <1>5, OneCall

(* AnswerResidual keeps the invariant.                                     *)
LEMMA AnswerResidualKeeps ==
  ASSUME HedgesInv, NEW h \in Hedges, NEW q \in 0 .. Quantity, AnswerResidual(h, q)
  PROVE  HedgesInv'
<1>. DEFINE f == filled[h]
            e == [extra[h] EXCEPT ![HedgeSide(f)] = q]
<1>1. /\ HedgeTypes /\ CallInv(hedge[h], order[h], filled[h], extra[h])
      /\ hedge[h] = "residual" /\ q <= Residual(f)
  BY DEF HedgesInv, AnswerResidual
<1>2. order[h] \in Legs /\ f \in Amounts /\ extra[h] \in Amounts
  BY <1>1 DEF HedgeTypes
<1>3. /\ hedge' = [hedge EXCEPT ![h] = "done"] /\ order' = [order EXCEPT ![h] = order[h]]
      /\ filled' = [filled EXCEPT ![h] = f] /\ extra' = [extra EXCEPT ![h] = e]
  BY <1>1 DEF AnswerResidual, HedgeTypes
<1>4. HedgeSide(f) \in Sides /\ Other(HedgeSide(f)) \in Sides \ {HedgeSide(f)}
  BY DEF HedgeSide, Other, Sides
<1>5. e \in Amounts
  BY <1>2, <1>4, HedgeAssumption DEF Amounts
<1>6. extra[h] = Nothing
  BY <1>1 DEF CallInv
<1>7. e[HedgeSide(f)] = q /\ e[Other(HedgeSide(f))] = 0
  BY <1>2, <1>4, <1>6 DEF Amounts, Nothing
<1>8. CallInv("done", order[h], f, e)
  BY <1>1, <1>7 DEF CallInv, Within
<1>9. "done" \in Waits
  BY DEF Waits
<1>. HIDE DEF f, e
<1>. QED  BY <1>2, <1>3, <1>5, <1>8, <1>9, OneCall

(* RejectResidual keeps the invariant.                                     *)
LEMMA RejectResidualKeeps == ASSUME HedgesInv, NEW h \in Hedges, RejectResidual(h) PROVE HedgesInv'
<1>1. HedgeTypes /\ CallInv(hedge[h], order[h], filled[h], extra[h]) /\ hedge[h] = "residual"
  BY DEF HedgesInv, RejectResidual
<1>2. order[h] \in Legs /\ filled[h] \in Amounts /\ extra[h] \in Amounts
  BY <1>1 DEF HedgeTypes
<1>3. /\ hedge' = [hedge EXCEPT ![h] = "thrown"] /\ order' = [order EXCEPT ![h] = order[h]]
      /\ filled' = [filled EXCEPT ![h] = filled[h]] /\ extra' = [extra EXCEPT ![h] = extra[h]]
  BY <1>1 DEF RejectResidual, HedgeTypes
<1>4. CallInv("thrown", order[h], filled[h], extra[h]) /\ "thrown" \in Waits
  BY <1>1 DEF CallInv, Waits
<1>. QED  BY <1>2, <1>3, <1>4, OneCall

-----------------------------------------------------------------------------
(* Nothing more, or at most the residual on the side that filled less,     *)
(* leaves the sides no further apart and in no other order.                *)
LEMMA ResidualClosesTheGap ==
  ASSUME NEW f \in Amounts, NEW e \in Amounts, e = Nothing \/ Within(f, e),
         NEW total, total = [s \in Sides |-> f[s] + e[s]]
  PROVE  /\ Residual(total) <= Residual(f)
         /\ \A s \in Sides : f[s] > f[Other(s)] => total[s] >= total[Other(s)]
<1>1. /\ f["SELL"] \in Nat /\ f["BUY"] \in Nat /\ e["SELL"] \in Nat /\ e["BUY"] \in Nat
      /\ total["SELL"] = f["SELL"] + e["SELL"] /\ total["BUY"] = f["BUY"] + e["BUY"]
  BY DEF Amounts, Sides
<1>2. CASE f["SELL"] > f["BUY"]
  <2>1. e["BUY"] <= f["SELL"] - f["BUY"] /\ e["SELL"] = 0
    BY <1>1, <1>2 DEF Within, HedgeSide, Residual, Other, Nothing, Sides
  <2>. QED  BY <1>1, <1>2, <2>1 DEF Residual, Other, Sides
<1>3. CASE ~(f["SELL"] > f["BUY"])
  <2>1. e["SELL"] <= f["BUY"] - f["SELL"] /\ e["BUY"] = 0
    BY <1>1, <1>3 DEF Within, HedgeSide, Residual, Other, Nothing, Sides
  <2>. QED  BY <1>1, <1>3, <2>1 DEF Residual, Other, Sides
<1>. QED  BY <1>2, <1>3

(* The invariant implies the property.                                     *)
LEMMA InvariantHedges == HedgesInv => HedgesNeverOvershoot
<1>. SUFFICES ASSUME HedgesInv, NEW h \in Hedges
              PROVE  LET total == [s \in Sides |-> filled[h][s] + extra[h][s]]
                     IN  /\ Residual(total) <= Residual(filled[h])
                         /\ \A s \in Sides :
                              filled[h][s] > filled[h][Other(s)] => total[s] >= total[Other(s)]
                         /\ (\E s \in Sides : order[h][s] = "rejected") => total = filled[h]
  BY DEF HedgesNeverOvershoot
<1>. DEFINE f == filled[h]
            e == extra[h]
            total == [s \in Sides |-> f[s] + e[s]]
<1>1. f \in Amounts /\ e \in Amounts /\ CallInv(hedge[h], order[h], f, e)
  BY DEF HedgesInv, HedgeTypes
<1>2. e = Nothing \/ Within(f, e)
  BY <1>1 DEF CallInv
<1>3. ASSUME \E s \in Sides : order[h][s] = "rejected"
      PROVE  total = f
  <2>1. e = Nothing
    BY <1>1, <1>3 DEF CallInv
  <2>. QED  BY <1>1, <2>1 DEF Nothing, Amounts
<1>4. \A t : t = total => /\ Residual(t) <= Residual(f)
                          /\ \A s \in Sides : f[s] > f[Other(s)] => t[s] >= t[Other(s)]
  <2>. HIDE DEF f, e
  <2>. QED  BY <1>1, <1>2, ResidualClosesTheGap
<1>. QED  BY <1>3, <1>4

(* However the two legs and the last order fill or are rejected, the last  *)
(* order never overshoots (executeAtomicHedge).                            *)
THEOREM HedgesAreBounded == HedgeSpec => []HedgesNeverOvershoot
<1>1. HedgeInit => HedgesInv
  <2>. SUFFICES ASSUME HedgeInit PROVE HedgesInv
    OBVIOUS
  <2>1. HedgeTypes
    BY DEF HedgeInit, HedgeTypes, Waits, Legs, Amounts
  <2>2. \A h \in Hedges : hedge[h] = "new" /\ extra[h] = Nothing
    BY DEF HedgeInit, Nothing
  <2>. QED  BY <2>1, <2>2 DEF HedgesInv, CallInv
<1>2. HedgesInv /\ [HedgeNext]_hedgeVars => HedgesInv'
  <2>. SUFFICES ASSUME HedgesInv, [HedgeNext]_hedgeVars PROVE HedgesInv'
    OBVIOUS
  <2>1. ASSUME NEW h \in Hedges, HedgeStep(h) PROVE HedgesInv'
    BY <2>1, SendLegsKeeps, AnswerLegKeeps, RejectLegKeeps, AnswerResidualKeeps,
       RejectResidualKeeps DEF HedgeStep
  <2>2. CASE UNCHANGED hedgeVars
    BY <2>2 DEF hedgeVars, HedgesInv, HedgeTypes, CallInv
  <2>. QED  BY <2>1, <2>2 DEF HedgeNext
<1>. QED  BY <1>1, <1>2, InvariantHedges, PTL DEF HedgeSpec

(***************************************************************************)
(* The routers                                                             *)
(***************************************************************************)
Lower == side = "buy" \/ router = "automos"

SentOrders == [quote : Nat \ {0}, price : Nat]

RoutingTypes ==
  /\ router \in {"smart", "worker", "automos", "twap"}
  /\ books \in [DOMAIN Venues -> Books]
  /\ seen \in Seq(Nat) /\ best \in 0 .. Len(seen)
  /\ sent \in Seq(SentOrders)

(* The price chosen is the first of the best of those read.                *)
ChosenInv ==
  router # "twap" =>
    /\ seen # <<>> => best # 0
    /\ best # 0 => \A k \in DOMAIN seen :
         /\ IF Lower THEN seen[k] >= seen[best] ELSE seen[k] <= seen[best]
         /\ k < best => seen[k] # seen[best]

(* A router that sent its order reads no further price.                    *)
SentInv == router # "twap" /\ sent # <<>> => Len(sent) = 1 /\ Len(seen) = Len(Venues)

(* A slice is of the price read last, and no slice before it is.           *)
SliceInv ==
  router = "twap" =>
    /\ best # 0 => best = Len(seen) /\ ~SlippageTooHigh(seen[best])
    /\ best # 0 => \A i \in DOMAIN sent : sent[i].quote < best

QuotesInv == \A i \in DOMAIN sent : sent[i].quote <= Len(seen)

RoutingInv ==
  RoutingTypes /\ ChosenInv /\ SentInv /\ SliceInv /\ QuotesInv /\ OrdersFollowQuotes

(* What a router reads is a price.                                         *)
LEMMA PriceType == ASSUME RoutingTypes, NEW v \in DOMAIN Venues PROVE Price(books[v]) \in Nat
  BY RoutingAssumption DEF RoutingTypes, Price

(* The orders sent are numbered by prices that were read.                  *)
LEMMA QuoteType ==
  ASSUME RoutingTypes, QuotesInv
  PROVE  \A i \in DOMAIN sent : sent[i].quote \in 1 .. Len(seen)
<1>. SUFFICES ASSUME NEW i \in DOMAIN sent PROVE sent[i].quote \in 1 .. Len(seen)
  OBVIOUS
<1>1. sent[i] \in SentOrders
  BY DEF RoutingTypes
<1>2. sent[i].quote \in Nat \ {0}
  BY <1>1 DEF SentOrders
<1>. QED  BY <1>2 DEF RoutingTypes, QuotesInv

(* One more price read: the orders sent before keep their quotes.          *)
LEMMA ReadKeeps ==
  ASSUME RoutingInv, NEW price \in Nat, seen' = Append(seen, price),
         UNCHANGED <<router, side, books, sent>>, best' \in 0 .. Len(seen'),
         router # "twap" => sent = <<>>, ChosenInv', SliceInv'
  PROVE  RoutingInv'
<1>1. RoutingTypes /\ QuotesInv /\ OrdersFollowQuotes
  BY DEF RoutingInv
<1>2. /\ seen' \in Seq(Nat) /\ Len(seen') = Len(seen) + 1
      /\ \A k \in 1 .. Len(seen) : seen'[k] = seen[k]
  BY <1>1 DEF RoutingTypes
<1>3. \A i \in DOMAIN sent : sent[i].quote \in 1 .. Len(seen)
  BY <1>1, QuoteType
<1>4. RoutingTypes' /\ QuotesInv' /\ SentInv'
  <2>1. RoutingTypes'
    BY <1>1, <1>2 DEF RoutingTypes
  <2>2. QuotesInv'
    BY <1>1, <1>2, <1>3 DEF QuotesInv, RoutingTypes
  <2>3. SentInv'
    BY DEF SentInv
  <2>. QED  BY <2>1, <2>2, <2>3
<1>5. OrdersFollowQuotes'
  BY <1>1, <1>2, <1>3 DEF OrdersFollowQuotes, SlippageTooHigh, Distance
<1>. QED  BY <1>4, <1>5 DEF RoutingInv

(* An exchange more is asked, and its price chosen when it is better.      *)
LEMMA AskKeeps == ASSUME RoutingInv, Ask PROVE RoutingInv'
<1>. DEFINE price == Price(books[Len(seen) + 1])
<1>1. /\ RoutingTypes /\ ChosenInv /\ SentInv /\ router # "twap" /\ Len(seen) < Len(Venues)
      /\ seen' = Append(seen, price) /\ UNCHANGED <<router, side, books, sent>>
      /\ best' = IF best = 0 \/ Better(price, seen[best]) THEN Len(seen') ELSE best
  BY DEF RoutingInv, Ask
<1>2. Len(seen) + 1 \in DOMAIN Venues
  BY <1>1, RoutingAssumption DEF RoutingTypes
<1>3. price \in Nat
  BY <1>1, <1>2, PriceType
<1>. HIDE DEF price
<1>4. /\ seen' \in Seq(Nat) /\ Len(seen') = Len(seen) + 1 /\ seen'[Len(seen) + 1] = price
      /\ \A k \in 1 .. Len(seen) : seen'[k] = seen[k] /\ seen[k] \in Nat
      /\ Len(seen) \in Nat /\ DOMAIN seen' = 1 .. Len(seen) + 1 /\ DOMAIN seen = 1 .. Len(seen)
      /\ best \in 0 .. Len(seen)
  BY <1>1, <1>3 DEF RoutingTypes
<1>5. best' \in 1 .. Len(seen')
  BY <1>1, <1>4
<1>6. ChosenInv'
  <2>1. CASE best = 0
    <3>1. seen = <<>>
      BY <1>1, <2>1 DEF ChosenInv
    <3>2. best' = 1 /\ DOMAIN seen' = {1}
      BY <1>1, <1>4, <2>1, <3>1
    <3>. QED  BY <1>3, <1>4, <1>5, <3>1, <3>2 DEF ChosenInv
  <2>2. CASE best # 0 /\ Better(price, seen[best])
    BY <1>1, <1>3, <1>4, <2>2 DEF ChosenInv, Better, Lower
  <2>3. CASE best # 0 /\ ~Better(price, seen[best])
    BY <1>1, <1>3, <1>4, <2>3 DEF ChosenInv, Better, Lower
  <2>. QED  BY <2>1, <2>2, <2>3
<1>7. sent = <<>> /\ SliceInv'
  BY <1>1 DEF SentInv, SliceInv
<1>. QED  BY <1>1, <1>3, <1>5, <1>6, <1>7, ReadKeeps

(* A slice is read, and skipped when its price is too far off.             *)
LEMMA ReadSliceKeeps == ASSUME RoutingInv, ReadSlice PROVE RoutingInv'
<1>. DEFINE price == Price(books[1])
<1>1. /\ RoutingTypes /\ QuotesInv /\ router = "twap"
      /\ seen' = Append(seen, price) /\ UNCHANGED <<router, side, books, sent>>
      /\ best' = IF SlippageTooHigh(price) THEN 0 ELSE Len(seen')
  BY DEF RoutingInv, ReadSlice
<1>2. price \in Nat
  BY <1>1, PriceType, RoutingAssumption
<1>. HIDE DEF price
<1>3. /\ Len(seen') = Len(seen) + 1 /\ seen'[Len(seen')] = price /\ Len(seen) \in Nat
      /\ \A i \in DOMAIN sent : sent[i].quote \in 1 .. Len(seen)
  BY <1>1, <1>2, QuoteType DEF RoutingTypes
<1>4. SliceInv' /\ ChosenInv'
  BY <1>1, <1>3 DEF SliceInv, ChosenInv, QuotesInv, SlippageTooHigh, Distance
<1>. QED  BY <1>1, <1>2, <1>3, <1>4, ReadKeeps

(* The order goes out at the price chosen.                                 *)
LEMMA SendKeeps ==
  ASSUME RoutingInv, Send, best # 0, UNCHANGED <<router, side, books, seen>>,
         router = "smart" => ~SlippageTooHigh(seen[best]),
         IF router = "twap" THEN best' = 0 ELSE best' = best /\ sent = <<>> /\ Len(seen) = Len(Venues)
  PROVE  RoutingInv'
<1>. DEFINE o == [quote |-> best, price |-> seen[best]]
<1>1. /\ RoutingTypes /\ ChosenInv /\ SliceInv /\ QuotesInv /\ OrdersFollowQuotes
      /\ sent' = Append(sent, o)
  BY DEF RoutingInv, Send
<1>2. /\ o \in SentOrders /\ o.quote = best /\ o.price = seen[best]
      /\ best \in DOMAIN seen
  BY <1>1 DEF RoutingTypes, SentOrders
<1>. HIDE DEF o
<1>3. /\ sent' \in Seq(SentOrders) /\ Len(sent') = Len(sent) + 1
      /\ sent'[Len(sent')] = o /\ Len(sent) \in Nat
      /\ \A i \in DOMAIN sent : sent'[i] = sent[i] /\ i \in 1 .. Len(sent)
      /\ DOMAIN sent' = 1 .. Len(sent) + 1 /\ DOMAIN sent = 1 .. Len(sent)
  BY <1>1, <1>2 DEF RoutingTypes
<1>4. RoutingTypes' /\ ChosenInv' /\ SliceInv' /\ SentInv'
  <2>1. RoutingTypes'
    BY <1>1, <1>3 DEF RoutingTypes
  <2>2. ChosenInv'
    BY <1>1 DEF ChosenInv, Lower
  <2>3. SliceInv'
    BY DEF SliceInv
  <2>4. SentInv'
    BY <1>3 DEF SentInv
  <2>. QED  BY <2>1, <2>2, <2>3, <2>4
<1>5. QuotesInv'
  BY <1>1, <1>2, <1>3 DEF QuotesInv, RoutingTypes
<1>6. OrdersFollowQuotes'
  <2>1. CASE router = "twap"
    <3>1. ~SlippageTooHigh(o.price) /\ \A i \in DOMAIN sent : sent[i].quote < o.quote
      BY <1>1, <1>2, <2>1 DEF SliceInv, SlippageTooHigh, Distance
    <3>2. \A i \in DOMAIN sent :
            /\ sent[i].price = seen[sent[i].quote] /\ ~SlippageTooHigh(sent[i].price)
            /\ i > 1 => sent[i].quote > sent[i - 1].quote
      BY <1>1, <2>1 DEF OrdersFollowQuotes
    <3>3. \A i \in DOMAIN sent' :
            /\ sent'[i].price = seen[sent'[i].quote] /\ ~SlippageTooHigh(sent'[i].price)
            /\ i > 1 => sent'[i].quote > sent'[i - 1].quote
      <4>. SUFFICES ASSUME NEW i \in DOMAIN sent'
                    PROVE  /\ sent'[i].price = seen[sent'[i].quote]
                           /\ ~SlippageTooHigh(sent'[i].price)
                           /\ i > 1 => sent'[i].quote > sent'[i - 1].quote
        OBVIOUS
      <4>1. CASE i \in DOMAIN sent
        <5>1. i > 1 => i - 1 \in DOMAIN sent
          BY <1>3, <4>1
        <5>. QED  BY <1>3, <3>2, <4>1, <5>1
      <4>2. CASE i = Len(sent) + 1
        <5>1. i > 1 => i - 1 \in DOMAIN sent /\ i - 1 = Len(sent)
          BY <1>3, <4>2
        <5>2. \A k \in DOMAIN sent : sent[k].quote \in Nat
          BY <1>1, QuoteType DEF RoutingTypes
        <5>3. sent'[i] = o /\ o.quote \in Nat
          BY <1>1, <1>2, <1>3, <4>2 DEF RoutingTypes
        <5>4. i > 1 => sent'[i - 1] = sent[i - 1] /\ o.quote > sent[i - 1].quote
          BY <1>3, <3>1, <5>1, <5>2, <5>3
        <5>. QED  BY <1>2, <3>1, <5>3, <5>4
      <4>. QED  BY <1>3, <4>1, <4>2
    <3>. QED  BY <2>1, <3>3 DEF OrdersFollowQuotes, SlippageTooHigh, Distance
  <2>2. CASE router # "twap"
    <3>1. DOMAIN sent' = {1} /\ sent'[1] = o
      BY <1>3, <2>2
    <3>. QED
      BY <1>1, <1>2, <2>2, <3>1 DEF OrdersFollowQuotes, ChosenInv, Lower, SlippageTooHigh, Distance
  <2>. QED  BY <2>1, <2>2
<1>. QED  BY <1>4, <1>5, <1>6 DEF RoutingInv

(* What moves the books, or throws, leaves prices and orders alone.        *)
LEMMA RestKeeps ==
  ASSUME RoutingInv, UNCHANGED <<router, side, seen, best, sent>>,
         books' \in [DOMAIN Venues -> Books]
  PROVE  RoutingInv'
  BY DEF RoutingInv, RoutingTypes, ChosenInv, SentInv, SliceInv, QuotesInv, OrdersFollowQuotes,
         SlippageTooHigh, Distance, Lower

(* Orders go to the first exchange of the best price read, or slice by     *)
(* slice within the tolerance (bestExecution, twapOrder).                  *)
THEOREM OrdersAreOfQuotes == RoutingSpec => []OrdersFollowQuotes
<1>1. RoutingInit => RoutingInv
  BY DEF RoutingInit, RoutingInv, RoutingTypes, ChosenInv, SentInv, SliceInv, QuotesInv,
         OrdersFollowQuotes
<1>2. RoutingInv /\ [RoutingNext]_routingVars => RoutingInv'
  <2>. SUFFICES ASSUME RoutingInv, [RoutingNext]_routingVars PROVE RoutingInv'
    OBVIOUS
  <2>. USE DEF RoutingInv
  <2>1. ASSUME NEW v \in DOMAIN Venues, NEW b \in Books, Move(v, b) PROVE RoutingInv'
    <3>1. books' \in [DOMAIN Venues -> Books] /\ UNCHANGED <<router, side, seen, best, sent>>
      BY <2>1 DEF Move, RoutingTypes
    <3>. QED  BY <3>1, RestKeeps
  <2>2. CASE SendBest
    <3>1. seen # <<>> /\ best # 0
      BY <2>2, RoutingAssumption DEF SendBest, RoutingTypes, ChosenInv
    <3>2. CASE router = "smart" /\ SlippageTooHigh(seen[best])
      BY <2>2, <3>2, RestKeeps DEF SendBest, RoutingTypes
    <3>3. CASE ~(router = "smart" /\ SlippageTooHigh(seen[best]))
      BY <2>2, <3>1, <3>3, SendKeeps DEF SendBest
    <3>. QED  BY <2>2, <3>2, <3>3 DEF SendBest
  <2>3. CASE SendSlice
    BY <2>3, SendKeeps DEF SendSlice
  <2>4. CASE FailSlice
    BY <2>4, RestKeeps DEF FailSlice, RoutingTypes
  <2>5. CASE UNCHANGED routingVars
    BY <2>5, RestKeeps DEF routingVars, RoutingTypes
  <2>. QED  BY <2>1, <2>2, <2>3, <2>4, <2>5, AskKeeps, ReadSliceKeeps DEF RoutingNext
<1>3. RoutingInv => OrdersFollowQuotes
  BY DEF RoutingInv
<1>. QED  BY <1>1, <1>2, <1>3, PTL DEF RoutingSpec

(***************************************************************************)
(* The ticks                                                               *)
(***************************************************************************)
TickTypes ==
  /\ arrived \in Nat /\ collected \in Nat /\ repeated \in Nat
  /\ list \in Seq(Nat) /\ file \in Seq(Nat)
  /\ pc \in [Intervals -> {"new", "read", "written", "left", "ended"}]
  /\ batch \in [Intervals -> Seq(Nat)]
  /\ raced \subseteq Nat

(* What an interval will trim it has read, and then written, unless the    *)
(* tick came since or its LTRIM ran before.                                *)
BatchInv ==
  \A i \in Busy \ again, k \in DOMAIN list :
    k <= BatchSize => list[k] \in raced \cup (IF pc[i] = "read" THEN ToSet(batch[i]) ELSE ToSet(file))

(* While two intervals are busy, whatever the list holds has raced.        *)
OverlapInv == \A i, j \in Busy : i # j => ToSet(list) \subseteq raced

TicksInv == TickTypes /\ BatchInv /\ OverlapInv /\ TickLossIsBounded

(* What so many batches hold.                                              *)
LEMMA Batches ==
  ASSUME NEW b \in Nat, NEW m \in Nat, NEW n \in Nat, m <= n
  PROVE  b * m \in Nat /\ b * n \in Nat /\ b * m <= b * n /\ b * (m + 1) = b * m + b
<1>1. PICK d \in Nat : n = m + d
  <2>1. n - m \in Nat /\ n = m + (n - m)
    OBVIOUS
  <2>. QED  BY <2>1
<1>2. b * n = b * m + b * d /\ b * m \in Nat /\ b * d \in Nat
  BY <1>1
<1>3. b * (m + 1) = b * m + b
  OBVIOUS
<1>. QED  BY <1>2, <1>3

(* Ticks that are kept, or have raced, are not lost.                       *)
LEMMA NoMoreLost ==
  ASSUME TickTypes, TickLossIsBounded, LostTicks' \subseteq LostTicks, repeated' \in Nat,
         repeated' >= repeated
  PROVE  TickLossIsBounded'
<1>1. LostTicks \in SUBSET (1 .. arrived) /\ IsFiniteSet(1 .. arrived)
  <2>1. arrived \in Int /\ 1 \in Int
    BY DEF TickTypes
  <2>. QED  BY <2>1, FS_Interval DEF LostTicks
<1>2. IsFiniteSet(LostTicks) /\ LostTicks' \in SUBSET LostTicks
  BY <1>1, FS_Subset
<1>. DEFINE old == Cardinality(LostTicks)  new == Cardinality(LostTicks')
<1>3. old \in Nat /\ new \in Nat /\ new <= old
  BY <1>2, FS_Subset, FS_CardinalityType
<1>4. old <= BatchSize * repeated
  BY DEF TickLossIsBounded
<1>. HIDE DEF old, new
<1>5. /\ BatchSize * repeated \in Nat /\ BatchSize * repeated' \in Nat
      /\ BatchSize * repeated <= BatchSize * repeated'
  <2>1. BatchSize \in Nat /\ repeated \in Nat /\ repeated <= repeated'
    BY TickAssumption DEF TickTypes
  <2>. QED  BY <2>1, Batches
<1>6. new <= BatchSize * repeated'
  <2>. DEFINE x == BatchSize * repeated  y == BatchSize * repeated'
  <2>. HIDE DEF x, y
  <2>1. x \in Nat /\ y \in Nat /\ x <= y /\ old <= x
    BY <1>4, <1>5 DEF x, y
  <2>2. new <= y
    BY <1>3, <2>1
  <2>. QED  BY <2>2 DEF y
<1>. QED  BY <1>6 DEF TickLossIsBounded, new

(* A tick is at the head, and has raced if somebody is busy.               *)
LEMMA PushKeeps == ASSUME TicksInv, Push PROVE TicksInv'
<1>1. PICK n \in collected + 1 .. arrived + 1 :
        /\ collected' = n /\ arrived' = (IF n > arrived THEN n ELSE arrived)
        /\ list' = <<n>> \o list
        /\ raced' = IF Busy = {} THEN raced ELSE raced \cup {n}
  BY DEF Push
<1>2. /\ TickTypes /\ BatchInv /\ OverlapInv /\ TickLossIsBounded
      /\ UNCHANGED <<file, pc, batch, again, repeated>> /\ Busy' = Busy
      /\ n \in Nat /\ arrived' \in Nat /\ 1 .. arrived' \subseteq (1 .. arrived) \cup {n}
  BY <1>1 DEF TicksInv, TickTypes, Push, Busy
<1>3. /\ list' \in Seq(Nat) /\ Len(list') = Len(list) + 1 /\ list'[1] = n
      /\ DOMAIN list' = 1 .. Len(list) + 1 /\ DOMAIN list = 1 .. Len(list) /\ Len(list) \in Nat
      /\ \A k \in DOMAIN list : k + 1 \in DOMAIN list' /\ list'[k + 1] = list[k]
      /\ \A k \in DOMAIN list' : k = 1 \/ (k - 1 \in DOMAIN list /\ list'[k] = list[k - 1])
  <2>1. list \in Seq(Nat) /\ <<n>> \in Seq(Nat) /\ Len(<<n>>) = 1 /\ <<n>>[1] = n
    BY <1>2 DEF TickTypes
  <2>2. /\ list' \in Seq(Nat) /\ Len(list') = 1 + Len(list) /\ Len(list) \in Nat
        /\ DOMAIN list' = 1 .. Len(list) + 1 /\ DOMAIN list = 1 .. Len(list)
    BY <1>1, <2>1
  <2>3. list'[1] = n
    BY <1>1, <2>1, <2>2
  <2>4. \A k \in 1 .. Len(list) + 1 : k # 1 => list'[k] = list[k - 1]
    BY <1>1, <2>1, <2>2
  <2>5. \A k \in 1 .. Len(list) : k + 1 \in 1 .. Len(list) + 1 /\ k + 1 # 1 /\ (k + 1) - 1 = k
    BY <2>2
  <2>6. \A k \in 1 .. Len(list) + 1 : k = 1 \/ k - 1 \in 1 .. Len(list)
    BY <2>2
  <2>. QED  BY <2>2, <2>3, <2>4, <2>5, <2>6
<1>4. ToSet(list') = ToSet(list) \cup {n}
  <2>1. ToSet(list') \subseteq ToSet(list) \cup {n}
    BY <1>3 DEF ToSet
  <2>2. ToSet(list) \cup {n} \subseteq ToSet(list')
    BY <1>3 DEF ToSet
  <2>. QED  BY <2>1, <2>2
<1>5. TickTypes'
  BY <1>1, <1>2, <1>3 DEF TickTypes
<1>6. BatchInv'
  <2>. SUFFICES ASSUME NEW i \in Busy \ again, NEW k \in DOMAIN list', k <= BatchSize
                PROVE  list'[k] \in raced' \cup (IF pc[i] = "read" THEN ToSet(batch[i]) ELSE ToSet(file))
    BY <1>2 DEF BatchInv
  <2>1. raced' = raced \cup {n}
    BY <1>1
  <2>2. CASE k = 1
    BY <1>3, <2>1, <2>2
  <2>3. CASE k # 1
    <3>1. k - 1 \in DOMAIN list /\ k - 1 <= BatchSize /\ list'[k] = list[k - 1]
      BY <1>3, <2>3, TickAssumption
    <3>. QED  BY <1>2, <2>1, <3>1 DEF BatchInv
  <2>. QED  BY <2>2, <2>3
<1>7. OverlapInv'
  BY <1>1, <1>2, <1>4 DEF OverlapInv
<1>8. TickLossIsBounded'
  <2>1. LostTicks' \subseteq LostTicks
    BY <1>1, <1>2, <1>4 DEF LostTicks
  <2>2. repeated' \in Nat /\ repeated' >= repeated
    BY <1>2 DEF TickTypes
  <2>. QED  BY <1>2, <2>1, <2>2, NoMoreLost
<1>. QED  BY <1>5, <1>6, <1>7, <1>8 DEF TicksInv

(* An interval reads what it would trim; if another is busy the list has   *)
(* raced.                                                                  *)
LEMMA ReadBatchKeeps == ASSUME TicksInv, NEW i \in Intervals, ReadBatch(i) PROVE TicksInv'
<1>1. /\ TickTypes /\ BatchInv /\ OverlapInv /\ TickLossIsBounded
      /\ pc[i] = "new" /\ pc' = [pc EXCEPT ![i] = IF list = <<>> THEN "ended" ELSE "read"]
      /\ batch' = [batch EXCEPT ![i] = Newest(BatchSize)]
      /\ raced' = IF list = <<>> \/ Busy = {} THEN raced ELSE raced \cup ToSet(list)
      /\ UNCHANGED <<arrived, collected, list, file, again, repeated>>
  BY DEF TicksInv, ReadBatch
<1>2. /\ Newest(BatchSize) \in Seq(Nat)
      /\ \A k \in DOMAIN list : k <= BatchSize => list[k] \in ToSet(Newest(BatchSize))
  <2>. DEFINE n == IF BatchSize < Len(list) THEN BatchSize ELSE Len(list)
              new == SubSeq(list, 1, n)
  <2>1. n \in 0 .. Len(list) /\ \A k \in DOMAIN list : k <= BatchSize => k \in 1 .. n
    BY <1>1, TickAssumption DEF TickTypes
  <2>. HIDE DEF n
  <2>2. new \in Seq(Nat) /\ DOMAIN new = 1 .. n /\ \A k \in 1 .. n : new[k] = list[k]
    BY <1>1, <2>1 DEF TickTypes
  <2>3. \A k \in DOMAIN list : k <= BatchSize => list[k] \in ToSet(new)
    BY <2>1, <2>2 DEF ToSet
  <2>. QED  BY <2>2, <2>3 DEF Newest, n
<1>3. TickTypes'
  <2>1. ToSet(list) \subseteq Nat
    BY <1>1 DEF TickTypes, ToSet
  <2>. QED  BY <1>1, <1>2, <2>1 DEF TickTypes
<1>4. /\ \A j \in Intervals \ {i} : pc'[j] = pc[j] /\ batch'[j] = batch[j]
      /\ i \in Busy' => pc'[i] = "read"
      /\ batch'[i] = Newest(BatchSize) /\ i \notin Busy
      /\ Busy' \subseteq Busy \cup {i} /\ Busy \subseteq Intervals
      /\ list = <<>> => Busy' = Busy
  BY <1>1 DEF TickTypes, Busy
<1>5. BatchInv'
  BY <1>1, <1>2, <1>4 DEF BatchInv
<1>6. OverlapInv'
  <2>1. CASE list = <<>>
    BY <1>1, <1>4, <2>1 DEF OverlapInv
  <2>2. CASE list # <<>>
    BY <1>1, <1>4, <2>2 DEF OverlapInv
  <2>. QED  BY <2>1, <2>2
<1>7. TickLossIsBounded'
  <2>1. LostTicks' \subseteq LostTicks
    BY <1>1 DEF LostTicks
  <2>2. repeated' \in Nat /\ repeated' >= repeated
    BY <1>1 DEF TickTypes
  <2>. QED  BY <1>1, <2>1, <2>2, NoMoreLost
<1>. QED  BY <1>3, <1>5, <1>6, <1>7 DEF TicksInv

(* The file gains the batch.                                               *)
LEMMA WriteBatchKeeps == ASSUME TicksInv, NEW i \in Intervals, WriteBatch(i) PROVE TicksInv'
<1>1. /\ TickTypes /\ BatchInv /\ OverlapInv /\ TickLossIsBounded
      /\ pc[i] = "read" /\ pc' = [pc EXCEPT ![i] = "written"]
      /\ file' = file \o Reverse(batch[i])
      /\ batch' = [batch EXCEPT ![i] = <<>>]
      /\ UNCHANGED <<arrived, collected, list, again, raced, repeated>>
  BY DEF TicksInv, WriteBatch
<1>. DEFINE b == batch[i]
            rev == Reverse(b)
<1>2. b \in Seq(Nat) /\ file \in Seq(Nat)
  BY <1>1 DEF TickTypes
<1>. HIDE DEF b
<1>3. /\ rev \in Seq(Nat) /\ Len(rev) = Len(b) /\ Len(b) \in Nat
      /\ \A k \in 1 .. Len(b) : rev[k] = b[Len(b) - k + 1]
  BY <1>2 DEF Reverse
<1>4. ToSet(b) \subseteq ToSet(rev)
  <2>. SUFFICES ASSUME NEW k \in 1 .. Len(b) PROVE b[k] \in ToSet(rev)
    BY <1>2 DEF ToSet
  <2>1. Len(b) - k + 1 \in 1 .. Len(b) /\ Len(b) - (Len(b) - k + 1) + 1 = k
    BY <1>3
  <2>2. rev[Len(b) - k + 1] = b[k]
    BY <1>3, <2>1
  <2>. QED  BY <1>3, <2>1, <2>2 DEF ToSet
<1>. HIDE DEF rev
<1>5. file' \in Seq(Nat) /\ ToSet(file) \subseteq ToSet(file') /\ ToSet(rev) \subseteq ToSet(file')
  <2>1. /\ file' = file \o rev /\ file' \in Seq(Nat) /\ DOMAIN file' = 1 .. Len(file) + Len(rev)
        /\ \A k \in 1 .. Len(file) : file'[k] = file[k]
        /\ \A k \in 1 .. Len(rev) : file'[Len(file) + k] = rev[k]
        /\ Len(file) \in Nat /\ Len(rev) \in Nat
        /\ DOMAIN file = 1 .. Len(file) /\ DOMAIN rev = 1 .. Len(rev)
    <3>1. file' = file \o rev
      BY <1>1 DEF rev, b
    <3>2. file \in Seq(Nat) /\ rev \in Seq(Nat) /\ Len(file) \in Nat /\ Len(rev) \in Nat
      BY <1>2, <1>3
    <3>3. /\ file' \in Seq(Nat) /\ Len(file') = Len(file) + Len(rev)
          /\ \A k \in 1 .. Len(file) + Len(rev) :
               file'[k] = IF k <= Len(file) THEN file[k] ELSE rev[k - Len(file)]
      BY <3>1, <3>2, ConcatProperties
    <3>4. \A k \in 1 .. Len(file) :
            k \in 1 .. Len(file) + Len(rev) /\ k <= Len(file)
      BY <3>2
    <3>5. \A k \in 1 .. Len(rev) : /\ Len(file) + k \in 1 .. Len(file) + Len(rev)
                                   /\ ~(Len(file) + k <= Len(file))
                                   /\ (Len(file) + k) - Len(file) = k
      BY <3>2
    <3>. QED  BY <3>1, <3>2, <3>3, <3>4, <3>5
  <2>2. ToSet(file) \subseteq ToSet(file')
    BY <2>1 DEF ToSet
  <2>3. ToSet(rev) \subseteq ToSet(file')
    <3>1. \A k \in 1 .. Len(rev) : Len(file) + k \in DOMAIN file'
      BY <2>1
    <3>2. \A k \in 1 .. Len(rev) : rev[k] \in ToSet(file')
      BY <2>1, <3>1 DEF ToSet
    <3>. QED  BY <2>1, <3>2 DEF ToSet
  <2>. QED  BY <2>1, <2>2, <2>3
<1>6. TickTypes' /\ Busy' = Busy
  BY <1>1, <1>5 DEF TickTypes, Busy
<1>7. /\ \A j \in Intervals \ {i} : pc'[j] = pc[j] /\ batch'[j] = batch[j]
      /\ pc'[i] = "written"
  BY <1>1 DEF TickTypes
<1>8. BatchInv'
  <2>. SUFFICES ASSUME NEW j \in Busy \ again, NEW k \in DOMAIN list, k <= BatchSize
                PROVE  list[k] \in raced \cup (IF pc'[j] = "read" THEN ToSet(batch'[j]) ELSE ToSet(file'))
    BY <1>1, <1>6 DEF BatchInv
  <2>1. list[k] \in raced \cup (IF pc[j] = "read" THEN ToSet(batch[j]) ELSE ToSet(file))
    BY <1>1 DEF BatchInv
  <2>2. CASE j = i
    BY <1>1, <1>4, <1>5, <1>7, <2>1, <2>2 DEF b
  <2>3. CASE j # i
    BY <1>5, <1>7, <2>1, <2>3 DEF Busy
  <2>. QED  BY <2>2, <2>3
<1>9. OverlapInv'
  BY <1>1, <1>6 DEF OverlapInv
<1>10. TickLossIsBounded'
  <2>1. LostTicks' \subseteq LostTicks
    BY <1>1, <1>5 DEF LostTicks
  <2>2. repeated' \in Nat /\ repeated' >= repeated
    BY <1>1 DEF TickTypes
  <2>. QED  BY <1>1, <2>1, <2>2, NoMoreLost
<1>. QED  BY <1>6, <1>8, <1>9, <1>10 DEF TicksInv

(* What a trim takes are the first elements, at most a batch of them.      *)
First(n) == {list[k] : k \in {k \in DOMAIN list : k <= n}}

LEMMA FirstAreFew ==
  ASSUME list \in Seq(Nat), NEW n \in Nat
  PROVE  IsFiniteSet(First(n)) /\ Cardinality(First(n)) <= n
<1>. DEFINE K == {k \in DOMAIN list : k <= n}
<1>1. IsFiniteSet(1 .. n) /\ Cardinality(1 .. n) = n
  BY FS_Interval
<1>2. K \in SUBSET (1 .. n)
  OBVIOUS
<1>. HIDE DEF K
<1>3. IsFiniteSet(K) /\ Cardinality(K) <= n
  BY <1>1, <1>2, FS_Subset
<1>. DEFINE F == {list[k] : k \in K}
            f == [k \in K |-> list[k]]
<1>4. IsFiniteSet(F) /\ Cardinality(F) <= Cardinality(K)
  <2>1. f \in Surjection(K, F)
    BY DEF Surjection
  <2>. HIDE DEF f, F
  <2>. QED  BY <1>3, <2>1, FS_Surjection
<1>5. Cardinality(F) \in Nat /\ Cardinality(K) \in Nat
  BY <1>3, <1>4, FS_CardinalityType
<1>. HIDE DEF F
<1>6. Cardinality(F) <= n
  BY <1>3, <1>4, <1>5 DEF F
<1>. QED  BY <1>4, <1>6 DEF F, K, First

LEMMA TrimTakesFirst ==
  ASSUME TickTypes, NEW i \in Intervals, RunTrim(i)
  PROVE  /\ list' \in Seq(Nat) /\ ToSet(list') \subseteq ToSet(list)
         /\ ToSet(list) \subseteq ToSet(list') \cup First(BatchSize)
<1>1. list \in Seq(Nat) /\ Len(list) \in Nat /\ BatchSize \in Nat \ {0}
      /\ DOMAIN list = 1 .. Len(list)
  BY TickAssumption DEF TickTypes
<1>2. list' = SubSeq(list, BatchSize + 1, Len(list))
  BY DEF RunTrim
<1>3. CASE Len(list) <= BatchSize
  <2>1. list' = <<>>
    BY <1>1, <1>2, <1>3
  <2>2. \A k \in DOMAIN list : k <= BatchSize
    BY <1>1, <1>3
  <2>. QED  BY <1>1, <2>1, <2>2 DEF ToSet, First
<1>4. CASE Len(list) > BatchSize
  <2>1. /\ list' \in Seq(Nat) /\ Len(list') = Len(list) - BatchSize
        /\ \A k \in 1 .. Len(list) - BatchSize : list'[k] = list[k + BatchSize]
    <3>1. BatchSize + 1 \in 1 .. Len(list) /\ Len(list) - (BatchSize + 1) + 1 = Len(list) - BatchSize
      BY <1>1, <1>4
    <3>2. /\ list' \in Seq(Nat) /\ Len(list') = Len(list) - BatchSize
          /\ \A k \in 1 .. Len(list') : list'[k] = list[(BatchSize + 1) + k - 1]
      <4>. DEFINE from == BatchSize + 1  to == Len(list)
      <4>1. from \in 1 .. to /\ to \in Nat /\ list \in Seq(Nat) /\ to = Len(list)
        BY <1>1, <3>1
      <4>2. list' = SubSeq(list, from, to)
        BY <1>2
      <4>. HIDE DEF from, to
      <4>3. /\ list' \in Seq(Nat) /\ Len(list') = to - from + 1
            /\ \A k \in 1 .. Len(list') : list'[k] = list[from + k - 1]
        <5>1. from \in Int /\ to \in Int /\ \A k \in from .. to : list[k] \in Nat
          BY <4>1
        <5>2. /\ list' \in Seq(Nat)
              /\ Len(list') = IF from <= to THEN to - from + 1 ELSE 0
              /\ \A k \in 1 .. to - from + 1 : list'[k] = list[from + k - 1]
          BY <4>2, <5>1, SubSeqProperties
        <5>. QED  BY <4>1, <5>2
      <4>. QED  BY <3>1, <4>3 DEF from, to
    <3>3. \A k \in Nat : (BatchSize + 1) + k - 1 = k + BatchSize
      BY <1>1
    <3>. QED  BY <3>2, <3>3
  <2>2. DOMAIN list' = 1 .. Len(list) - BatchSize
    BY <2>1
  <2>3. ASSUME NEW k \in DOMAIN list' PROVE list'[k] \in ToSet(list)
    <3>1. k + BatchSize \in 1 .. Len(list)
      BY <1>1, <1>4, <2>2
    <3>. QED  BY <1>1, <2>1, <2>2, <3>1 DEF ToSet
  <2>4. ASSUME NEW k \in DOMAIN list, k > BatchSize PROVE list[k] \in ToSet(list')
    <3>1. k - BatchSize \in 1 .. Len(list) - BatchSize /\ (k - BatchSize) + BatchSize = k
      BY <1>1, <1>4, <2>4
    <3>. QED  BY <2>1, <2>2, <3>1 DEF ToSet
  <2>5. \A k \in DOMAIN list : k <= BatchSize \/ k > BatchSize
    BY <1>1
  <2>6. ToSet(list') \subseteq ToSet(list)
    BY <2>3 DEF ToSet
  <2>7. ToSet(list) \subseteq ToSet(list') \cup First(BatchSize)
    BY <2>4, <2>5 DEF ToSet, First
  <2>. QED  BY <2>1, <2>6, <2>7
<1>. QED  BY <1>1, <1>3, <1>4

(* The first run of a trim takes what is in the file or has raced, any     *)
(* other at most a batch more.                                             *)
LEMMA TrimLosesFew ==
  ASSUME TicksInv, NEW i \in Busy, pc[i] # "read", RunTrim(i), UNCHANGED <<arrived, file, raced>>
  PROVE  TickLossIsBounded' /\ repeated' \in Nat
<1>1. TickTypes /\ BatchInv /\ TickLossIsBounded /\ i \in Intervals /\ list \in Seq(Nat)
  BY DEF TicksInv, TickTypes, Busy
<1>2. ToSet(list) \subseteq ToSet(list') \cup First(BatchSize)
  BY <1>1, TrimTakesFirst
<1>3. repeated' \in Nat /\ repeated' >= repeated
  BY <1>1 DEF RunTrim, TickTypes
<1>4. CASE i \notin again
  <2>1. First(BatchSize) \subseteq ToSet(file) \cup raced
    BY <1>1, <1>4 DEF BatchInv, First
  <2>2. LostTicks' \subseteq LostTicks
    BY <1>2, <2>1 DEF LostTicks
  <2>. QED  BY <1>1, <1>3, <2>2, NoMoreLost
<1>5. CASE i \in again
  <2>. DEFINE L == LostTicks
              F == First(BatchSize)
              M == LostTicks'
  <2>1. M \subseteq L \cup F
    BY <1>2 DEF LostTicks
  <2>2. IsFiniteSet(L) /\ Cardinality(L) <= BatchSize * repeated
    <3>1. L \in SUBSET (1 .. arrived) /\ IsFiniteSet(1 .. arrived)
      BY <1>1, FS_Interval DEF LostTicks, TickTypes
    <3>. QED  BY <1>1, <3>1, FS_Subset DEF TickLossIsBounded
  <2>3. IsFiniteSet(F) /\ Cardinality(F) <= BatchSize
    BY <1>1, FirstAreFew, TickAssumption
  <2>4. repeated' = repeated + 1
    BY <1>5 DEF RunTrim
  <2>. HIDE DEF L, F, M
  <2>5. IsFiniteSet(L \cup F) /\ Cardinality(L \cup F) <= Cardinality(L) + Cardinality(F)
    <3>1. /\ IsFiniteSet(L \cup F) /\ IsFiniteSet(L \cap F)
          /\ Cardinality(L \cup F) = Cardinality(L) + Cardinality(F) - Cardinality(L \cap F)
      BY <2>2, <2>3, FS_Union, FS_Intersection
    <3>2. Cardinality(L \cap F) \in Nat /\ Cardinality(L) \in Nat /\ Cardinality(F) \in Nat
      BY <2>2, <2>3, <3>1, FS_CardinalityType
    <3>. QED  BY <3>1, <3>2
  <2>6. Cardinality(M) <= Cardinality(L \cup F) /\ IsFiniteSet(M)
    BY <2>1, <2>5, FS_Subset
  <2>7. /\ Cardinality(M) \in Nat /\ Cardinality(L \cup F) \in Nat
        /\ Cardinality(L) \in Nat /\ Cardinality(F) \in Nat
    BY <2>2, <2>3, <2>5, <2>6, FS_CardinalityType
  <2>8. BatchSize * (repeated + 1) = BatchSize * repeated + BatchSize
        /\ BatchSize * repeated \in Nat /\ BatchSize \in Nat
    BY <1>1, TickAssumption DEF TickTypes
  <2>9. Cardinality(M) <= BatchSize * repeated'
    BY <2>2, <2>3, <2>4, <2>5, <2>6, <2>7, <2>8
  <2>. QED  BY <1>3, <2>9 DEF TickLossIsBounded, M
<1>. QED  BY <1>4, <1>5

(* A trim that is answered and one that is not.                            *)
LEMMA TrimKeeps ==
  ASSUME TicksInv, NEW i \in Intervals, Trim(i) \/ TrimUnanswered(i)
  PROVE  TicksInv'
<1>1. /\ TickTypes /\ BatchInv /\ OverlapInv /\ RunTrim(i)
      /\ UNCHANGED <<arrived, collected, file, batch, raced>>
      /\ pc[i] \in {"written", "left"} /\ i \in Busy
  BY DEF TicksInv, Trim, TrimUnanswered, Busy
<1>2. TickLossIsBounded' /\ repeated' \in Nat
  BY <1>1, TrimLosesFew
<1>3. list' \in Seq(Nat) /\ ToSet(list') \subseteq ToSet(list)
  BY <1>1, TrimTakesFirst
<1>4. /\ pc' \in [Intervals -> {"new", "read", "written", "left", "ended"}]
      /\ Busy' \subseteq Busy /\ \A j \in Intervals \ {i} : pc'[j] = pc[j]
      /\ i \in Busy' => i \in again'
      /\ \A j \in Busy' \ {i} : j \in again' <=> j \in again
  <2>1. CASE Trim(i)
    BY <1>1, <2>1 DEF Trim, TickTypes, Busy
  <2>2. CASE TrimUnanswered(i)
    BY <1>1, <2>2 DEF TrimUnanswered, TickTypes, Busy
  <2>. QED  BY <2>1, <2>2
<1>5. TickTypes'
  BY <1>1, <1>2, <1>3, <1>4 DEF TickTypes
<1>6. BatchInv'
  <2>. SUFFICES ASSUME NEW j \in Busy' \ again', NEW k \in DOMAIN list'
                PROVE  list'[k] \in raced'
    BY DEF BatchInv
  <2>1. j # i /\ j \in Busy
    BY <1>4
  <2>2. ToSet(list) \subseteq raced
    BY <1>1, <2>1 DEF OverlapInv
  <2>3. list'[k] \in ToSet(list')
    BY DEF ToSet
  <2>. QED  BY <1>1, <1>3, <2>2, <2>3
<1>7. OverlapInv'
  BY <1>1, <1>3, <1>4 DEF OverlapInv
<1>. QED  BY <1>2, <1>5, <1>6, <1>7 DEF TicksInv

(* A death of the storage leaves trims that were sent, and a connection    *)
(* that breaks only what the collector has to do.                          *)
LEMMA FaultsKeep == ASSUME TicksInv, Restart \/ ResendPushes PROVE TicksInv'
<1>1. TickTypes /\ BatchInv /\ OverlapInv /\ TickLossIsBounded
      /\ UNCHANGED <<arrived, list, file, raced, repeated>>
  BY DEF TicksInv, Restart, ResendPushes
<1>2. LostTicks' \subseteq LostTicks /\ repeated' \in Nat /\ repeated' >= repeated
  BY <1>1 DEF LostTicks, TickTypes
<1>3. TickLossIsBounded'
  BY <1>1, <1>2, NoMoreLost
<1>4. CASE ResendPushes
  <2>1. collected' \in Nat /\ UNCHANGED <<pc, batch, again>> /\ Busy' = Busy
    BY <1>1, <1>4 DEF ResendPushes, TickTypes, Busy
  <2>. QED  BY <1>1, <1>3, <2>1 DEF TicksInv, TickTypes, BatchInv, OverlapInv
<1>5. CASE Restart
  <2>1. PICK underway \in SUBSET {i \in Intervals : pc[i] = "written"} :
          /\ pc' = [i \in Intervals |-> IF i \in underway THEN "left"
                                        ELSE IF pc[i] \in {"read", "written"} THEN "ended"
                                        ELSE pc[i]]
          /\ again' = {i \in again : pc'[i] = "left"}
    BY <1>5 DEF Restart
  <2>2. /\ pc' \in [Intervals -> {"new", "read", "written", "left", "ended"}]
        /\ \A i \in Busy' : i \in Busy /\ pc[i] # "read" /\ pc'[i] = "left"
    BY <1>1, <2>1 DEF TickTypes, Busy
  <2>3. batch' \in [Intervals -> Seq(Nat)] /\ collected' = collected
    BY <1>5 DEF Restart
  <2>4. TickTypes'
    BY <1>1, <2>2, <2>3 DEF TickTypes
  <2>5. BatchInv'
    <3>. SUFFICES ASSUME NEW i \in Busy' \ again', NEW k \in DOMAIN list, k <= BatchSize
                  PROVE  list[k] \in raced \cup ToSet(file)
      BY <1>1, <2>2 DEF BatchInv
    <3>1. i \in Busy /\ pc[i] # "read"
      BY <2>2
    <3>2. CASE i \notin again
      BY <1>1, <3>1, <3>2 DEF BatchInv
    <3>3. CASE i \in again
      BY <2>1, <2>2, <3>3
    <3>. QED  BY <3>2, <3>3
  <2>6. OverlapInv'
    BY <1>1, <2>2 DEF OverlapInv
  <2>. QED  BY <1>3, <2>4, <2>5, <2>6 DEF TicksInv
<1>. QED  BY <1>4, <1>5

(* Whatever the intervals do at once, wherever the storage dies and        *)
(* whichever commands are sent again, ticks that did not race are lost     *)
(* only to an LTRIM that runs once more, a batch at most (tick_storage.js).*)
THEOREM TickLossStaysBounded == TickSpec => []TickLossIsBounded
<1>1. TickInit => TicksInv
  <2>. SUFFICES ASSUME TickInit PROVE TicksInv
    OBVIOUS
  <2>1. TickTypes /\ BatchInv /\ OverlapInv
    BY DEF TickInit, TickTypes, BatchInv, OverlapInv, Busy
  <2>2. LostTicks = {}
    BY DEF TickInit, LostTicks
  <2>3. TickLossIsBounded
    BY <2>2, FS_EmptySet, TickAssumption DEF TickLossIsBounded, TickInit
  <2>. QED  BY <2>1, <2>3 DEF TicksInv
<1>2. TicksInv /\ [TickNext]_tickVars => TicksInv'
  <2>. SUFFICES ASSUME TicksInv, [TickNext]_tickVars PROVE TicksInv'
    OBVIOUS
  <2>1. CASE UNCHANGED tickVars
    BY <2>1 DEF tickVars, TicksInv, TickTypes, BatchInv, OverlapInv, TickLossIsBounded, LostTicks, Busy
  <2>. QED
    BY <2>1, PushKeeps, ReadBatchKeeps, WriteBatchKeeps, TrimKeeps, FaultsKeep DEF TickNext
<1>3. TicksInv => TickLossIsBounded
  BY DEF TicksInv
<1>. QED  BY <1>1, <1>2, <1>3, PTL DEF TickSpec

(***************************************************************************)
(* Latency arbitrage.  That a pair deals once on a quote rests on          *)
(* MaxLatency < Cooldown, which ArbAssumption states.                      *)
(***************************************************************************)
(* Quotes and deals; the last ones are dated -1 before there are any.      *)
ArbQuotes == [bid : Nat, ask : Nat, ts : Int]

ArbDeals == [n : Nat, sell : Int, buy : Int]

ArbTypes ==
  /\ now \in Nat
  /\ quotes \in [Exchanges -> ArbQuotes]
  /\ positions \in [Exchanges -> Int]
  /\ locked \subseteq Pairs
  /\ lastTrade \in [Pairs -> Int]
  /\ todo \in Seq(Pairs)
  /\ deals \in [Pairs -> ArbDeals]

(* No quote is of the future.                                              *)
QuotesAreOfThePast == \A x \in Exchanges : quotes[x].ts <= now

(* Time stands still while a pair is locked, so its lastTrade is not       *)
(* before the quotes it traded on.                                         *)
DealsAreDated ==
  \A p \in Pairs :
    /\ deals[p].sell <= now /\ deals[p].buy <= now
    /\ p \notin locked => /\ deals[p].sell < 0 \/ deals[p].sell <= lastTrade[p]
                          /\ deals[p].buy < 0 \/ deals[p].buy <= lastTrade[p]

(* The inductive invariant.                                                *)
ArbInv == ArbTypes /\ PositionsAreHedged /\ QuotesAreOfThePast /\ DealsAreDated

-----------------------------------------------------------------------------
(* checkArb takes pairs of different exchanges.                            *)
LEMMA PairsInOrder ==
  /\ PairOrder \in Seq(Pairs)
  /\ \A p \in Pairs : p[1] \in Exchanges /\ p[2] \in Exchanges /\ p[1] # p[2]
<1>1. \A x, y \in Exchanges : x # y => <<x, y>> \in Pairs
  BY DEF Pairs
<1>2. \A s \in {PairOrder[i] : i \in 1 .. 6} : s \in Pairs
  BY <1>1 DEF PairOrder, Exchanges
<1>3. PairOrder \in Seq(Pairs)
  BY <1>2 DEF PairOrder
<1>. QED  BY <1>3 DEF Pairs

(* A deal moves one unit from one exchange to another and is allowed for   *)
(* both of them, so the positions stay hedged.                             *)
LEMMA DealsAreHedged ==
  ASSUME NEW p \in Pairs, ArbTypes, PositionsAreHedged, CanTrade(p), ExecuteArb(p)
  PROVE  positions' \in [Exchanges -> Int] /\ PositionsAreHedged'
<1>. DEFINE s == p[1]  b == p[2]
<1>1. s \in Exchanges /\ b \in Exchanges /\ s # b
  BY PairsInOrder
<1>2. /\ positions \in [Exchanges -> Int]
      /\ positions["binance"] + positions["bybit"] + positions["okx"] = 0
      /\ \A x \in Exchanges : positions[x] \in -MaxPosition .. MaxPosition
  BY DEF ArbTypes, PositionsAreHedged
<1>3. positions' = [positions EXCEPT ![s] = @ - 1, ![b] = @ + 1]
  BY DEF ExecuteArb
<1>4. /\ positions[s] - 1 \in -MaxPosition .. MaxPosition
      /\ positions[b] + 1 \in -MaxPosition .. MaxPosition
  BY DEF CanTrade
<1>. HIDE DEF s, b
<1>5. /\ positions' \in [Exchanges -> Int]
      /\ positions'[s] = positions[s] - 1
      /\ positions'[b] = positions[b] + 1
      /\ \A x \in Exchanges \ {s, b} : positions'[x] = positions[x]
  BY <1>1, <1>2, <1>3
<1>6. \A x \in Exchanges : positions'[x] \in -MaxPosition .. MaxPosition
  BY <1>1, <1>2, <1>4, <1>5
<1>7. positions'["binance"] + positions'["bybit"] + positions'["okx"] = 0
  BY <1>1, <1>2, <1>5 DEF Exchanges
<1>. QED  BY <1>5, <1>6, <1>7 DEF PositionsAreHedged

(* A pair that takes an offer has both its quotes from after its last      *)
(* deal: they are younger than MaxLatency, the deal is older than Cooldown.*)
LEMMA QuotesAreNew ==
  ASSUME NEW p \in Pairs, ArbTypes, DealsAreDated, Takes(p)
  PROVE  quotes[p[1]].ts > deals[p].sell /\ quotes[p[2]].ts > deals[p].buy
<1>. DEFINE s == quotes[p[1]].ts  b == quotes[p[2]].ts
<1>1. s \in Int /\ b \in Int /\ deals[p].sell \in Int /\ deals[p].buy \in Int
      /\ lastTrade[p] \in Int /\ now \in Int
  BY PairsInOrder DEF ArbTypes, ArbQuotes, ArbDeals
<1>2. s >= 0 /\ b >= 0 /\ now - s <= MaxLatency /\ now - b <= MaxLatency
  BY <1>1, ArbAssumption DEF Takes, Profitable, Stale
<1>3. p \notin locked /\ now - lastTrade[p] >= Cooldown
  BY DEF Takes, Ready
<1>4. /\ deals[p].sell < 0 \/ deals[p].sell <= lastTrade[p]
      /\ deals[p].buy < 0 \/ deals[p].buy <= lastTrade[p]
  BY <1>3 DEF DealsAreDated
<1>. HIDE DEF s, b
<1>5. s > deals[p].sell /\ b > deals[p].buy
  BY <1>1, <1>2, <1>3, <1>4, ArbAssumption
<1>. QED  BY <1>5 DEF s, b

-----------------------------------------------------------------------------
(* The invariant holds at first.                                           *)
LEMMA ArbInitInvariant == ArbInit => ArbInv
<1>. SUFFICES ASSUME ArbInit PROVE ArbInv
  OBVIOUS
<1>1. quotes \in [Exchanges -> ArbQuotes] /\ \A x \in Exchanges : quotes[x].ts = -1
  BY DEF ArbInit, ArbQuotes
<1>2. /\ deals \in [Pairs -> ArbDeals]
      /\ \A p \in Pairs : deals[p].sell = -1 /\ deals[p].buy = -1
  BY DEF ArbInit, ArbDeals
<1>3. positions \in [Exchanges -> Int] /\ \A x \in Exchanges : positions[x] = 0
  BY DEF ArbInit
<1>4. lastTrade \in [Pairs -> Int] /\ now = 0 /\ locked = {} /\ todo = <<>>
  BY ArbAssumption DEF ArbInit
<1>5. ArbTypes
  BY <1>1, <1>2, <1>3, <1>4 DEF ArbTypes
<1>6. PositionsAreHedged
  BY <1>3, ArbAssumption DEF PositionsAreHedged, Exchanges
<1>7. QuotesAreOfThePast /\ DealsAreDated
  BY <1>1, <1>2, <1>4 DEF QuotesAreOfThePast, DealsAreDated
<1>. QED  BY <1>5, <1>6, <1>7 DEF ArbInv

(* A check of a pair deals, or leaves all but todo as it is.               *)
LEMMA CheckPairInvariant == ArbInv /\ CheckPair => ArbInv'
<1>. SUFFICES ASSUME ArbInv, CheckPair PROVE ArbInv'
  OBVIOUS
<1>. DEFINE p == Head(todo)
<1>1. ArbTypes /\ PositionsAreHedged /\ QuotesAreOfThePast /\ DealsAreDated
  BY DEF ArbInv
<1>2. p \in Pairs /\ todo' \in Seq(Pairs)
  BY <1>1 DEF CheckPair, ArbTypes
<1>3. now' = now /\ quotes' = quotes /\ lastTrade' = lastTrade
  BY DEF CheckPair
<1>4. QuotesAreOfThePast'
  BY <1>1, <1>3 DEF QuotesAreOfThePast
<1>. HIDE DEF p
<1>5. CASE Takes(p) /\ ExecuteArb(p)
  <2>1. positions' \in [Exchanges -> Int] /\ PositionsAreHedged'
    BY <1>1, <1>2, <1>5, DealsAreHedged DEF Takes
  <2>. DEFINE d == [n |-> deals[p].n + 1, sell |-> quotes[p[1]].ts, buy |-> quotes[p[2]].ts]
  <2>2. d \in ArbDeals /\ d.sell <= now /\ d.buy <= now
    <3>1. p[1] \in Exchanges /\ p[2] \in Exchanges /\ deals[p] \in ArbDeals
      BY <1>1, <1>2, PairsInOrder DEF ArbTypes
    <3>2. quotes[p[1]] \in ArbQuotes /\ quotes[p[2]] \in ArbQuotes
      BY <1>1, <3>1 DEF ArbTypes
    <3>3. deals[p].n + 1 \in Nat /\ quotes[p[1]].ts \in Int /\ quotes[p[2]].ts \in Int
      BY <3>1, <3>2 DEF ArbQuotes, ArbDeals
    <3>4. d \in ArbDeals
      BY <3>3 DEF ArbDeals
    <3>. QED  BY <1>1, <3>1, <3>4 DEF QuotesAreOfThePast
  <2>3. locked' = locked \cup {p} /\ deals' = [deals EXCEPT ![p] = d]
    BY <1>5 DEF ExecuteArb
  <2>. HIDE DEF d
  <2>4. /\ deals' \in [Pairs -> ArbDeals] /\ deals'[p] = d
        /\ \A q \in Pairs \ {p} : deals'[q] = deals[q]
    BY <1>1, <1>2, <2>2, <2>3 DEF ArbTypes
  <2>5. ArbTypes'
    BY <1>1, <1>2, <1>3, <2>1, <2>3, <2>4 DEF ArbTypes
  <2>6. DealsAreDated'
    BY <1>1, <1>2, <1>3, <2>2, <2>3, <2>4 DEF DealsAreDated
  <2>. QED  BY <1>4, <2>1, <2>5, <2>6 DEF ArbInv
<1>6. CASE UNCHANGED <<positions, locked, deals>>
  <2>1. ArbTypes'
    BY <1>1, <1>2, <1>3, <1>6 DEF ArbTypes
  <2>2. PositionsAreHedged' /\ DealsAreDated'
    BY <1>1, <1>3, <1>6 DEF PositionsAreHedged, DealsAreDated
  <2>. QED  BY <1>4, <2>1, <2>2 DEF ArbInv
<1>7. (Takes(p) /\ ExecuteArb(p)) \/ UNCHANGED <<positions, locked, deals>>
  BY DEF CheckPair, p
<1>. QED  BY <1>5, <1>6, <1>7

(* Every step keeps the invariant.                                         *)
LEMMA ArbNextInvariant == ArbInv /\ [ArbNext]_arbVars => ArbInv'
<1>. SUFFICES ASSUME ArbInv, [ArbNext]_arbVars PROVE ArbInv'
  OBVIOUS
<1>0. ArbTypes /\ PositionsAreHedged /\ QuotesAreOfThePast /\ DealsAreDated
  BY DEF ArbInv
<1>1. CASE UNCHANGED <<now, quotes, positions, locked, lastTrade, todo, deals>>
  BY <1>0, <1>1 DEF ArbInv, ArbTypes, PositionsAreHedged, QuotesAreOfThePast, DealsAreDated
<1>2. ASSUME NEW x \in Exchanges, Open(x) \/ Close(x)
      PROVE  ArbInv'
  BY <1>1, <1>2 DEF Open, Close
<1>3. ASSUME NEW x \in Exchanges, NEW o \in Offers, UpdateQuote(x, o)
      PROVE  ArbInv'
  <2>. DEFINE q == [bid |-> o.bid, ask |-> o.ask, ts |-> now]
  <2>1. q \in ArbQuotes /\ q.ts = now
    BY <1>0, ArbAssumption DEF ArbTypes, ArbQuotes
  <2>2. quotes' = [quotes EXCEPT ![x] = q] /\ todo' = PairOrder
    BY <1>3 DEF UpdateQuote
  <2>3. UNCHANGED <<now, positions, locked, lastTrade, deals>>
    BY <1>3 DEF UpdateQuote
  <2>. HIDE DEF q
  <2>4. /\ quotes' \in [Exchanges -> ArbQuotes] /\ quotes'[x].ts = now
        /\ \A y \in Exchanges \ {x} : quotes'[y] = quotes[y]
    BY <1>0, <1>3, <2>1, <2>2 DEF ArbTypes
  <2>5. ArbTypes'
    BY <1>0, <2>2, <2>3, <2>4, PairsInOrder DEF ArbTypes
  <2>6. QuotesAreOfThePast'
    <3>1. now \in Nat
      BY <1>0 DEF ArbTypes
    <3>. QED  BY <1>0, <2>3, <2>4, <3>1 DEF QuotesAreOfThePast
  <2>7. PositionsAreHedged' /\ DealsAreDated'
    BY <1>0, <2>3 DEF PositionsAreHedged, DealsAreDated
  <2>. QED  BY <2>5, <2>6, <2>7 DEF ArbInv
<1>4. CASE CheckPair
  BY <1>4, CheckPairInvariant
<1>5. ASSUME NEW p \in Pairs, Settle(p)
      PROVE  ArbInv'
  <2>1. /\ UNCHANGED <<now, quotes, positions, todo, deals>>
        /\ locked' = locked \ {p}
        /\ lastTrade' = [lastTrade EXCEPT ![p] = now]
    BY <1>5 DEF Settle
  <2>2. /\ lastTrade' \in [Pairs -> Int] /\ lastTrade'[p] = now
        /\ \A q \in Pairs \ {p} : lastTrade'[q] = lastTrade[q]
    BY <1>0, <1>5, <2>1 DEF ArbTypes
  <2>3. ArbTypes'
    BY <1>0, <2>1, <2>2 DEF ArbTypes
  <2>4. DealsAreDated'
    BY <1>0, <2>1, <2>2 DEF DealsAreDated
  <2>5. PositionsAreHedged' /\ QuotesAreOfThePast'
    BY <1>0, <2>1 DEF PositionsAreHedged, QuotesAreOfThePast
  <2>. QED  BY <2>3, <2>4, <2>5 DEF ArbInv
<1>6. CASE Pass
  <2>1. UNCHANGED <<quotes, positions, locked, lastTrade, todo, deals>> /\ now' = now + 1
    BY <1>6 DEF Pass
  <2>2. ArbTypes'
    BY <1>0, <2>1 DEF ArbTypes
  <2>3. QuotesAreOfThePast'
    <3>1. \A x \in Exchanges : quotes[x].ts \in Int /\ now \in Int
      BY <1>0 DEF ArbTypes, ArbQuotes
    <3>. QED  BY <1>0, <2>1, <3>1 DEF QuotesAreOfThePast
  <2>4. DealsAreDated'
    <3>1. \A p \in Pairs : deals[p].sell \in Int /\ deals[p].buy \in Int /\ now \in Int
      BY <1>0 DEF ArbTypes, ArbDeals
    <3>. QED  BY <1>0, <2>1, <3>1 DEF DealsAreDated
  <2>5. PositionsAreHedged'
    BY <1>0, <2>1 DEF PositionsAreHedged
  <2>. QED  BY <2>2, <2>3, <2>4, <2>5 DEF ArbInv
<1>7. CASE UNCHANGED arbVars
  BY <1>1, <1>7 DEF arbVars
<1>. QED  BY <1>2, <1>3, <1>4, <1>5, <1>6, <1>7 DEF ArbNext

-----------------------------------------------------------------------------
(* The invariant holds throughout.                                         *)
THEOREM ArbInvariant == ArbSpec => []ArbInv
BY ArbInitInvariant, ArbNextInvariant, PTL DEF ArbSpec

(* No exchange ends up beyond MAX_POSITION, and the three positions add up *)
(* to nothing, whatever one quote makes trade at once (executeArb).        *)
THEOREM ArbIsHedged == ArbSpec => []PositionsAreHedged
<1>1. ArbInv => PositionsAreHedged
  BY DEF ArbInv
<1>. QED  BY <1>1, ArbInvariant, PTL

(* A step of the engine deals with a pair on newer quotes than before.     *)
LEMMA DealsOnNewQuotes ==
  ASSUME ArbInv, ArbNext, NEW p \in Pairs, deals'[p].n # deals[p].n
  PROVE  deals'[p].sell > deals[p].sell /\ deals'[p].buy > deals[p].buy
<1>0. ArbTypes /\ DealsAreDated
  BY DEF ArbInv
<1>1. ~UNCHANGED deals
  OBVIOUS
<1>2. CheckPair
  BY <1>1 DEF ArbNext, Open, Close, UpdateQuote, Settle, Pass
<1>. DEFINE h == Head(todo)
<1>3. h \in Pairs /\ Takes(h) /\ ExecuteArb(h)
  BY <1>0, <1>1, <1>2 DEF CheckPair, ArbTypes
<1>. HIDE DEF h
<1>4. deals' = [deals EXCEPT ![h] =
        [n |-> deals[h].n + 1, sell |-> quotes[h[1]].ts, buy |-> quotes[h[2]].ts]]
  BY <1>3 DEF ExecuteArb
<1>5. h = p
  BY <1>0, <1>3, <1>4 DEF ArbTypes
<1>6. deals'[p].sell = quotes[p[1]].ts /\ deals'[p].buy = quotes[p[2]].ts
  BY <1>0, <1>4, <1>5 DEF ArbTypes
<1>. QED  BY <1>0, <1>3, <1>5, <1>6, QuotesAreNew

(* No pair deals twice on one quote: the cooldown is longer than a quote   *)
(* is good for.                                                            *)
THEOREM QuotesAreDealtOnce == ArbSpec => QuoteIsDealtOnce
<1>1. ArbInv /\ [ArbNext]_arbVars =>
        [\A p \in Pairs :
           deals'[p].n # deals[p].n =>
             deals'[p].sell > deals[p].sell /\ deals'[p].buy > deals[p].buy]_arbVars
  BY DealsOnNewQuotes
<1>. QED  BY <1>1, ArbInvariant, PTL DEF ArbSpec, QuoteIsDealtOnce

(***************************************************************************)
(* The backtests                                                           *)
(***************************************************************************)
Reasons == {"signal", "stop_loss", "take_profit", "eod"}
Trade == [type : {"BUY", "SELL"}, price : Nat, fee : Nat, pnl : Int,
          reason : Reasons]
Book == [balance : Nat, position : Nat, entry : Nat, trades : Seq(Trade)]

(* f has the profits without the fees of every beginning of the trades.    *)
IsSum(f, trades) ==
  /\ DOMAIN f = 0 .. Len(trades) /\ f[0] = 0
  /\ \A i \in 1 .. Len(trades) :
       f[i] \in Int /\ f[i] = f[i - 1] + trades[i].pnl - trades[i].fee

(* The chosen sum.                                                         *)
LEMMA NetIsSum ==
  ASSUME NEW trades \in Seq(Trade), NEW f, IsSum(f, trades)
  PROVE  Net(trades) = f[Len(trades)] /\ Net(trades) \in Int
<1>. DEFINE n == Len(trades)
            Step(g) == [i \in 0 .. n |-> IF i = 0 THEN 0
                                         ELSE g[i - 1] + trades[i].pnl - trades[i].fee]
            sum == CHOOSE g : g = Step(g)
<1>1. n \in Nat
  OBVIOUS
<1>. DEFINE h == [i \in 0 .. n |-> f[i]]
<1>2. h = Step(h)
  <2>1. \A i \in 0 .. n : h[i] = Step(h)[i]
    <3>. SUFFICES ASSUME NEW i \in 0 .. n PROVE h[i] = Step(h)[i]
      OBVIOUS
    <3>1. CASE i = 0
      BY <3>1 DEF IsSum
    <3>2. CASE i # 0
      <4>1. i \in 1 .. n /\ i - 1 \in 0 .. n
        BY <3>2, <1>1
      <4>2. f[i] = f[i - 1] + trades[i].pnl - trades[i].fee
        BY <4>1 DEF IsSum
      <4>3. h[i] = f[i] /\ h[i - 1] = f[i - 1]
        BY <4>1
      <4>. QED  BY <3>2, <4>2, <4>3
    <3>. QED  BY <3>1, <3>2
  <2>2. Step(h) = [i \in 0 .. n |-> Step(h)[i]]
    OBVIOUS
  <2>. QED  BY <2>1, <2>2
<1>3. sum = Step(sum)
  <2>. HIDE DEF Step, h
  <2>. QED  BY <1>2
<1>4. Net(trades) = sum[n]
  BY DEF Net
<1>5. \A i \in 0 .. n : sum[i] = f[i]
  <2>. HIDE DEF sum, n
  <2>. DEFINE Wrong == {i \in 0 .. n : sum[i] # f[i]}
  <2>. SUFFICES ASSUME Wrong # {} PROVE FALSE
    OBVIOUS
  <2>1. PICK m \in Wrong : \A i \in Wrong : m <= i
    <3>1. Wrong \subseteq Nat
      BY <1>1
    <3>2. PICK m \in Wrong : ~ \E i \in Wrong : <<i, m>> \in OpToRel(<, Nat)
      BY <3>1, NatLessThanWellFounded, WFMin, Zenon
    <3>3. \A i \in Wrong : ~ (i < m)
      BY <3>1, <3>2 DEF OpToRel
    <3>4. \A i \in Wrong : i \in Nat
      BY <3>1
    <3>. HIDE DEF Wrong
    <3>5. m \in Wrong
      BY <3>2
    <3>6. \A i \in Wrong : m <= i
      BY <3>3, <3>4, <3>5
    <3>. QED  BY <3>5, <3>6
  <2>2. m \in 0 .. n /\ sum[m] # f[m]
    OBVIOUS
  <2>3. sum[0] = 0
    BY <1>1, <1>3
  <2>4. m # 0
    BY <2>2, <2>3 DEF IsSum
  <2>5. m \in 1 .. n /\ m - 1 \in 0 .. n
    BY <2>2, <2>4, <1>1
  <2>6. m - 1 \notin Wrong
    BY <2>1, <2>5
  <2>7. sum[m - 1] = f[m - 1]
    BY <2>5, <2>6
  <2>8. sum[m] = sum[m - 1] + trades[m].pnl - trades[m].fee
    BY <1>3, <2>5
  <2>. QED  BY <2>2, <2>5, <2>7, <2>8 DEF IsSum, n
<1>6. f[n] \in Int
  BY <1>1 DEF IsSum
<1>. QED  BY <1>1, <1>4, <1>5, <1>6

(* One trade more adds its profit and takes its fee.                       *)
LEMMA NetOfAppend ==
  ASSUME NEW trades \in Seq(Trade), NEW t \in Trade, \E f : IsSum(f, trades)
  PROVE  /\ \E f : IsSum(f, Append(trades, t))
         /\ Net(trades) \in Int
         /\ Net(Append(trades, t)) = Net(trades) + t.pnl - t.fee
<1>1. PICK f : IsSum(f, trades)
  OBVIOUS
<1>. DEFINE n == Len(trades)
            more == Append(trades, t)
            g == [i \in 0 .. n + 1 |-> IF i = n + 1 THEN f[n] + t.pnl - t.fee ELSE f[i]]
<1>2. n \in Nat /\ more \in Seq(Trade) /\ Len(more) = n + 1 /\ more[n + 1] = t
      /\ \A i \in 1 .. n : more[i] = trades[i]
  OBVIOUS
<1>3. f[n] \in Int /\ t.pnl \in Int /\ t.fee \in Int
  BY <1>1, <1>2 DEF IsSum, Trade
<1>4. IsSum(g, more)
  <2>1. DOMAIN g = 0 .. Len(more) /\ g[0] = 0
    BY <1>1, <1>2 DEF IsSum
  <2>2. ASSUME NEW i \in 1 .. Len(more)
        PROVE  g[i] \in Int /\ g[i] = g[i - 1] + more[i].pnl - more[i].fee
    <3>1. CASE i = n + 1
      <4>1. g[i - 1] = f[n] /\ g[i] = f[n] + t.pnl - t.fee
        BY <3>1, <1>2
      <4>. QED  BY <3>1, <1>2, <1>3, <4>1
    <3>2. CASE i # n + 1
      <4>1. i \in 1 .. n /\ i - 1 # n + 1 /\ i - 1 \in 0 .. n + 1
        BY <3>2, <1>2
      <4>2. g[i] = f[i] /\ g[i - 1] = f[i - 1] /\ more[i] = trades[i]
        BY <3>2, <4>1, <1>2
      <4>. QED  BY <4>1, <4>2, <1>1 DEF IsSum
    <3>. QED  BY <3>1, <3>2
  <2>. HIDE DEF g, more
  <2>. QED  BY <2>1, <2>2 DEF IsSum
<1>5. Net(more) = g[n + 1]
  <2>. HIDE DEF g, more
  <2>. QED  BY <1>2, <1>4, NetIsSum
<1>6. Net(trades) = f[n] /\ Net(trades) \in Int
  BY <1>1, NetIsSum
<1>7. g[n + 1] = f[n] + t.pnl - t.fee
  BY <1>2
<1>. QED  BY <1>4, <1>5, <1>6, <1>7

-----------------------------------------------------------------------------
(* A rate that comes out even takes a part of an amount, and not all.      *)
LEMMA EvenRate ==
  ASSUME NEW rate \in Nat \X Nat, rate[1] < rate[2], NEW x \in Nat
  PROVE  /\ Of(rate, x) \in Nat /\ Of(rate, x) <= x /\ (x > 0 => Of(rate, x) < x)
         /\ Less(rate, x) \in Nat /\ More(rate, x) \in Nat
         /\ Even(rate, x) => /\ Of(rate, x) * rate[2] = x * rate[1]
                            /\ Less(rate, x) = x - Of(rate, x)
                            /\ More(rate, x) = x + Of(rate, x)
<1>. DEFINE n == rate[1]
            d == rate[2]
<1>1. n \in Nat /\ d \in Nat \ {0} /\ n < d
  OBVIOUS
<1>. HIDE DEF n, d
<1>2. x * n \in Nat /\ x * (d - n) \in Nat /\ x * (d + n) \in Nat
  <2>1. d - n \in Nat /\ d + n \in Nat
    BY <1>1
  <2>. QED  BY <1>1, <2>1
<1>3. \A y \in Nat : y \div d \in Nat /\ y = (y \div d) * d + (y % d) /\ y % d \in 0 .. d - 1
  BY <1>1
<1>4. (x * n) \div d \in Nat /\ (x * n) \div d <= x /\ (x > 0 => (x * n) \div d < x)
  <2>. DEFINE q == (x * n) \div d
  <2>1. q \in Nat /\ q * d <= x * n
    BY <1>1, <1>2, <1>3
  <2>. HIDE DEF q
  <2>2. x * n <= x * d /\ (x > 0 => x * n < x * d)
    BY <1>1
  <2>3. q * d <= x * d /\ (x > 0 => q * d < x * d)
    BY <1>1, <1>2, <2>1, <2>2
  <2>4. q <= x /\ (x > 0 => q < x)
    BY <1>1, <2>1, <2>3
  <2>. QED  BY <2>1, <2>4 DEF q
<1>5. ASSUME (x * n) % d = 0
      PROVE  /\ ((x * n) \div d) * d = x * n
             /\ (x * (d - n)) \div d = x - (x * n) \div d
             /\ (x * (d + n)) \div d = x + (x * n) \div d
  <2>. DEFINE q == (x * n) \div d
  <2>1. q \in Nat /\ q * d = x * n
    <3>1. q \in Nat /\ x * n = q * d + ((x * n) % d)
      BY <1>2, <1>3
    <3>. HIDE DEF q
    <3>. QED  BY <1>1, <1>2, <1>5, <3>1
  <2>. HIDE DEF q
  <2>2. x * (d - n) = (x - q) * d /\ x * (d + n) = (x + q) * d
    BY <1>1, <2>1
  <2>3. \A y \in Int : (y * d) \div d = y
    BY <1>1
  <2>. QED  BY <1>1, <2>1, <2>2, <2>3 DEF q
<1>6. (x * (d - n)) \div d \in Nat /\ (x * (d + n)) \div d \in Nat
  BY <1>2, <1>3
<1>. QED  BY <1>4, <1>5, <1>6 DEF Of, Less, More, Even, n, d

(* A whole quotient.                                                       *)
LEMMA EvenQuotient ==
  ASSUME NEW x \in Nat, NEW d \in Nat \ {0}, x % d = 0
  PROVE  x \div d \in Nat /\ (x \div d) * d = x /\ (x > 0 => x \div d > 0)
<1>1. x \div d \in Nat /\ x = (x \div d) * d + (x % d)
  OBVIOUS
<1>. QED  BY <1>1

-----------------------------------------------------------------------------
(* The books of an account.                                                *)
Balanced(a) ==
  /\ a \in Book
  /\ \E f : IsSum(f, a.trades)
  /\ a.balance + a.position * a.entry = Start + Net(a.trades)
  /\ (a.position > 0) <=> (a.balance = 0)

TakingTurns(a) ==
  /\ (a.position > 0) <=> (Len(a.trades) % 2 = 1)
  /\ \A i \in DOMAIN a.trades : (a.trades[i].type = "BUY") <=> (i % 2 = 1)
  /\ a.position > 0 => a.entry = a.trades[Len(a.trades)].price
  /\ \A i \in DOMAIN a.trades :
       i % 2 = 0 => (a.trades[i].pnl > 0) <=> (a.trades[i].price > a.trades[i - 1].price)

(* An opened position holds what the balance was, without the fee.         *)
LEMMA OpenedIsBalanced ==
  ASSUME BacktestAssumption, NEW a, Balanced(a), a.position = 0,
         NEW price \in Nat \ {0}, EvenOpening(a, price)
  PROVE  Balanced(Opened(a, price)) /\ Opened(a, price).position > 0
<1>. DEFINE fee == Of(FeeRate, a.balance)
            exec == More(SlippageRate, price)
            size == (a.balance - fee) \div exec
            t == [type |-> "BUY", price |-> exec, fee |-> fee, pnl |-> 0, reason |-> "signal"]
            b == Opened(a, price)
<1>1. a.balance \in Nat \ {0} /\ a.entry \in Nat /\ a.trades \in Seq(Trade)
  BY DEF Balanced, Book
<1>2. FeeRate \in Nat \X Nat /\ FeeRate[1] < FeeRate[2]
      /\ SlippageRate \in Nat \X Nat /\ SlippageRate[1] < SlippageRate[2] /\ Start \in Nat
  BY DEF BacktestAssumption
<1>3. fee \in Nat /\ fee < a.balance
  <2>1. a.balance \in Nat /\ a.balance > 0
    BY <1>1
  <2>. QED  BY <1>2, <2>1, EvenRate
<1>4. exec \in Nat /\ exec >= price /\ exec > 0
  <2>1. exec = price + Of(SlippageRate, price) /\ Of(SlippageRate, price) \in Nat
    BY <1>2, EvenRate DEF EvenOpening
  <2>. QED  BY <2>1
<1>5. size \in Nat /\ size * exec = a.balance - fee /\ size > 0
  <2>1. a.balance - fee \in Nat /\ a.balance - fee > 0 /\ (a.balance - fee) % exec = 0
    BY <1>1, <1>3 DEF EvenOpening
  <2>2. exec \in Nat \ {0}
    BY <1>4
  <2>. HIDE DEF fee, exec
  <2>. QED  BY <2>1, <2>2, EvenQuotient
<1>6. b = [balance |-> 0, position |-> size, entry |-> exec, trades |-> Append(a.trades, t)]
  BY DEF Opened
<1>. HIDE DEF exec, fee
<1>7. t.pnl = 0 /\ t.fee = fee
  OBVIOUS
<1>8. t \in Trade
  BY <1>3, <1>4 DEF Trade, Reasons
<1>. HIDE DEF t, b, size
<1>9. /\ \E f : IsSum(f, Append(a.trades, t))
      /\ Net(a.trades) \in Int
      /\ Net(Append(a.trades, t)) = Net(a.trades) + t.pnl - t.fee
  BY <1>1, <1>8, NetOfAppend DEF Balanced
<1>10. b \in Book
  BY <1>1, <1>4, <1>5, <1>6, <1>8 DEF Book
<1>11. a.balance + 0 * a.entry = Start + Net(a.trades)
  BY DEF Balanced
<1>12. b.balance + b.position * b.entry = Start + Net(b.trades)
  <2>1. Net(b.trades) = Net(a.trades) - fee
    BY <1>3, <1>6, <1>7, <1>9
  <2>2. b.balance + b.position * b.entry = a.balance - fee
    BY <1>3, <1>4, <1>5, <1>6
  <2>3. a.balance = Start + Net(a.trades)
    BY <1>1, <1>11
  <2>. QED  BY <1>1, <1>2, <1>3, <1>9, <2>1, <2>2, <2>3
<1>. QED  BY <1>5, <1>6, <1>9, <1>10, <1>12 DEF Balanced, b

(* A closed one is cash again: its cost and its profit, without the fee.   *)
LEMMA ClosedIsBalanced ==
  ASSUME BacktestAssumption, NEW a, Balanced(a), a.position > 0,
         NEW price \in Nat \ {0}, EvenClosing(a, price), NEW reason \in Reasons
  PROVE  Balanced(Closed(a, price, reason)) /\ Closed(a, price, reason).position = 0
<1>. DEFINE exec == Less(SlippageRate, price)
            worth == a.position * exec
            fee == Of(FeeRate, worth)
            t == [type |-> "SELL", price |-> exec, fee |-> fee,
                  pnl |-> (exec - a.entry) * a.position, reason |-> reason]
            b == Closed(a, price, reason)
<1>1. a.balance = 0 /\ a.position \in Nat \ {0} /\ a.entry \in Nat /\ a.trades \in Seq(Trade)
  BY DEF Balanced, Book
<1>2. FeeRate \in Nat \X Nat /\ FeeRate[1] < FeeRate[2]
      /\ SlippageRate \in Nat \X Nat /\ SlippageRate[1] < SlippageRate[2] /\ Start \in Nat
  BY DEF BacktestAssumption
<1>3. exec \in Nat \ {0}
  <2>1. exec = price - Of(SlippageRate, price) /\ Of(SlippageRate, price) < price
        /\ exec \in Nat /\ Of(SlippageRate, price) \in Nat
    BY <1>2, EvenRate DEF EvenClosing
  <2>. QED  BY <2>1
<1>. HIDE DEF exec
<1>4. worth \in Nat \ {0}
  BY <1>1, <1>3
<1>. HIDE DEF worth
<1>5. fee \in Nat /\ fee < worth
  BY <1>2, <1>4, EvenRate
<1>6. b = [balance |-> worth - fee, position |-> 0, entry |-> 0, trades |-> Append(a.trades, t)]
  BY DEF Closed, exec, worth
<1>. HIDE DEF fee, b
<1>7. t.pnl = (exec - a.entry) * a.position /\ t.fee = fee
  OBVIOUS
<1>8. t \in Trade
  <2>1. (exec - a.entry) * a.position \in Int
    BY <1>1, <1>3
  <2>. QED  BY <1>3, <1>5, <2>1 DEF Trade
<1>. HIDE DEF t
<1>9. /\ \E f : IsSum(f, Append(a.trades, t))
      /\ Net(a.trades) \in Int
      /\ Net(Append(a.trades, t)) = Net(a.trades) + t.pnl - t.fee
  BY <1>1, <1>8, NetOfAppend DEF Balanced
<1>10. b \in Book /\ b.balance > 0
  BY <1>1, <1>4, <1>5, <1>6, <1>8 DEF Book
<1>11. a.position * a.entry = Start + Net(a.trades)
  BY <1>1 DEF Balanced
<1>12. b.balance + b.position * b.entry = Start + Net(b.trades)
  <2>1. t.pnl = worth - a.position * a.entry
    BY <1>1, <1>3, <1>7 DEF worth
  <2>2. a.position * a.entry \in Int
    BY <1>1
  <2>3. Net(b.trades) = Net(a.trades) + worth - a.position * a.entry - fee
    BY <1>4, <1>5, <1>6, <1>7, <1>9, <2>1, <2>2
  <2>4. b.balance + b.position * b.entry = worth - fee
    BY <1>4, <1>5, <1>6
  <2>. QED  BY <1>2, <1>4, <1>5, <1>9, <1>11, <2>2, <2>3, <2>4
<1>. QED  BY <1>6, <1>9, <1>10, <1>12 DEF Balanced, b

-----------------------------------------------------------------------------
(* Of two numbers in a row one is even.                                    *)
LEMMA Parity ==
  ASSUME NEW n \in Nat
  PROVE  n % 2 \in {0, 1} /\ (n + 1) % 2 = 1 - (n % 2) /\ (n > 0 => (n - 1) % 2 = 1 - (n % 2))
OBVIOUS

(* A purchase comes after a sale or first; the position has its price.     *)
LEMMA OpenedTakesTurns ==
  ASSUME NEW a, a \in Book, TakingTurns(a), a.position = 0, NEW price,
         Opened(a, price) \in Book, Opened(a, price).position > 0
  PROVE  TakingTurns(Opened(a, price))
<1>. DEFINE n == Len(a.trades)
            b == Opened(a, price)
<1>1. a.trades \in Seq(Trade) /\ n \in Nat /\ n % 2 # 1
  BY DEF TakingTurns, Book
<1>2. PICK t : b.trades = Append(a.trades, t) /\ t.type = "BUY" /\ t.price = b.entry
  BY DEF Opened
<1>3. Len(b.trades) = n + 1 /\ b.trades[n + 1] = t /\ \A i \in 1 .. n : b.trades[i] = a.trades[i]
  BY <1>1, <1>2
<1>4. (n + 1) % 2 = 1
  <2>. HIDE DEF n
  <2>. QED  BY <1>1, Parity
<1>5. ASSUME NEW i \in 1 .. n + 1 PROVE (b.trades[i].type = "BUY") <=> (i % 2 = 1)
  <2>1. CASE i = n + 1
    BY <2>1, <1>2, <1>3, <1>4
  <2>2. CASE i # n + 1
    <3>1. i \in DOMAIN a.trades /\ b.trades[i] = a.trades[i]
      BY <2>2, <1>1, <1>3
    <3>. QED  BY <3>1 DEF TakingTurns
  <2>. QED  BY <2>1, <2>2
<1>6. ASSUME NEW i \in 1 .. n + 1, i % 2 = 0
      PROVE  (b.trades[i].pnl > 0) <=> (b.trades[i].price > b.trades[i - 1].price)
  <2>1. i \in 1 .. n /\ i - 1 \in 1 .. n
    <3>. HIDE DEF n, b
    <3>1. i # n + 1 /\ i # 1
      BY <1>4, <1>6, Parity
    <3>. QED  BY <1>1, <3>1
  <2>2. i \in DOMAIN a.trades /\ b.trades[i] = a.trades[i] /\ b.trades[i - 1] = a.trades[i - 1]
    BY <2>1, <1>1, <1>3
  <2>. QED  BY <2>2, <1>6 DEF TakingTurns
<1>7. b.trades \in Seq(Trade) /\ DOMAIN b.trades = 1 .. n + 1
  BY <1>1, <1>3 DEF Book
<1>. HIDE DEF b, n
<1>8. b.position > 0
  BY DEF b
<1>. QED  BY <1>2, <1>3, <1>4, <1>5, <1>6, <1>7, <1>8 DEF TakingTurns, b

(* A sale comes after a purchase; a higher price than its is a profit.     *)
LEMMA ClosedTakesTurns ==
  ASSUME NEW a, a \in Book, TakingTurns(a), a.position > 0, NEW price, NEW reason,
         Closed(a, price, reason) \in Book, Closed(a, price, reason).position = 0,
         Less(SlippageRate, price) \in Nat
  PROVE  TakingTurns(Closed(a, price, reason))
<1>. DEFINE n == Len(a.trades)
            b == Closed(a, price, reason)
            exec == Less(SlippageRate, price)
<1>1. a.trades \in Seq(Trade) /\ n \in Nat /\ n % 2 = 1 /\ a.entry = a.trades[n].price
      /\ a.entry \in Nat /\ a.position \in Nat \ {0}
  <2>1. a.trades \in Seq(Trade) /\ a.entry \in Nat /\ a.position \in Nat
    BY DEF Book
  <2>2. (Len(a.trades) % 2 = 1) /\ a.entry = a.trades[Len(a.trades)].price
    BY DEF TakingTurns
  <2>3. a.position \in Nat \ {0}
    BY <2>1
  <2>4. Len(a.trades) \in Nat
    BY <2>1
  <2>. QED  BY <2>1, <2>2, <2>3, <2>4
<1>2. PICK t : b.trades = Append(a.trades, t) /\ t.type = "SELL" /\ t.price = exec
               /\ t.pnl = (exec - a.entry) * a.position
  BY DEF Closed
<1>3. Len(b.trades) = n + 1 /\ b.trades[n + 1] = t /\ \A i \in 1 .. n : b.trades[i] = a.trades[i]
  BY <1>1, <1>2
<1>4. (n + 1) % 2 = 0 /\ n \in 1 .. n
  <2>. HIDE DEF n
  <2>1. n # 0
    BY <1>1, Parity
  <2>. QED  BY <1>1, <2>1, Parity
<1>5. ASSUME NEW i \in 1 .. n + 1 PROVE (b.trades[i].type = "BUY") <=> (i % 2 = 1)
  <2>1. CASE i = n + 1
    <3>. HIDE DEF n, b
    <3>1. b.trades[i].type = "SELL" /\ i % 2 = 0
      BY <2>1, <1>2, <1>3, <1>4
    <3>2. "SELL" # "BUY" /\ 0 # 1
      OBVIOUS
    <3>. QED  BY <3>1, <3>2
  <2>2. CASE i # n + 1
    <3>1. i \in DOMAIN a.trades /\ b.trades[i] = a.trades[i]
      BY <2>2, <1>1, <1>3
    <3>. QED  BY <3>1 DEF TakingTurns
  <2>. QED  BY <2>1, <2>2
<1>6. ASSUME NEW i \in 1 .. n + 1, i % 2 = 0
      PROVE  (b.trades[i].pnl > 0) <=> (b.trades[i].price > b.trades[i - 1].price)
  <2>1. CASE i = n + 1
    <3>1. b.trades[i] = t /\ b.trades[i - 1].price = a.entry
      BY <2>1, <1>1, <1>3, <1>4
    <3>2. exec \in Nat
      OBVIOUS
    <3>. HIDE DEF exec
    <3>3. ((exec - a.entry) * a.position > 0) <=> (exec > a.entry)
      BY <1>1, <3>2
    <3>. QED  BY <3>1, <3>3, <1>2
  <2>2. CASE i # n + 1
    <3>1. i \in 1 .. n /\ i - 1 \in 1 .. n
      <4>. HIDE DEF n, b
      <4>1. i # 1
        BY <1>6, Parity
      <4>. QED  BY <2>2, <1>1, <4>1
    <3>2. i \in DOMAIN a.trades /\ b.trades[i] = a.trades[i] /\ b.trades[i - 1] = a.trades[i - 1]
      BY <3>1, <1>1, <1>3
    <3>. QED  BY <3>2, <1>6 DEF TakingTurns
  <2>. QED  BY <2>1, <2>2
<1>7. b.trades \in Seq(Trade) /\ DOMAIN b.trades = 1 .. n + 1
  BY <1>1, <1>3 DEF Book
<1>. HIDE DEF b, n
<1>8. b.position = 0
  BY DEF b
<1>9. (b.position > 0) <=> (Len(b.trades) % 2 = 1)
  BY <1>3, <1>4, <1>8
<1>10. \A i \in DOMAIN b.trades : (b.trades[i].type = "BUY") <=> (i % 2 = 1)
  BY <1>5, <1>7
<1>11. \A i \in DOMAIN b.trades :
          i % 2 = 0 => (b.trades[i].pnl > 0) <=> (b.trades[i].price > b.trades[i - 1].price)
  BY <1>6, <1>7
<1>12. ~ (b.position > 0)
  BY <1>8
<1>. QED  BY <1>9, <1>10, <1>11, <1>12 DEF TakingTurns, b

(* Both statistics count the sales.                                        *)
LEMMA StatisticsAgree ==
  ASSUME NEW a, a \in Book, TakingTurns(a)
  PROVE  ClosedPairs(a.trades) = Sales(a.trades) /\ Wins(a.trades) = Winning(a.trades)
<1>1. a.trades \in Seq(Trade) /\ Len(a.trades) \in Nat /\ DOMAIN a.trades = 1 .. Len(a.trades)
  BY DEF Book
<1>2. ASSUME NEW i \in 1 .. Len(a.trades)
      PROVE  /\ (a.trades[i].type = "SELL") <=> (i % 2 = 0)
             /\ i % 2 = 0 => a.trades[i - 1].type = "BUY"
  <2>1. a.trades[i].type \in {"BUY", "SELL"} /\ (a.trades[i].type = "BUY" <=> i % 2 = 1)
    <3>1. a.trades[i] \in Trade /\ i \in DOMAIN a.trades
      BY <1>1
    <3>. QED  BY <3>1 DEF TakingTurns, Trade
  <2>2. i % 2 = 0 => i - 1 \in DOMAIN a.trades /\ (i - 1) % 2 = 1
    BY <1>1
  <2>3. i % 2 \in {0, 1}
    BY <1>1
  <2>4. i % 2 = 0 => a.trades[i - 1].type = "BUY"
    BY <2>2 DEF TakingTurns
  <2>5. a.trades[i].type = "SELL" <=> a.trades[i].type # "BUY"
    <3>1. a.trades[i].type \in {"BUY", "SELL"}
      BY <2>1
    <3>2. "SELL" # "BUY"
      OBVIOUS
    <3>. QED  BY <3>1, <3>2, Zenon
  <2>6. i % 2 = 0 <=> i % 2 # 1
    BY <2>3
  <2>. QED  BY <2>1, <2>4, <2>5, <2>6
<1>3. ClosedPairs(a.trades) = Sales(a.trades)
  BY <1>1, <1>2 DEF ClosedPairs, Sales
<1>4. \A i \in Sales(a.trades) : (a.trades[i].pnl > 0) <=> (a.trades[i].price > a.trades[i - 1].price)
  BY <1>1, <1>2 DEF Sales, TakingTurns
<1>. QED  BY <1>3, <1>4 DEF Wins, Winning

-----------------------------------------------------------------------------
(* An account stays sound through a signal and the stops.                  *)
Sound(a) == Balanced(a) /\ TakingTurns(a)

(* A purchase.                                                             *)
LEMMA OpenedIsSound ==
  ASSUME BacktestAssumption, NEW a, Sound(a), a.position = 0,
         NEW price \in Nat \ {0}, EvenOpening(a, price)
  PROVE  Sound(Opened(a, price)) /\ Opened(a, price).position > 0
<1>1. Balanced(Opened(a, price)) /\ Opened(a, price).position > 0
  BY OpenedIsBalanced DEF Sound
<1>2. a \in Book /\ Opened(a, price) \in Book
  BY <1>1 DEF Sound, Balanced
<1>. QED  BY <1>1, <1>2, OpenedTakesTurns DEF Sound

(* A sale.                                                                 *)
LEMMA ClosedIsSound ==
  ASSUME BacktestAssumption, NEW a, Sound(a), a.position > 0,
         NEW price \in Nat \ {0}, EvenClosing(a, price), NEW reason \in Reasons
  PROVE  Sound(Closed(a, price, reason)) /\ Closed(a, price, reason).position = 0
<1>1. Balanced(Closed(a, price, reason)) /\ Closed(a, price, reason).position = 0
  BY ClosedIsBalanced DEF Sound
<1>2. a \in Book /\ Closed(a, price, reason) \in Book
  BY <1>1 DEF Sound, Balanced
<1>3. Less(SlippageRate, price) \in Nat
  BY EvenRate DEF BacktestAssumption
<1>. QED  BY <1>1, <1>2, <1>3, ClosedTakesTurns DEF Sound

(* The signal of a candle.                                                 *)
LEMMA SignalKeepsSound ==
  ASSUME BacktestAssumption, Sound(account), NEW price \in Nat \ {0}, NEW signal,
         account.position = 0 => EvenOpening(account, price), EvenClosing(account, price)
  PROVE  Sound(AfterSignal(account, price, signal))
<1>1. CASE signal = "BUY" /\ account.position = 0 /\ account.balance > 0
  <2>1. AfterSignal(account, price, signal) = Opened(account, price)
    BY <1>1 DEF AfterSignal
  <2>. QED  BY <1>1, <2>1, OpenedIsSound
<1>2. CASE signal = "SELL" /\ account.position > 0
  <2>1. "signal" \in Reasons /\ AfterSignal(account, price, signal) = Closed(account, price, "signal")
    BY <1>2 DEF AfterSignal, Reasons
  <2>. QED  BY <1>2, <2>1, ClosedIsSound
<1>3. CASE /\ ~ (signal = "BUY" /\ account.position = 0 /\ account.balance > 0)
           /\ ~ (signal = "SELL" /\ account.position > 0)
  BY <1>3 DEF AfterSignal
<1>. QED  BY <1>1, <1>2, <1>3

(* The stops, after it.                                                    *)
LEMMA StopsKeepSound ==
  ASSUME BacktestAssumption, NEW a, Sound(a), NEW price \in Nat \ {0}, EvenClosing(a, price)
  PROVE  Sound(AfterStops(a, price))
<1>1. CASE a.position > 0
  <2>1. AfterStops(a, price) \in {a, Closed(a, price, "stop_loss"), Closed(a, price, "take_profit")}
    BY DEF AfterStops
  <2>2. "stop_loss" \in Reasons /\ "take_profit" \in Reasons
    BY DEF Reasons
  <2>. QED  BY <1>1, <2>1, <2>2, ClosedIsSound
<1>2. CASE ~ (a.position > 0)
  BY <1>2 DEF AfterStops
<1>. QED  BY <1>1, <1>2

-----------------------------------------------------------------------------
(* Without stops both backtests trade together, and TickBacktest has more. *)
TickBooks == [balance : Nat, position : Nat, price : Nat]

(* At a price its amounts are numbers.                                     *)
LEMMA TickCounts ==
  ASSUME BacktestAssumption, NEW t \in TickBooks, NEW price \in Nat
  PROVE  /\ IsPositive(t.position) <=> t.position > 0
         /\ Sold(t, price) = [balance |-> Less(FeeRate, t.position * price),
                              position |-> 0, price |-> price]
         /\ price > 0 => Over(t.balance, price) = t.balance \div price
<1>1. t.position \in Nat /\ t.balance \in Nat
  BY DEF TickBooks
<1>2. IsPositive(t.position) <=> t.position > 0
  BY <1>1 DEF IsPositive, BacktestAssumption
<1>3. Times(t.position, price) = t.position * price /\ t.position * price \in Nat
  BY <1>1 DEF Times
<1>4. Sold(t, price) = [balance |-> Less(FeeRate, t.position * price),
                        position |-> 0, price |-> price]
  BY <1>3 DEF Sold
<1>5. price > 0 => Over(t.balance, price) = t.balance \div price
  BY <1>1 DEF Over
<1>. QED  BY <1>2, <1>4, <1>5

Beats(t, a) ==
  /\ a.position > 0 <=> t.position > 0
  /\ a.position = 0 => t.balance >= a.balance
  /\ a.position > 0 => t.position >= a.position

(* It pays neither fee nor slippage when it buys.                          *)
LEMMA BuyingBeats ==
  ASSUME BacktestAssumption, NEW a, Sound(a), a.position = 0, NEW t \in TickBooks, Beats(t, a),
         NEW price \in Nat \ {0}, EvenOpening(a, price), t.balance % price = 0
  PROVE  LET b == t.balance \div price
         IN  b \in Nat /\ b > 0 /\ b >= Opened(a, price).position
<1>. DEFINE fee == Of(FeeRate, a.balance)
            exec == More(SlippageRate, price)
            size == (a.balance - fee) \div exec
            more == t.balance \div price
<1>1. a.balance \in Nat /\ a.balance > 0 /\ t.balance \in Nat /\ t.balance >= a.balance
  BY DEF Sound, Balanced, Book, Beats, TickBooks
<1>2. FeeRate \in Nat \X Nat /\ FeeRate[1] < FeeRate[2]
      /\ SlippageRate \in Nat \X Nat /\ SlippageRate[1] < SlippageRate[2]
  BY DEF BacktestAssumption
<1>3. fee \in Nat /\ fee < a.balance
  BY <1>1, <1>2, EvenRate
<1>4. exec \in Nat /\ exec >= price /\ exec > 0
  <2>1. exec = price + Of(SlippageRate, price) /\ Of(SlippageRate, price) \in Nat
    BY <1>2, EvenRate DEF EvenOpening
  <2>. QED  BY <2>1
<1>5. (a.balance - fee) % exec = 0
  BY DEF EvenOpening
<1>6. more \in Nat /\ more * price = t.balance /\ more > 0
  <2>1. t.balance > 0 /\ t.balance % price = 0
    BY <1>1
  <2>. QED  BY <1>1, <2>1, EvenQuotient
<1>. HIDE DEF fee, exec, more
<1>7. size \in Nat /\ size * exec = a.balance - fee
  <2>1. a.balance - fee \in Nat /\ exec \in Nat \ {0}
    BY <1>1, <1>3, <1>4
  <2>. QED  BY <1>5, <2>1, EvenQuotient
<1>8. Opened(a, price).position = size
  BY DEF Opened, fee, exec
<1>. HIDE DEF size
<1>9. size * price <= size * exec
  BY <1>4, <1>7
<1>10. size * price <= more * price
  <2>1. size * price \in Nat /\ more * price \in Nat
    BY <1>6, <1>7
  <2>. QED  BY <1>1, <1>3, <1>6, <1>7, <1>9, <2>1
<1>11. size <= more
  BY <1>6, <1>7, <1>10
<1>. QED  BY <1>6, <1>8, <1>11 DEF more

(* It pays no slippage when it sells.                                      *)
LEMMA SellingBeats ==
  ASSUME BacktestAssumption, NEW a, Sound(a), a.position > 0, NEW t \in TickBooks, Beats(t, a),
         NEW price \in Nat \ {0}, EvenClosing(a, price), Even(FeeRate, t.position * price),
         NEW reason
  PROVE  Sold(t, price).balance >= Closed(a, price, reason).balance
<1>. DEFINE exec == Less(SlippageRate, price)
            y == a.position * exec
            x == t.position * price
            d == FeeRate[2]
            n == FeeRate[1]
<1>1. a.position \in Nat /\ t.position \in Nat /\ t.position >= a.position
  BY DEF Sound, Balanced, Book, Beats, TickBooks
<1>2. FeeRate \in Nat \X Nat /\ FeeRate[1] < FeeRate[2]
      /\ SlippageRate \in Nat \X Nat /\ SlippageRate[1] < SlippageRate[2]
  BY DEF BacktestAssumption
<1>3. exec \in Nat /\ exec <= price
  BY <1>2, EvenRate DEF EvenClosing
<1>4. Even(FeeRate, y)
  BY DEF EvenClosing
<1>5. n \in Nat /\ d \in Nat \ {0} /\ n < d
  BY <1>2
<1>6. Sold(t, price).balance = Less(FeeRate, x) /\ Closed(a, price, reason).balance = y - Of(FeeRate, y)
  <2>1. Sold(t, price) = [balance |-> Less(FeeRate, x), position |-> 0, price |-> price]
    BY TickCounts
  <2>. QED  BY <2>1 DEF Closed
<1>. HIDE DEF exec
<1>7. x \in Nat /\ y \in Nat /\ x >= y
  <2>1. y <= a.position * price
    BY <1>1, <1>3
  <2>2. a.position * price <= t.position * price
    BY <1>1
  <2>3. x \in Nat /\ y \in Nat /\ a.position * price \in Nat
    BY <1>1, <1>3
  <2>. HIDE DEF y
  <2>. QED  BY <2>1, <2>2, <2>3
<1>. HIDE DEF x, y
<1>8. Less(FeeRate, x) = x - Of(FeeRate, x) /\ Of(FeeRate, x) * d = x * n /\ Of(FeeRate, x) \in Nat
  BY <1>2, <1>7, EvenRate DEF x
<1>9. Of(FeeRate, y) * d = y * n /\ Of(FeeRate, y) \in Nat
  BY <1>2, <1>4, <1>7, EvenRate
<1>10. \A p, q \in Nat : p * d = x * n /\ q * d = y * n => x - p >= y - q
  <2>. HIDE DEF d, n
  <2>. SUFFICES ASSUME NEW p \in Nat, NEW q \in Nat, p * d = x * n, q * d = y * n
                PROVE  x - p >= y - q
    OBVIOUS
  <2>1. (x - p) * d = x * (d - n) /\ (y - q) * d = y * (d - n)
    BY <1>5, <1>7
  <2>2. y * (d - n) <= x * (d - n)
    BY <1>5, <1>7
  <2>3. (y - q) * d <= (x - p) * d
    BY <2>1, <2>2
  <2>. QED  BY <1>5, <1>7, <2>3
<1>. QED  BY <1>6, <1>8, <1>9, <1>10

(* The two trade together.                                                 *)
LEMMA TradingBeats ==
  ASSUME BacktestAssumption, Sound(account), tick \in TickBooks, Beats(tick, account),
         NEW price \in Nat \ {0}, NEW signal, EvenTick(tick, price),
         account.position = 0 => EvenOpening(account, price), EvenClosing(account, price)
  PROVE  Beats(AfterTick(tick, price, signal), AfterSignal(account, price, signal))
<1>1. /\ account.position \in Nat /\ account.balance \in Nat
      /\ account.position = 0 <=> account.balance > 0
      /\ tick.position \in Nat /\ tick.balance \in Nat
      /\ account.position = 0 <=> tick.position = 0
      /\ account.position > 0 <=> tick.position > 0
      /\ IsPositive(tick.position) <=> tick.position > 0
  <2>1. account.position \in Nat /\ account.balance \in Nat /\ tick.position \in Nat
        /\ tick.balance \in Nat
    BY DEF Sound, Balanced, Book, TickBooks
  <2>2. /\ account.position > 0 <=> account.balance = 0
        /\ account.position > 0 <=> tick.position > 0
    BY DEF Sound, Balanced, Beats
  <2>3. IsPositive(tick.position) <=> tick.position > 0
    BY TickCounts
  <2>. QED  BY <2>1, <2>2, <2>3
<1>2. CASE signal = "BUY" /\ account.position = 0
  <2>1. /\ AfterSignal(account, price, signal) = Opened(account, price)
        /\ AfterTick(tick, price, signal).position = tick.balance \div price
    <3>1. Over(tick.balance, price) = tick.balance \div price
      BY TickCounts
    <3>. QED  BY <1>1, <1>2, <3>1 DEF AfterSignal, AfterTick
  <2>2. EvenOpening(account, price) /\ tick.balance % price = 0
    BY <1>1, <1>2 DEF EvenTick
  <2>3. Opened(account, price).position \in Nat \ {0}
    <3>1. Sound(Opened(account, price)) /\ Opened(account, price).position > 0
      BY <1>2, <2>2, OpenedIsSound
    <3>. QED  BY <3>1 DEF Sound, Balanced, Book
  <2>4. /\ tick.balance \div price \in Nat /\ tick.balance \div price > 0
        /\ tick.balance \div price >= Opened(account, price).position
    BY <1>2, <2>2, BuyingBeats
  <2>. QED  BY <2>1, <2>3, <2>4 DEF Beats
<1>3. CASE signal = "SELL" /\ account.position > 0
  <2>1. /\ AfterSignal(account, price, signal) = Closed(account, price, "signal")
        /\ AfterTick(tick, price, signal) = Sold(tick, price)
    BY <1>1, <1>3 DEF AfterSignal, AfterTick
  <2>2. Even(FeeRate, tick.position * price)
    BY <1>1, <1>3 DEF EvenTick
  <2>3. Sold(tick, price).balance >= Closed(account, price, "signal").balance
    BY <1>3, <2>2, SellingBeats
  <2>4. Sold(tick, price).position = 0 /\ Closed(account, price, "signal").position = 0
    BY DEF Sold, Closed
  <2>. QED  BY <2>1, <2>3, <2>4 DEF Beats
<1>4. CASE /\ ~ (signal = "BUY" /\ account.position = 0)
           /\ ~ (signal = "SELL" /\ account.position > 0)
  <2>1. AfterSignal(account, price, signal) = account
    BY <1>4 DEF AfterSignal
  <2>2. AfterTick(tick, price, signal) = [tick EXCEPT !.price = price]
    BY <1>1, <1>4 DEF AfterTick
  <2>3. /\ AfterTick(tick, price, signal).position = tick.position
        /\ AfterTick(tick, price, signal).balance = tick.balance
    BY <2>2 DEF TickBooks
  <2>. QED  BY <2>1, <2>3 DEF Beats
<1>. QED  BY <1>2, <1>3, <1>4

(* TickBacktest keeps the price.                                           *)
LEMMA TickKeepsTypes ==
  ASSUME BacktestAssumption, NEW t \in TickBooks, NEW price \in Nat
  PROVE  /\ Sold(t, price) \in TickBooks
         /\ \A s : price > 0 => /\ AfterTick(t, price, s) \in TickBooks
                              /\ AfterTick(t, price, s).price = price
<1>1. t.position \in Nat /\ t.balance \in Nat
  BY DEF TickBooks
<1>2. Sold(t, price) \in TickBooks /\ Sold(t, price).price = price
  <2>1. t.position * price \in Nat
    BY <1>1
  <2>2. Less(FeeRate, t.position * price) \in Nat
    BY <2>1, EvenRate DEF BacktestAssumption
  <2>. QED  BY <2>2, TickCounts DEF TickBooks
<1>3. ASSUME price > 0 PROVE Over(t.balance, price) \in Nat
  BY <1>1, <1>3 DEF Over
<1>4. [t EXCEPT !.price = price] \in TickBooks /\ [t EXCEPT !.price = price].price = price
  BY DEF TickBooks
<1>. QED  BY <1>2, <1>3, <1>4 DEF AfterTick, TickBooks

-----------------------------------------------------------------------------
(* A run that neither stops a loss nor takes a profit.                     *)
NoStops == stops.loss[1] = 0 /\ stops.profit[1] = 0

(* The curve has a point for each candle with a price; the last of them is *)
(* what the account was worth before it sold what was left.                *)
CurveInv ==
  /\ candles \in Nat /\ last \in Nat /\ finished \in BOOLEAN
  /\ curve \in Seq(Nat) /\ Len(curve) <= candles
  /\ last > 0 => curve # <<>>
  /\ last > 0 /\ ~finished => curve[Len(curve)] = Equity(account, last)
  /\ last > 0 /\ finished => /\ account.position = 0
                             /\ curve[Len(curve)] >= account.balance
                             /\ curve[Len(curve)] = account.balance \/ EndsWith("eod")

(* While all candles have a price the two can be compared.                 *)
PricedInv ==
  AllPriced => /\ tick \in TickBooks
               /\ candles > 0 => last > 0 /\ tick.price = last
               /\ NoStops => Beats(tick, account)
               /\ finished => tick.position = 0 /\ account.position = 0

(* The inductive invariant.                                                *)
BooksInv == Sound(account) /\ CurveInv /\ PricedInv

(* Both backtests start with the starting balance.                         *)
LEMMA BooksInitially ==
  ASSUME BacktestAssumption, BacktestInit
  PROVE  BooksInv
<1>. DEFINE f == [i \in 0 .. 0 |-> 0]
<1>1. IsSum(f, <<>>)
  BY DEF IsSum
<1>2. <<>> \in Seq(Trade)
  OBVIOUS
<1>3. Net(<<>>) = 0
  <2>1. Net(<<>>) = f[Len(<<>>)]
    <3>. HIDE DEF f
    <3>. QED  BY <1>1, <1>2, NetIsSum
  <2>. QED  BY <2>1
<1>4. account = [balance |-> Start, position |-> 0, entry |-> 0, trades |-> <<>>]
      /\ tick = [balance |-> Start, position |-> 0, price |-> 0]
      /\ last = 0 /\ finished = FALSE /\ candles = 0 /\ curve = <<>>
  BY DEF BacktestInit
<1>5. Start \in Nat \ {0}
  BY DEF BacktestAssumption
<1>6. Balanced(account)
  <2>1. account \in Book
    BY <1>2, <1>4, <1>5 DEF Book
  <2>2. \E g : IsSum(g, account.trades)
    BY <1>1, <1>4
  <2>. QED  BY <1>3, <1>4, <1>5, <2>1, <2>2 DEF Balanced
<1>7. TakingTurns(account)
  BY <1>4 DEF TakingTurns
<1>8. Beats(tick, account) /\ tick \in TickBooks
  BY <1>4, <1>5 DEF Beats, TickBooks
<1>9. CurveInv
  <2>1. candles = 0 /\ last = 0 /\ curve = <<>>
    BY <1>4
  <2>2. finished \in BOOLEAN
    BY <1>4, Zenon
  <2>3. candles \in Nat /\ last \in Nat /\ ~ (last > 0)
    BY <2>1
  <2>4. curve \in Seq(Nat) /\ Len(curve) <= candles
    BY <2>1
  <2>. QED  BY <2>2, <2>3, <2>4 DEF CurveInv
<1>10. PricedInv
  BY <1>4, <1>8 DEF PricedInv
<1>. QED  BY <1>6, <1>7, <1>9, <1>10 DEF BooksInv, Sound

(* A candle without a price leaves the account and the curve alone.        *)
LEMMA UnpricedKeeps ==
  ASSUME BooksInv, NEW price, NEW signal, Candle(price, signal), last' = 0
  PROVE  BooksInv'
<1>1. /\ account' = account /\ curve' = curve /\ candles' = candles + 1
      /\ ~finished /\ finished' = finished
  BY DEF Candle
<1>2. Sound(account) /\ CurveInv
  BY DEF BooksInv
<1>3. Sound(account)'
  BY <1>1, <1>2
<1>4. candles' \in Nat /\ Len(curve') < candles'
  BY <1>1, <1>2 DEF CurveInv
<1>5. CurveInv'
  BY <1>1, <1>2, <1>4 DEF CurveInv
<1>6. PricedInv'
  <2>1. Len(curve') \in Nat
    BY <1>1, <1>2 DEF CurveInv
  <2>. QED  BY <1>4, <2>1 DEF PricedInv, AllPriced
<1>. QED  BY <1>3, <1>5, <1>6 DEF BooksInv

(* One with a price: both may trade, and the curve grows.                  *)
LEMMA PricedKeeps ==
  ASSUME BacktestAssumption, BooksInv, AmountsAreEven, NEW price \in Prices \cap (Nat \ {0}),
         NEW signal \in {"BUY", "SELL", "HOLD"}, Candle(price, signal), last' = price
  PROVE  BooksInv'
<1>. DEFINE a == AfterSignal(account, price, signal)
<1>1. /\ account' = AfterStops(a, price) /\ tick' = AfterTick(tick, price, signal)
      /\ curve' = Append(curve, Equity(account', price)) /\ candles' = candles + 1
      /\ ~finished /\ finished' = finished /\ stops' = stops /\ candles < MaxCandles
  BY DEF Candle
<1>2. /\ account.position = 0 => EvenOpening(account, price)
      /\ EvenClosing(a, price)
      /\ EvenTick(tick, price)
      /\ EvenClosing(AfterSignal(account, price, "HOLD"), price)
  BY <1>1 DEF AmountsAreEven
<1>3. EvenClosing(account, price)
  BY <1>2 DEF AfterSignal
<1>4. price \in Nat \ {0} /\ Sound(account) /\ CurveInv /\ PricedInv
  BY DEF BooksInv
<1>5. Sound(a)
  BY <1>2, <1>3, <1>4, SignalKeepsSound
<1>. HIDE DEF a
<1>6. Sound(account')
  BY <1>1, <1>2, <1>4, <1>5, StopsKeepSound
<1>7. /\ curve' \in Seq(Nat) /\ Len(curve') = Len(curve) + 1 /\ Len(curve) \in Nat
      /\ curve' # <<>> /\ curve'[Len(curve')] = Equity(account', price)
  <2>1. account'.balance \in Nat /\ account'.position \in Nat
    BY <1>6 DEF Sound, Balanced, Book
  <2>2. Equity(account', price) \in Nat
    BY <1>4, <2>1 DEF Equity
  <2>3. curve \in Seq(Nat)
    BY <1>4 DEF CurveInv
  <2>. DEFINE e == Equity(account', price)
  <2>4. curve' = Append(curve, e) /\ e \in Nat
    BY <1>1, <2>2
  <2>. HIDE DEF e
  <2>5. /\ curve' \in Seq(Nat) /\ Len(curve') = Len(curve) + 1 /\ Len(curve) \in Nat
        /\ curve' # <<>> /\ curve'[Len(curve) + 1] = e
    BY <2>3, <2>4
  <2>. QED  BY <2>5 DEF e
<1>8. CurveInv'
  <2>1. candles' \in Nat /\ Len(curve') <= candles' /\ ~finished' /\ finished' \in BOOLEAN
    BY <1>1, <1>4, <1>7 DEF CurveInv
  <2>2. last' \in Nat /\ curve'[Len(curve')] = Equity(account', last')
    BY <1>4, <1>7
  <2>. QED  BY <1>7, <2>1, <2>2 DEF CurveInv
<1>9. PricedInv'
  <2>. SUFFICES ASSUME AllPriced'
                PROVE  /\ tick' \in TickBooks /\ last' > 0 /\ tick'.price = last' /\ ~finished'
                       /\ NoStops' => Beats(tick', account')
    BY DEF PricedInv
  <2>1. AllPriced
    <3>1. candles \in Nat /\ Len(curve) + 1 = candles + 1
      BY <1>1, <1>4, <1>7 DEF AllPriced, CurveInv
    <3>. QED  BY <1>7, <3>1 DEF AllPriced
  <2>2. tick \in TickBooks /\ (NoStops => Beats(tick, account))
    BY <1>4, <2>1 DEF PricedInv
  <2>3. tick' \in TickBooks /\ tick'.price = price
    <3>1. price \in Nat /\ price > 0
      BY <1>4
    <3>2. AfterTick(tick, price, signal) \in TickBooks /\ AfterTick(tick, price, signal).price = price
      BY <2>2, <3>1, TickKeepsTypes
    <3>. QED  BY <1>1, <3>2
  <2>4. ASSUME NoStops PROVE Beats(tick', account')
    <3>1. AfterStops(a, price) = a
      BY <2>4 DEF AfterStops, ShouldStopLoss, ShouldTakeProfit, NoStops
    <3>2. Beats(AfterTick(tick, price, signal), a)
      BY <1>2, <1>3, <1>4, <2>2, <2>4, TradingBeats DEF a
    <3>. QED  BY <1>1, <3>1, <3>2
  <2>5. NoStops' <=> NoStops
    BY <1>1 DEF NoStops
  <2>. QED  BY <1>1, <1>4, <2>3, <2>4, <2>5
<1>. QED  BY <1>6, <1>8, <1>9 DEF BooksInv

(* A candle, with a price or without one.                                  *)
LEMMA CandleKeeps ==
  ASSUME BacktestAssumption, BooksInv, AmountsAreEven, NEW price \in Prices,
         NEW signal \in {"BUY", "SELL", "HOLD"}, Candle(price, signal)
  PROVE  BooksInv'
<1>1. last' = 0 \/ (last' = price /\ price \in Nat \ {0})
  BY DEF Candle, SafeNumber
<1>. QED  BY <1>1, UnpricedKeeps, PricedKeeps

(* The last sale pays slippage and a fee.                                  *)
LEMMA SaleCosts ==
  ASSUME BacktestAssumption, NEW a, Sound(a), a.position > 0, NEW price \in Nat \ {0},
         EvenClosing(a, price)
  PROVE  Closed(a, price, "eod").balance <= Equity(a, price)
<1>. DEFINE exec == Less(SlippageRate, price)
            worth == a.position * exec
            fee == Of(FeeRate, worth)
<1>1. a.position \in Nat /\ a.balance \in Nat
  BY DEF Sound, Balanced, Book
<1>2. FeeRate \in Nat \X Nat /\ FeeRate[1] < FeeRate[2]
      /\ SlippageRate \in Nat \X Nat /\ SlippageRate[1] < SlippageRate[2]
  BY DEF BacktestAssumption
<1>3. exec \in Nat /\ exec <= price
  BY <1>2, EvenRate DEF EvenClosing
<1>4. Closed(a, price, "eod").balance = worth - fee /\ Equity(a, price) = a.balance + a.position * price
  BY DEF Closed, Equity
<1>. HIDE DEF exec
<1>5. worth \in Nat /\ a.position * price \in Nat /\ worth <= a.position * price
  BY <1>1, <1>3
<1>. HIDE DEF worth
<1>6. fee \in Nat
  BY <1>2, <1>5, EvenRate
<1>. HIDE DEF fee
<1>. DEFINE whole == a.position * price
<1>7. whole \in Nat /\ worth <= whole /\ Equity(a, price) = a.balance + whole
  BY <1>4, <1>5
<1>. HIDE DEF whole
<1>. QED  BY <1>1, <1>4, <1>5, <1>6, <1>7

(* The end of the run.                                                     *)
LEMMA FinishKeeps ==
  ASSUME BacktestAssumption, BooksInv, AmountsAreEven, Finish
  PROVE  BooksInv'
<1>1. /\ ~finished /\ finished' = TRUE /\ last' = last /\ stops' = stops
      /\ curve' = curve /\ candles' = candles /\ candles > 0
      /\ last \in Nat /\ Sound(account) /\ CurveInv /\ PricedInv
  BY DEF Finish, BooksInv, CurveInv
<1>2. /\ EvenClosing(account, last)
      /\ IsPositive(tick.position) /\ tick.price \in Nat => EvenTick(tick, tick.price)
  BY <1>1 DEF AmountsAreEven
<1>3. "eod" \in Reasons
  BY DEF Reasons
<1>4. /\ account.position \in Nat /\ account.balance \in Nat /\ account.trades \in Seq(Trade)
      /\ account.position > 0 <=> account.balance = 0
  BY <1>1 DEF Sound, Balanced, Book
<1>5. CASE account.position > 0 /\ last > 0
  <2>1. account' = Closed(account, last, "eod") /\ last \in Nat \ {0}
    BY <1>1, <1>5 DEF Finish
  <2>2. Sound(account') /\ account'.position = 0
    BY <1>1, <1>2, <1>3, <1>5, <2>1, ClosedIsSound
  <2>3. account'.balance <= Equity(account, last)
    BY <1>1, <1>2, <1>5, <2>1, SaleCosts
  <2>4. EndsWith("eod")'
    <3>1. PICK t : account'.trades = Append(account.trades, t) /\ t.reason = "eod"
      BY <2>1 DEF Closed
    <3>2. /\ account'.trades # <<>> /\ Len(account'.trades) = Len(account.trades) + 1
          /\ account'.trades[Len(account.trades) + 1] = t
      BY <1>4, <3>1
    <3>. QED  BY <3>1, <3>2 DEF EndsWith
  <2>5. CurveInv'
    <3>1. curve'[Len(curve')] >= account'.balance
      <4>1. curve[Len(curve)] = Equity(account, last)
        BY <1>1, <1>5 DEF CurveInv
      <4>2. account'.balance \in Nat /\ Equity(account, last) \in Nat
        <5>1. account.position * last \in Nat
          BY <1>1, <1>4
        <5>2. Equity(account, last) \in Nat
          BY <1>4, <5>1 DEF Equity
        <5>3. account' \in Book
          BY <2>2 DEF Sound, Balanced
        <5>. QED  BY <5>2, <5>3 DEF Book
      <4>. QED  BY <1>1, <2>3, <4>1, <4>2
    <3>. QED  BY <1>1, <2>2, <2>4, <3>1 DEF CurveInv
  <2>6. ASSUME AllPriced
        PROVE  /\ tick' \in TickBooks /\ tick'.position = 0 /\ tick'.price = tick.price
               /\ NoStops => Beats(tick', account')
    <3>1. tick \in TickBooks /\ tick.price = last /\ (NoStops => Beats(tick, account))
      BY <1>1, <2>6 DEF PricedInv
    <3>2. IsPositive(tick.position) <=> tick.position > 0
      BY <3>1, TickCounts DEF TickBooks
    <3>3. tick.position \in Nat /\ tick.price \in Nat
      BY <3>1 DEF TickBooks
    <3>4. CASE tick.position > 0
      <4>1. tick' = Sold(tick, last) /\ Even(FeeRate, tick.position * last)
        BY <1>2, <3>1, <3>2, <3>3, <3>4 DEF Finish, EvenTick
      <4>2. tick' = [balance |-> Less(FeeRate, tick.position * last), position |-> 0, price |-> last]
        BY <1>1, <3>1, <4>1, TickCounts
      <4>3. tick' \in TickBooks
        BY <1>1, <3>1, <4>1, TickKeepsTypes
      <4>4. ASSUME NoStops PROVE tick'.balance >= account'.balance
        BY <1>1, <1>2, <1>5, <2>1, <3>1, <4>1, <4>4, SellingBeats
      <4>. QED  BY <2>2, <3>1, <4>2, <4>3, <4>4 DEF Beats
    <3>5. CASE ~ (tick.position > 0)
      <4>1. tick' = tick /\ tick.position = 0 /\ ~ NoStops
        BY <1>5, <3>1, <3>2, <3>3, <3>5 DEF Finish, Beats
      <4>. QED  BY <3>1, <4>1
    <3>. QED  BY <3>4, <3>5
  <2>7. PricedInv'
    <3>1. (AllPriced' <=> AllPriced) /\ (NoStops' <=> NoStops)
      BY <1>1 DEF AllPriced, NoStops
    <3>. QED  BY <1>1, <1>5, <2>2, <2>6, <3>1 DEF PricedInv
  <2>. QED  BY <2>2, <2>5, <2>7 DEF BooksInv
<1>6. CASE ~ (account.position > 0 /\ last > 0)
  <2>1. account' = account
    BY <1>6 DEF Finish
  <2>2. last > 0 => account.position = 0
    BY <1>4, <1>6
  <2>3. CurveInv'
    <3>1. ASSUME last > 0 PROVE curve[Len(curve)] = account.balance
      <4>1. curve[Len(curve)] = Equity(account, last)
        BY <1>1, <3>1 DEF CurveInv
      <4>2. Equity(account, last) = account.balance
        BY <1>1, <1>4, <2>2, <3>1 DEF Equity
      <4>. QED  BY <4>1, <4>2
    <3>. QED  BY <1>1, <1>4, <2>1, <2>2, <3>1 DEF CurveInv
  <2>4. ASSUME AllPriced
        PROVE  /\ tick' \in TickBooks /\ tick'.position = 0 /\ tick'.price = tick.price
               /\ last > 0 /\ (NoStops => Beats(tick', account))
    <3>1. /\ tick \in TickBooks /\ tick.price = last /\ last > 0
          /\ NoStops => Beats(tick, account)
      BY <1>1, <2>4 DEF PricedInv
    <3>2. IsPositive(tick.position) <=> tick.position > 0
      BY <3>1, TickCounts DEF TickBooks
    <3>3. tick.position \in Nat
      BY <3>1 DEF TickBooks
    <3>4. CASE tick.position > 0
      <4>1. tick' = Sold(tick, last) /\ ~ NoStops
        BY <1>4, <2>2, <3>1, <3>2, <3>4 DEF Finish, Beats
      <4>2. tick' = [balance |-> Less(FeeRate, tick.position * last), position |-> 0, price |-> last]
        BY <1>1, <3>1, <4>1, TickCounts
      <4>3. tick' \in TickBooks
        BY <1>1, <3>1, <4>1, TickKeepsTypes
      <4>. QED  BY <3>1, <4>1, <4>2, <4>3
    <3>5. CASE ~ (tick.position > 0)
      <4>1. tick' = tick /\ tick.position = 0
        BY <3>2, <3>3, <3>5 DEF Finish
      <4>. QED  BY <3>1, <4>1
    <3>. QED  BY <3>4, <3>5
  <2>5. PricedInv'
    <3>1. (AllPriced' <=> AllPriced) /\ (NoStops' <=> NoStops)
      BY <1>1 DEF AllPriced, NoStops
    <3>. QED  BY <1>1, <2>1, <2>2, <2>4, <3>1 DEF PricedInv
  <2>. QED  BY <1>1, <2>1, <2>3, <2>5 DEF BooksInv
<1>. QED  BY <1>5, <1>6

(* What the invariant says of the books.                                   *)
LEMMA InvariantBooks ==
  ASSUME BacktestAssumption, BooksInv
  PROVE  BooksBalance
<1>1. Sound(account) /\ account \in Book /\ TakingTurns(account) /\ CurveInv /\ PricedInv
  BY DEF BooksInv, Sound, Balanced
<1>2. account.balance + account.position * account.entry = Start + Net(account.trades)
  BY <1>1 DEF Sound, Balanced
<1>3. (account.position > 0) = (account.balance = 0)
  BY <1>1 DEF Sound, Balanced
<1>4. \A i \in DOMAIN account.trades : (account.trades[i].type = "BUY") = (i % 2 = 1)
  BY <1>1 DEF TakingTurns
<1>5. ClosedPairs(account.trades) = Sales(account.trades)
      /\ Wins(account.trades) = Winning(account.trades)
  BY <1>1, StatisticsAgree
<1>6. finished /\ last > 0 => /\ account.position = 0
                              /\ EndingBalance >= account.balance
                              /\ EndingBalance = account.balance \/ EndsWith("eod")
  BY <1>1 DEF CurveInv, EndingBalance
<1>7. finished /\ AllPriced => tick.position = 0 /\ (NoStops => tick.balance >= account.balance)
  BY <1>1 DEF PricedInv, Beats
<1>. QED  BY <1>2, <1>3, <1>4, <1>5, <1>6, <1>7 DEF BooksBalance, NoStops

(***************************************************************************)
(* For any prices, signals, stops and number of candles, and any rates     *)
(* below one: while all divisions come out even, the books of a backtest   *)
(* balance and its two statistics agree; the ending balance it reports is  *)
(* not below what it has; and while all candles have a price, TickBacktest *)
(* is not beaten by it.                                                    *)
(***************************************************************************)
THEOREM BooksStayBalanced == BacktestSpec /\ []AmountsAreEven => []BooksBalance
<1>1. BacktestInit => BooksInv
  BY BooksInitially, BacktestAssumption
<1>2. BooksInv /\ AmountsAreEven /\ [BacktestNext]_backtestVars => BooksInv'
  <2>. SUFFICES ASSUME BooksInv, AmountsAreEven, [BacktestNext]_backtestVars PROVE BooksInv'
    OBVIOUS
  <2>1. ASSUME NEW price \in Prices, NEW signal \in {"BUY", "SELL", "HOLD"}, Candle(price, signal)
        PROVE  BooksInv'
    BY <2>1, CandleKeeps, BacktestAssumption
  <2>2. CASE Finish
    BY <2>2, FinishKeeps, BacktestAssumption
  <2>3. CASE UNCHANGED backtestVars
    BY <2>3 DEF backtestVars, BooksInv, CurveInv, PricedInv, NoStops, AllPriced, EndsWith
  <2>. QED  BY <2>1, <2>2, <2>3 DEF BacktestNext
<1>3. BooksInv => BooksBalance
  BY InvariantBooks, BacktestAssumption
<1>. QED  BY <1>1, <1>2, <1>3, PTL DEF BacktestSpec
=============================================================================
