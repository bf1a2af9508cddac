---------------------------- MODULE AtomicHedge -----------------------------
(***************************************************************************)
(* executeAtomicHedge of the zBAutomos worker: a sale and a purchase are   *)
(* sent together as immediate-or-cancel orders, each filled in part, and   *)
(* what one side filled more than the other is sent once more.             *)
(***************************************************************************)
EXTENDS Integers

CONSTANTS
  Hedges,     \* the calls
  Quantity    \* qty of a call

ASSUME HedgeAssumption == Quantity \in Nat

Sides == {"SELL", "BUY"}

VARIABLES
  hedge,   \* what a call waits for: "new", "legs", "residual"; then "done", "thrown"
  order,   \* the orders of the two legs: "none", "sent", "answered", "rejected"
  filled,  \* what each leg filled at its venue
  extra    \* what the order for the residual filled, and on which side

hedgeVars == <<hedge, order, filled, extra>>

HedgeInit ==
  /\ hedge = [h \in Hedges |-> "new"]
  /\ order = [h \in Hedges |-> [s \in Sides |-> "none"]]
  /\ filled = [h \in Hedges |-> [s \in Sides |-> 0]]
  /\ extra = [h \in Hedges |-> [s \in Sides |-> 0]]

SendLegs(h) ==
  /\ hedge[h] = "new"
  /\ hedge' = [hedge EXCEPT ![h] = "legs"]
  /\ order' = [order EXCEPT ![h] = [s \in Sides |-> "sent"]]
  /\ UNCHANGED <<filled, extra>>

Other(s) == IF s = "SELL" THEN "BUY" ELSE "SELL"

(* Mutant: the side that filled more.                                      *)
HedgeSideSwapped(f) == IF f["SELL"] > f["BUY"] THEN "SELL" ELSE "BUY"

(* The side that filled less, which is sent again at its own venue.        *)
HedgeSide(f) == IF f["SELL"] > f["BUY"] THEN "BUY" ELSE "SELL"

Residual(f) == IF f["SELL"] > f["BUY"] THEN f["SELL"] - f["BUY"] ELSE f["BUY"] - f["SELL"]

(* A venue answers a leg with what it filled; Promise.all waits for both,  *)
(* unless the call has thrown meanwhile: the fill stays all the same.      *)
AnswerLeg(h, s, quantity) ==
  LET f == [filled[h] EXCEPT ![s] = quantity]
  IN  /\ order[h][s] = "sent"
      /\ order' = [order EXCEPT ![h][s] = "answered"]
      /\ filled' = [filled EXCEPT ![h] = f]
      /\ hedge' = [hedge EXCEPT ![h] =
           IF @ # "legs" \/ order[h][Other(s)] = "sent" THEN @
           ELSE IF Residual(f) > 0 THEN "residual" ELSE "done"]
      /\ UNCHANGED extra

(* A venue rejects a leg: Promise.all throws and nothing is hedged, though *)
(* the other leg may have filled or fill yet.                              *)
RejectLeg(h, s) ==
  /\ order[h][s] = "sent"
  /\ order' = [order EXCEPT ![h][s] = "rejected"]
  /\ hedge' = [hedge EXCEPT ![h] = "thrown"]
  /\ UNCHANGED <<filled, extra>>

(* The order for the residual fills in part; what it leaves is left.       *)
AnswerResidual(h, quantity) ==
  /\ hedge[h] = "residual"
  /\ quantity <= Residual(filled[h])
  /\ extra' = [extra EXCEPT ![h][HedgeSide(filled[h])] = quantity]
  /\ hedge' = [hedge EXCEPT ![h] = "done"]
  /\ UNCHANGED <<order, filled>>

RejectResidual(h) ==
  /\ hedge[h] = "residual"
  /\ hedge' = [hedge EXCEPT ![h] = "thrown"]
  /\ UNCHANGED <<order, filled, extra>>

HedgeStep(h) ==
  \/ SendLegs(h)
  \/ \E s \in Sides : RejectLeg(h, s) \/ \E q \in 0 .. Quantity : AnswerLeg(h, s, q)
  \/ \E q \in 0 .. Quantity : AnswerResidual(h, q)
  \/ RejectResidual(h)

HedgeNext == \E h \in Hedges : HedgeStep(h)

HedgeSpec == HedgeInit /\ [][HedgeNext]_hedgeVars

(***************************************************************************)
(* Where every order but the last filled, the last leaves the sides of a   *)
(* hedge no further apart than the legs did, and never turns the excess to *)
(* the other side; a call that threw at a leg sent nothing more.           *)
(***************************************************************************)
HedgesNeverOvershoot ==
  \A h \in Hedges :
    LET total == [s \in Sides |-> filled[h][s] + extra[h][s]]
    IN  /\ Residual(total) <= Residual(filled[h])
        /\ \A s \in Sides :
             filled[h][s] > filled[h][Other(s)] => total[s] >= total[Other(s)]
        /\ (\E s \in Sides : order[h][s] = "rejected") => total = filled[h]
=============================================================================
