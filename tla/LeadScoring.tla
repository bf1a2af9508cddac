----------------------------- MODULE LeadScoring ----------------------------
(***************************************************************************)
(* What backend/api/main.py reads off an incoming text: calculate_score    *)
(* and determine_status.  A text is the set of things its words say; the   *)
(* two functions look for keywords, and no keyword of the one that closes  *)
(* a sale comes without a keyword that scores.                             *)
(***************************************************************************)
EXTENDS Naturals

Texts == {t \in [asks : BOOLEAN, buys : BOOLEAN, pays : BOOLEAN,
                 closes : BOOLEAN, phone : BOOLEAN] :
            t.closes => t.pays \/ t.buys}

Points(said, n) == IF said THEN n ELSE 0

CalculateScore(t, phone) ==
  Points(t.asks, 1) + Points(t.buys, 3) + Points(phone, 5) + Points(t.pays, 4)

DetermineStatus(t, score) ==
  CASE t.closes -> "closed"
    [] ~t.closes /\ score >= 8 -> "hot"
    [] ~t.closes /\ score \in 4 .. 7 -> "warm"
    [] ~t.closes /\ score \in 1 .. 3 -> "cold"
    [] ~t.closes /\ score = 0 -> "new"

Scores == 0 .. 13
Stages == {"new", "cold", "warm", "hot", "closed"}
=============================================================================
