--------------------------- MODULE SlidingWindow ----------------------------
(***************************************************************************)
(* What a rate limiter promises: at most Limit passes in any Window of     *)
(* time, and, when it is Exact, no denial below that limit.                *)
(***************************************************************************)
EXTENDS Integers, Sequences, FiniteSets

CONSTANTS
  Limit,
  Window,
  Exact

VARIABLES
  time,
  passes,  \* when the passes were
  answer   \* to the last question

Recent == Cardinality({i \in DOMAIN passes : time - passes[i] < Window})

WindowInit == time = 0 /\ passes = <<>> /\ answer = "none"

Pass ==
  /\ Recent < Limit
  /\ passes' = Append(passes, time)
  /\ answer' = "pass"
  /\ UNCHANGED time

Deny ==
  /\ Exact => Recent >= Limit
  /\ answer' = "deny"
  /\ UNCHANGED <<time, passes>>

Tick ==
  /\ time' = time + 1
  /\ UNCHANGED <<passes, answer>>

WindowNext == Pass \/ Deny \/ Tick

WindowSpec == WindowInit /\ [][WindowNext]_<<time, passes, answer>>
=============================================================================
