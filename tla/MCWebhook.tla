----------------------------- MODULE MCWebhook ------------------------------
(***************************************************************************)
(* Instances of Webhook for TLC: a few texts, and the requests they make.  *)
(***************************************************************************)
EXTENDS Webhook, TLC

Text(asks, buys, pays, closes, phone) ==
  [asks |-> asks, buys |-> buys, pays |-> pays, closes |-> closes, phone |-> phone]

(* "what is the price", "I buy, 0812345678", "payment sent"                *)
Asking  == Text(TRUE, FALSE, FALSE, FALSE, FALSE)
Buying  == Text(FALSE, TRUE, FALSE, FALSE, TRUE)
Closing == Text(FALSE, FALSE, TRUE, TRUE, FALSE)

Said(u, t) == [user |-> u, text |-> t]

(* One message in a request.                                               *)
SinglePayloads ==
  {<<Said(u, t)>> : u \in Users, t \in {Asking, Buying, Closing}}

(* Two messages, of one user or of two.                                    *)
PairPayloads ==
  {<<Said(u, Asking), Said(v, Buying)>> : u \in Users, v \in Users}

AllPayloads == SinglePayloads \cup PairPayloads

Symmetry == Permutations(Replicas) \cup Permutations(Users)
=============================================================================
