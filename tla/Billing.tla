------------------------------- MODULE Billing -------------------------------
(***************************************************************************)
(* Subscriptions of the Automos API (billing/stripe.js).  A user opens     *)
(* checkouts and pays; Stripe delivers checkout.session.completed until it *)
(* is answered 200, in any order, and may deliver it more than once.  The  *)
(* handler makes two writes without a transaction.                         *)
(***************************************************************************)
EXTENDS Integers

CONSTANTS
  Customers,
  Sessions,       \* checkout sessions
  Deliveries,     \* deliveries that can be under way at a time
  MaxDbFailures,  \* bound on the failures of the database
  NoSession

ASSUME BillingAssumption == MaxDbFailures \in Nat /\ NoSession \notin Sessions

VARIABLES
  payer,      \* client_reference_id of each session
  session,    \* "none", "open" or "paid"
  acked,      \* sessions whose event was answered 200
  delivery,   \* each delivery: [pc, session]
  plan,       \* users.plan
  subscription, \* the session of the row of table subscriptions
  dbFailures

billingVars == <<payer, session, acked, delivery, plan, subscription, dbFailures>>

NoDelivery == [pc |-> "idle", session |-> NoSession]

BillingInit ==
  /\ payer \in [Sessions -> Customers]
  /\ session = [s \in Sessions |-> "none"]
  /\ acked = {}
  /\ delivery = [d \in Deliveries |-> NoDelivery]
  /\ plan = [u \in Customers |-> "free"]
  /\ subscription = [u \in Customers |-> NoSession]
  /\ dbFailures = 0

(* createCheckout: each call opens a session of its own.                   *)
CreateCheckout(s) ==
  /\ session[s] = "none"
  /\ session' = [session EXCEPT ![s] = "open"]
  /\ UNCHANGED <<payer, acked, delivery, plan, subscription, dbFailures>>

(* The customer pays, at Stripe.                                           *)
Pay(s) ==
  /\ session[s] = "open"
  /\ session' = [session EXCEPT ![s] = "paid"]
  /\ UNCHANGED <<payer, acked, delivery, plan, subscription, dbFailures>>

(* Mutant of Event: an event is taken for completed when it is opened.     *)
AnyEvent(s) == session[s] # "none"

(* The events the handler acts on.                                         *)
Event(s) == session[s] = "paid"

(* A signed event arrives; an unsigned one is refused and changes nothing. *)
(* An event that was answered 200 may be delivered again all the same.     *)
Deliver(d, s) ==
  /\ delivery[d].pc = "idle"
  /\ Event(s)
  /\ delivery' = [delivery EXCEPT ![d] = [pc |-> "update", session |-> s]]
  /\ UNCHANGED <<payer, session, acked, plan, subscription, dbFailures>>

(* Mutant of FailDelivery: the failure is logged and answered 200.         *)
SwallowFailure(d) ==
  /\ delivery[d].pc # "idle"
  /\ dbFailures < MaxDbFailures
  /\ dbFailures' = dbFailures + 1
  /\ acked' = acked \cup {delivery[d].session}
  /\ delivery' = [delivery EXCEPT ![d] = NoDelivery]
  /\ UNCHANGED <<payer, session, plan, subscription>>

(* A query fails: 500, and Stripe delivers the event once more.            *)
FailDelivery(d) ==
  /\ delivery[d].pc # "idle"
  /\ dbFailures < MaxDbFailures
  /\ dbFailures' = dbFailures + 1
  /\ delivery' = [delivery EXCEPT ![d] = NoDelivery]
  /\ UNCHANGED <<payer, session, acked, plan, subscription>>

UpdatePlan(d) ==
  /\ delivery[d].pc = "update"
  /\ plan' = [plan EXCEPT ![payer[delivery[d].session]] = "pro"]
  /\ delivery' = [delivery EXCEPT ![d].pc = "insert"]
  /\ UNCHANGED <<payer, session, acked, subscription, dbFailures>>

(* INSERT ... ON CONFLICT (user_id) DO UPDATE, and the answer 200.         *)
UpsertSubscription(d) ==
  LET s == delivery[d].session
  IN  /\ delivery[d].pc = "insert"
      /\ subscription' = [subscription EXCEPT ![payer[s]] = s]
      /\ acked' = acked \cup {s}
      /\ delivery' = [delivery EXCEPT ![d] = NoDelivery]
      /\ UNCHANGED <<payer, session, plan, dbFailures>>

BillingNext ==
  \/ \E s \in Sessions : CreateCheckout(s) \/ Pay(s)
  \/ \E d \in Deliveries, s \in Sessions : Deliver(d, s)
  \/ \E d \in Deliveries : FailDelivery(d) \/ UpdatePlan(d) \/ UpsertSubscription(d)

BillingSpec == BillingInit /\ [][BillingNext]_billingVars

(* A handler that was reached answers, and Stripe repeats an event until   *)
(* it is answered 200; checkouts, payments and failures need not happen.   *)
BillingFairness ==
  /\ \A d \in Deliveries : WF_billingVars(UpdatePlan(d) \/ UpsertSubscription(d))
  /\ \A s \in Sessions :
       SF_billingVars(s \notin acked /\ \E d \in Deliveries : Deliver(d, s))

(***************************************************************************)
(* A row of subscriptions is of a session its user paid and stands beside  *)
(* the plan pro, and the plan is pro only for a paid session, whichever    *)
(* delivery of whichever session came last.                                *)
(***************************************************************************)
SubscriptionIsPaid ==
  \A u \in Customers :
    /\ subscription[u] # NoSession =>
         /\ payer[subscription[u]] = u
         /\ session[subscription[u]] = "paid"
         /\ plan[u] = "pro"
    /\ plan[u] = "pro" => \E s \in Sessions : payer[s] = u /\ session[s] = "paid"

(***************************************************************************)
(* Who paid ends with the plan and a row, although a write may fail        *)
(* between the two and leave the plan without the row for a while.         *)
(***************************************************************************)
PaidIsActive ==
  \A s \in Sessions :
    session[s] = "paid" ~> plan[payer[s]] = "pro" /\ subscription[payer[s]] # NoSession
=============================================================================
