---------------------------- MODULE MCBroadcast -----------------------------
(***************************************************************************)
(* Instances of Broadcast for TLC.  Every constant that is a function, and *)
(* every budget of faults, is a definition of this module.                 *)
(***************************************************************************)
EXTENDS Broadcast

(* Two tenants, of which the first has a channel token; one campaign and   *)
(* one lead are of the second, the others of the first.                    *)
TwoTenants == {"t1", "t2"}
OneApart(S) == LET odd == CHOOSE x \in S : TRUE
               IN [x \in S |-> IF x = odd THEN "t2" ELSE "t1"]
TwoCampaignTenant == OneApart(Campaigns)
TwoLeadTenant == OneApart(Leads)

(* All campaigns and leads in one tenant.                                  *)
OneTenant == {"t1"}
OneCampaignTenant == [c \in Campaigns |-> "t1"]
OneLeadTenant == [u \in Leads |-> "t1"]

Faults(crash, stop, api, db, dlqs, evict, relabel) ==
  [k \in FaultKinds |-> CASE k = "crash" -> crash
                          [] k = "stop" -> stop
                          [] k = "api" -> api
                          [] k = "db" -> db
                          [] k = "dlq" -> dlqs
                          [] k = "evict" -> evict
                          [] k = "relabel" -> relabel]

DeliveryFaults == Faults(1, 1, 0, 1, 0, 1, 0)
LedgerFaults == Faults(0, 0, 1, 1, 1, 0, 1)
NoFaults == Faults(0, 0, 0, 0, 0, 0, 0)
LostDeadLetter == Faults(0, 0, 0, 1, 1, 0, 0)
ProgressFaults == Faults(1, 0, 0, 1, 0, 0, 0)

Symmetry == Permutations(Campaigns) \cup Permutations(Workers)
=============================================================================
