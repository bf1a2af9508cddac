----------------------------- MODULE MCRequests -----------------------------
(***************************************************************************)
(* Instances of Dashboard, Signup and RateLimit for TLC: a behaviour       *)
(* exercises one of the three, which share nothing.                        *)
(***************************************************************************)
EXTENDS Dashboard, Signup, RateLimit

CONSTANTS v1, n1

VARIABLE part

(* The names of workspaces differ, and have one slug.                      *)
AllSlugs == [n \in Names |-> "slug"]

(* Visitors and usernames are alike: the first request is taken as v1's.   *)
FirstIsOfV1(s) == s.by = v1 /\ s.username = n1

mcVars == <<vars, signupVars, rateVars, part>>

MCInit ==
  /\ part \in {"dashboard", "signup", "rate"}
  /\ Init /\ SignupInit /\ RateInit
  /\ part # "dashboard" => role = "admin"
  /\ part # "rate" => configured

MCNext ==
  /\ UNCHANGED part
  /\ \/ part = "dashboard" /\ Next /\ UNCHANGED <<signupVars, rateVars>>
     \/ /\ part = "signup" /\ SignupNext /\ UNCHANGED <<vars, rateVars>>
        /\ \A i \in {1} \cap DOMAIN signups' : FirstIsOfV1(signups'[i])
     \/ part = "rate" /\ RateNext /\ UNCHANGED <<vars, signupVars>>

(* The timers of lib/api.js run out.                                       *)
MCFairness ==
  /\ WF_vars(LoginFails) /\ WF_vars(ActionFails)
  /\ \A l \in Slots : WF_vars(LoadFails(l))

MCSpec == MCInit /\ [][MCNext]_mcVars /\ MCFairness
=============================================================================
