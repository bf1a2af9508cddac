------------------------------- MODULE Signup -------------------------------
(***************************************************************************)
(* Registration: the forms of SignupPage.jsx, the timer of lib/api.js, and *)
(* the handlers of POST /api/register, which look up the username, look    *)
(* for a free id of the workspace and insert both rows at once.  Handlers  *)
(* run side by side, and on when their form has given them up.             *)
(***************************************************************************)
EXTENDS Naturals, Sequences, FiniteSetsExt

CONSTANTS
  Visitors,   \* browsers with the page open
  Usernames,
  Names,      \* of workspaces
  Slugs,      \* Slugs[n] is slugify_tenant of name n
  NoUsername, \* nothing was created
  MaxSignups  \* bound on the submissions

ASSUME SignupAssumption ==
  NoUsername \notin Usernames /\ DOMAIN Slugs = Names /\ MaxSignups \in Nat

VARIABLES
  tenants, \* rows of table tenants
  users,   \* rows of table users; "by" is whose password they hold
  signups, \* the requests so far, each with the state of its handler
  forms    \* what each page shows

signupVars == <<tenants, users, signups, forms>>

SignupInit ==
  /\ tenants = {} /\ users = {} /\ signups = <<>>
  /\ forms = [v \in Visitors |->
       [loading |-> FALSE, of |-> 0, result |-> "none", created |-> NoUsername]]

(***************************************************************************)
(* The page                                                                *)
(***************************************************************************)
(* The button is disabled while the page waits; old results stay shown.    *)
SendSignup(v, username, name) ==
  /\ ~forms[v].loading
  /\ Len(signups) < MaxSignups
  /\ signups' = Append(signups, [by |-> v, username |-> username, name |-> name,
                                 st |-> "sent", suffix |-> 0])
  /\ forms' = [forms EXCEPT ![v].loading = TRUE, ![v].of = Len(signups')]
  /\ UNCHANGED <<tenants, users>>

Answered == {"ok", "taken", "error"}

(* messageFromResult shows an error, or that the workspace is ready.       *)
ShowAnswer(v) ==
  /\ forms[v].loading
  /\ LET s == signups[forms[v].of]
     IN  /\ s.st \in Answered
         /\ forms' = [forms EXCEPT ![v].loading = FALSE, ![v].result = s.st,
              ![v].created = IF s.st = "ok" THEN s.username ELSE @]
  /\ UNCHANGED <<tenants, users, signups>>

(* The answer is late or lost: "Request timed out. Please try again."      *)
SignupTimesOut(v) ==
  /\ forms[v].loading
  /\ forms' = [forms EXCEPT ![v].loading = FALSE, ![v].result = "late"]
  /\ UNCHANGED <<tenants, users, signups>>

(***************************************************************************)
(* The handler                                                             *)
(***************************************************************************)
LookUpUser(i) ==
  /\ signups[i].st = "sent"
  /\ signups' = [signups EXCEPT ![i].st =
       IF \E u \in users : u.username = signups[i].username THEN "taken" ELSE "free"]
  /\ UNCHANGED <<tenants, users, forms>>

TenantId(i, suffix) == <<Slugs[signups[i].name], suffix>>

(* The first suffix without a row; rows are never deleted, so that those   *)
(* before it were seen one by one makes no difference.                     *)
PickTenant(i) ==
  /\ signups[i].st = "free"
  /\ LET free == {k \in 0 .. MaxSignups : \A t \in tenants : t.id # TenantId(i, k)}
     IN  signups' = [signups EXCEPT ![i].st = "picked", ![i].suffix = Min(free)]
  /\ UNCHANGED <<tenants, users, forms>>

TenantRow(i) == [id |-> TenantId(i, signups[i].suffix), name |-> signups[i].name]

UserRow(i) ==
  [username |-> signups[i].username, tenant |-> TenantRow(i).id, by |-> signups[i].by]

(* The primary key and the two unique constraints.                         *)
TenantFits(i) == \A t \in tenants : t.id # TenantRow(i).id /\ t.name # TenantRow(i).name

UserFits(i) == \A u \in users : u.username # UserRow(i).username

(* Mutant of CommitAccount: the tenant is committed before the user.       *)
CommitInTwo(i) ==
  /\ signups[i].st = "picked"
  /\ tenants' = IF TenantFits(i) THEN tenants \cup {TenantRow(i)} ELSE tenants
  /\ users' = IF TenantFits(i) /\ UserFits(i) THEN users \cup {UserRow(i)} ELSE users
  /\ signups' = [signups EXCEPT ![i].st = IF TenantFits(i) /\ UserFits(i) THEN "ok" ELSE "error"]
  /\ UNCHANGED forms

(* Both rows are inserted, or a constraint fails and neither is: nobody    *)
(* catches the error and the answer is a 500.                              *)
CommitAccount(i) ==
  /\ signups[i].st = "picked"
  /\ \/ /\ TenantFits(i) /\ UserFits(i)
        /\ tenants' = tenants \cup {TenantRow(i)}
        /\ users' = users \cup {UserRow(i)}
        /\ signups' = [signups EXCEPT ![i].st = "ok"]
     \/ /\ ~(TenantFits(i) /\ UserFits(i))
        /\ signups' = [signups EXCEPT ![i].st = "error"]
        /\ UNCHANGED <<tenants, users>>
  /\ UNCHANGED forms

SignupNext ==
  \/ \E v \in Visitors, u \in Usernames, n \in Names : SendSignup(v, u, n)
  \/ \E v \in Visitors : ShowAnswer(v) \/ SignupTimesOut(v)
  \/ \E i \in DOMAIN signups : LookUpUser(i) \/ PickTenant(i) \/ CommitAccount(i)

SignupSpec == SignupInit /\ [][SignupNext]_signupVars

(***************************************************************************)
(* Properties                                                              *)
(***************************************************************************)
(* However registrations of one username or workspace overlap, time out    *)
(* and are sent again, there is one user per username and per workspace,   *)
(* no workspace is left without its user, and whoever was told that the    *)
(* workspace is ready has a user of that name with their own password.     *)
(***************************************************************************)
AccountsAreWhole ==
  /\ \A u, w \in users : u.username = w.username \/ u.tenant = w.tenant => u = w
  /\ {u.tenant : u \in users} = {t.id : t \in tenants}
  /\ \A s, t \in tenants : s.name = t.name => s = t
  /\ \A v \in Visitors :
       forms[v].created # NoUsername =>
         \E u \in users : u.username = forms[v].created /\ u.by = v
=============================================================================
