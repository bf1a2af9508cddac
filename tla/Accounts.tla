------------------------------ MODULE Accounts ------------------------------
(***************************************************************************)
(* Accounts of the Automos API: registration, login, the bearer token and  *)
(* what its middleware lets through (auth/, middleware/auth.js and the     *)
(* routes of api/routes.js that only read).  Roles are set in the database *)
(* by hand.  The clock counts ticks; a login takes less than one.          *)
(***************************************************************************)
EXTENDS Integers, FiniteSets

CONSTANTS
  Emails,
  Passwords,
  Calls,       \* requests to register and to log in
  ExpiresIn,   \* life of a token
  MaxClock,    \* bound on the clock
  MaxRoles,    \* bound on the changes of roles
  NoAccount

ASSUME AccountsAssumption ==
  /\ {ExpiresIn, MaxClock, MaxRoles} \subseteq Nat
  /\ NoAccount \notin [password : Passwords, role : {"user", "admin"}]

VARIABLES
  clock,
  account,   \* rows of table users
  call,      \* requests: [pc, email, password, role, since]
  tokens,    \* tokens given out: [email, role, expires]
  changes,   \* changes of roles so far
  lastAdmin, \* history: when an account last was an administrator
  served     \* history: the last read of an admin route: [email, at]

accountsVars == <<clock, account, call, tokens, changes, lastAdmin, served>>

NoCall == [pc |-> "new", email |-> NoAccount, password |-> NoAccount,
           role |-> "user", since |-> 0]

AccountsInit ==
  /\ clock = 0
  /\ account = [e \in Emails |-> NoAccount]
  /\ call = [c \in Calls |-> NoCall]
  /\ tokens = {}
  /\ changes = 0
  /\ lastAdmin = [e \in Emails |-> -1]
  /\ served = [email |-> NoAccount, at |-> 0]

Known(e) == account[e] # NoAccount

IsAdmin(e) == Known(e) /\ account[e].role = "admin"

Advance(c, pc) == call' = [call EXCEPT ![c].pc = pc]

(***************************************************************************)
(* register and login                                                      *)
(***************************************************************************)
(* A request with an email and a password: its password is hashed.         *)
Register(c) ==
  /\ call[c].pc = "new"
  /\ \E e \in Emails, p \in Passwords :
       call' = [call EXCEPT ![c] = [NoCall EXCEPT !.pc = "hashed", !.email = e, !.password = p]]
  /\ UNCHANGED <<clock, account, tokens, changes, lastAdmin, served>>

(* The INSERT; email is unique, and a duplicate is answered 409.           *)
InsertUser(c) ==
  /\ call[c].pc = "hashed"
  /\ \/ /\ Known(call[c].email)
        /\ Advance(c, "conflict")
        /\ UNCHANGED account
     \/ /\ ~Known(call[c].email)
        /\ Advance(c, "created")
        /\ account' = [account EXCEPT ![call[c].email] =
                         [password |-> call[c].password, role |-> "user"]]
  /\ UNCHANGED <<clock, tokens, changes, lastAdmin, served>>

(* The SELECT of a login.                                                  *)
Login(c) ==
  /\ call[c].pc = "new"
  /\ \E e \in Emails, p \in Passwords :
       call' = [call EXCEPT ![c] =
         IF Known(e) THEN [pc |-> "compare", email |-> e, password |-> p,
                           role |-> account[e].role, since |-> clock]
         ELSE [NoCall EXCEPT !.pc = "refused"]]
  /\ UNCHANGED <<clock, account, tokens, changes, lastAdmin, served>>

(* Mutant of Token: a token that does not expire while the model runs.     *)
LastingToken(c) ==
  [email |-> call[c].email, role |-> call[c].role, expires |-> clock + MaxClock + 1]

(* jwt.sign, of the role the SELECT read.                                  *)
Token(c) == [email |-> call[c].email, role |-> call[c].role, expires |-> clock + ExpiresIn]

(* bcrypt.compare is answered.  Passwords of rows never change.            *)
Compare(c) ==
  /\ call[c].pc = "compare"
  /\ \/ /\ account[call[c].email].password = call[c].password
        /\ tokens' = tokens \cup {Token(c)}
        /\ Advance(c, "token")
     \/ /\ account[call[c].email].password # call[c].password
        /\ Advance(c, "refused")
        /\ UNCHANGED tokens
  /\ UNCHANGED <<clock, account, changes, lastAdmin, served>>

(***************************************************************************)
(* Routes behind the middleware                                            *)
(***************************************************************************)
(* jwt.verify.                                                             *)
Verified(t) == clock < t.expires

(* auth and requireAdmin before an admin route; reads change nothing.      *)
ReadAsAdmin(t) ==
  /\ Verified(t)
  /\ t.role = "admin"
  /\ served' = [email |-> t.email, at |-> clock]
  /\ UNCHANGED <<clock, account, call, tokens, changes, lastAdmin>>

(* The role is changed by hand.                                            *)
SetRole(e, r) ==
  /\ changes < MaxRoles
  /\ Known(e)
  /\ account' = [account EXCEPT ![e].role = r]
  /\ lastAdmin' = [lastAdmin EXCEPT ![e] = IF r = "admin" \/ IsAdmin(e) THEN clock ELSE @]
  /\ changes' = changes + 1
  /\ UNCHANGED <<clock, call, tokens, served>>

Tick ==
  /\ clock < MaxClock
  /\ \A c \in Calls : call[c].pc = "compare" => call[c].since = clock
  /\ clock' = clock + 1
  /\ lastAdmin' = [e \in Emails |-> IF IsAdmin(e) THEN clock' ELSE lastAdmin[e]]
  /\ UNCHANGED <<account, call, tokens, changes, served>>

AccountsNext ==
  \/ \E c \in Calls : Register(c) \/ InsertUser(c) \/ Login(c) \/ Compare(c)
  \/ \E t \in tokens : ReadAsAdmin(t)
  \/ \E e \in Emails, r \in {"user", "admin"} : SetRole(e, r)
  \/ Tick

AccountsSpec == AccountsInit /\ [][AccountsNext]_accountsVars

(***************************************************************************)
(* An admin route is served only to an account that was an administrator   *)
(* at most the life of a token ago, the login included: a role taken away  *)
(* ends with the tokens that carry it.                                     *)
(***************************************************************************)
AdminAccessExpires ==
  served.email # NoAccount =>
    /\ lastAdmin[served.email] >= 0
    /\ served.at <= lastAdmin[served.email] + ExpiresIn
=============================================================================
