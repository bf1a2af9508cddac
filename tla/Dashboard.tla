----------------------------- MODULE Dashboard -----------------------------
(***************************************************************************)
(* The browser's side of the CRM: LoginPage.jsx, DashboardPage.jsx and     *)
(* lib/api.js, next to the API they call.                                  *)
(*                                                                         *)
(* A load asks for all views at once and shows them when every answer has  *)
(* arrived; loads of the page, of the interval, of the refresh button and  *)
(* of an action may be in flight together.  An action posts, reports       *)
(* success, reloads and gives the buttons back.  Every request has a timer *)
(* of 15 seconds which api.js clears when the headers have come: a body    *)
(* that never ends is a call that "stalled".                               *)
(*                                                                         *)
(* The API is a counter of changes: a view is shown as of some version.    *)
(***************************************************************************)
EXTENDS Naturals, FiniteSets

CONSTANTS
  Views,       \* what a load asks for
  AdminViews,  \* the views the API refuses to staff
  Kinds,       \* of actions: move a lead, submit a form, go to checkout
  MaxLoads,    \* bound: loads in flight besides that of an action
  MaxActions,  \* bound: actions of this user
  MaxOthers,   \* bound: changes made by others
  MaxIncidents \* bound: bodies that never end, pages opened anew

ASSUME ViewsAssumption == AdminViews \subseteq Views
ASSUME KindsAssumption == Kinds \subseteq {"move", "submit", "checkout"}
ASSUME BoundsAssumption ==
  /\ MaxLoads \in Nat \ {0} /\ MaxActions \in Nat /\ MaxOthers \in Nat
  /\ MaxIncidents \in Nat

VARIABLES
  version,     \* the API: how many changes it has committed
  storedAt,    \* the API: the version an action made, or 0
  inflight,    \* posts the API may still process
  valid,       \* the API takes the token
  role,        \* of the user
  page,        \* the page that is open
  stored,      \* localStorage has zline.session
  loading, busy, feedback, draft, shown, \* React state
  loads,       \* calls of loadDashboard in flight; 0 is that of an action
  act,         \* executeAction, startBilling or submitLogin in flight
  clicks,      \* how many actions were started
  budget       \* what is left of the bounded events

api == <<version, storedAt, inflight, valid, role>>
browser == <<page, stored, loading, busy, feedback, draft, shown, loads,
             act, clicks>>
vars == <<api, browser, budget>>

Actions == 1..MaxActions
Slots == 0..MaxLoads

(* What the banner says: of an action, if it is a success.                 *)
Quiet == [tone |-> "info", of |-> 0]
Failure == [tone |-> "error", of |-> 0]
Success(a) == [tone |-> "success", of |-> a]
Feedback == {Quiet, Failure} \cup {Success(a) : a \in Actions}

CallStates == {"sent", "read", "arrived", "stalled"}
Calls == [st : CallStates, at : Nat]
Sent == [st |-> "sent", at |-> 0]

(* A load: whether it runs, whether it is that of a page just opened, and  *)
(* history: whether another load was shown since it began.                 *)
Load == [on : BOOLEAN, first : BOOLEAN, overtaken : BOOLEAN,
         calls : [Views -> Calls]]
NewLoad(first) == [on |-> TRUE, first |-> first, overtaken |-> FALSE,
                   calls |-> [v \in Views |-> Sent]]
NoLoad == [on |-> FALSE, first |-> FALSE, overtaken |-> FALSE,
           calls |-> [v \in Views |-> Sent]]

PostStates == {"none", "sent", "stored", "stalled", "reloading"}
Posts == [of : Actions, kind : Kinds]
Acts == [st : PostStates, of : 0..MaxActions, kind : Kinds \cup {"login"}]
NoAct == [st |-> "none", of |-> 0, kind |-> "login"]

Init ==
  /\ version = 0 /\ storedAt = [a \in Actions |-> 0] /\ inflight = {}
  /\ valid = FALSE /\ role \in {"admin", "staff"}
  /\ page = "login" /\ stored = FALSE /\ clicks = 0
  /\ loading = FALSE /\ busy = FALSE /\ feedback = Quiet /\ draft = FALSE
  /\ shown = [v \in Views |-> 0]
  /\ loads = [l \in Slots |-> NoLoad] /\ act = NoAct
  /\ budget = [others |-> MaxOthers, incidents |-> MaxIncidents]

-----------------------------------------------------------------------------
(* Pages.  A page that is opened starts from nothing; what the one before  *)
(* had asked for is not waited for any more.                               *)

Open(p, l) ==
  /\ page' = p
  /\ loading' = (p = "dashboard")
  /\ busy' = FALSE /\ feedback' = Quiet /\ draft' = FALSE
  /\ shown' = [v \in Views |-> 0] /\ act' = NoAct
  /\ loads' = [k \in Slots |-> IF k = 1 THEN l ELSE NoLoad]

OpenDashboard == Open("dashboard", NewLoad(TRUE))
Leave(p) == Open(p, NoLoad)

Arrival == IF stored THEN OpenDashboard ELSE Leave("login")

(* The user opens or reloads the page; without a session it is the login.  *)
Visit ==
  /\ budget.incidents > 0
  /\ Arrival
  /\ budget' = [budget EXCEPT !.incidents = @ - 1]
  /\ UNCHANGED <<api, stored, clicks>>

(* Stripe sends the user back to /dashboard?billing=...                    *)
ReturnFromStripe ==
  /\ page = "checkout"
  /\ Arrival
  /\ UNCHANGED <<api, stored, clicks, budget>>

SubmitLogin ==
  /\ page = "login" /\ ~loading
  /\ loading' = TRUE
  /\ act' = [st |-> "sent", of |-> 0, kind |-> "login"]
  /\ UNCHANGED <<api, budget, page, stored, busy, feedback, draft, shown,
                 loads, clicks>>

LoginSucceeds ==
  /\ act.kind = "login" /\ act.st = "sent"
  /\ valid' = TRUE /\ stored' = TRUE
  /\ OpenDashboard
  /\ UNCHANGED <<version, storedAt, inflight, role, clicks, budget>>

(* A wrong password, an error, or no answer within 15 seconds.             *)
LoginFails ==
  /\ act.kind = "login" /\ act.st = "sent"
  /\ loading' = FALSE /\ feedback' = Failure /\ act' = NoAct
  /\ UNCHANGED <<api, budget, page, stored, busy, draft, shown, loads,
                 clicks>>

Logout ==
  /\ page = "dashboard" /\ ~loading
  /\ stored' = FALSE
  /\ Leave("login")
  /\ UNCHANGED <<api, clicks, budget>>

-----------------------------------------------------------------------------
(* loadDashboard.                                                          *)

Begin(l) == loads' = [loads EXCEPT ![l] = NewLoad(FALSE)]

(* setInterval, every 30 seconds.                                          *)
Tick(l) ==
  /\ page = "dashboard"
  /\ l # 0 /\ ~loads[l].on
  /\ Begin(l)
  /\ UNCHANGED <<api, budget, page, stored, loading, busy, feedback, draft,
                 shown, act, clicks>>

ClickRefresh(l) ==
  /\ page = "dashboard" /\ ~loading /\ ~busy
  /\ l # 0 /\ ~loads[l].on
  /\ Begin(l)
  /\ UNCHANGED <<api, budget, page, stored, loading, busy, feedback, draft,
                 shown, act, clicks>>

InState(l, v, states) == loads[l].on /\ loads[l].calls[v].st \in states
SetCall(l, v, st, at) ==
  loads' = [loads EXCEPT ![l].calls[v] = [st |-> st, at |-> at]]

Shows(v) == role = "staff" => v \notin AdminViews

(* The API reads a view.                                                   *)
ServeGet(l, v) ==
  /\ InState(l, v, {"sent"})
  /\ valid /\ Shows(v)
  /\ SetCall(l, v, "read", version)
  /\ UNCHANGED <<api, budget, page, stored, loading, busy, feedback, draft,
                 shown, act, clicks>>

(* The load that an action waits for is over, and so is the action.        *)
EndAction(l) ==
  IF l = 0 THEN busy' = FALSE /\ act' = NoAct
           ELSE UNCHANGED <<busy, act>>

(* Promise.all is fulfilled: the views are shown.                          *)
ShowLoad(l, v) ==
  /\ shown' = [w \in Views |-> IF w = v THEN loads[l].calls[v].at
                                        ELSE loads[l].calls[w].at]
  /\ feedback' = IF loads[l].first THEN Quiet ELSE feedback
  /\ loading' = FALSE
  /\ loads' = [k \in Slots |->
                 IF k = l THEN NoLoad
                 ELSE [loads[k] EXCEPT !.overtaken = loads[k].on]]
  /\ EndAction(l)
  /\ UNCHANGED <<api, budget, page, stored, draft, clicks>>

Last(l, v) == \A w \in Views \ {v} : loads[l].calls[w].st = "arrived"

Arrive(l, v) ==
  /\ InState(l, v, {"read"})
  /\ IF Last(l, v)
     THEN ShowLoad(l, v)
     ELSE /\ SetCall(l, v, "arrived", loads[l].calls[v].at)
          /\ UNCHANGED <<api, budget, page, stored, loading, busy, feedback,
                         draft, shown, act, clicks>>

(* Promise.all is rejected by the first call that fails.                   *)
FailLoad(l) ==
  /\ feedback' = Failure
  /\ loading' = FALSE
  /\ loads' = [loads EXCEPT ![l] = NoLoad]
  /\ EndAction(l)
  /\ UNCHANGED <<api, budget, page, stored, draft, shown, clicks>>

(* The API answers with an error, or not before AbortController aborts.    *)
CallFails(l, v) == InState(l, v, {"sent", "read"}) /\ FailLoad(l)

LoadFails(l) == \E v \in Views : CallFails(l, v)

(* "invalid credentials": handleAuthFailure.                               *)
Denied(l, v) ==
  /\ InState(l, v, {"sent"}) /\ ~valid
  /\ stored' = FALSE
  /\ Leave("login")
  /\ UNCHANGED <<api, clicks, budget>>

(* The headers have come and cleared the timer, the body never ends.       *)
Stall(l, v) ==
  /\ InState(l, v, {"sent", "read"}) /\ budget.incidents > 0
  /\ SetCall(l, v, "stalled", 0)
  /\ budget' = [budget EXCEPT !.incidents = @ - 1]
  /\ UNCHANGED <<api, page, stored, loading, busy, feedback, draft, shown,
                 act, clicks>>

-----------------------------------------------------------------------------
(* executeAction and startBilling.                                         *)

TypeDraft ==
  /\ page = "dashboard" /\ ~loading
  /\ draft' = TRUE
  /\ UNCHANGED <<api, budget, page, stored, loading, busy, feedback, shown,
                 loads, act, clicks>>

Dismiss ==
  /\ page = "dashboard" /\ ~loading
  /\ feedback' = Quiet
  /\ UNCHANGED <<api, budget, page, stored, loading, busy, draft, shown,
                 loads, act, clicks>>

(* Mutant of Click: success is reported before the answer has come.        *)
ClickSucceeds(k) ==
  /\ page = "dashboard" /\ ~loading /\ ~busy
  /\ clicks < MaxActions
  /\ k = "submit" => draft
  /\ busy' = TRUE
  /\ clicks' = clicks + 1
  /\ feedback' = Success(clicks + 1)
  /\ act' = [st |-> "sent", of |-> clicks + 1, kind |-> k]
  /\ inflight' = inflight \cup {[of |-> clicks + 1, kind |-> k]}
  /\ UNCHANGED <<version, storedAt, valid, role, budget, page, stored,
                 loading, draft, shown, loads>>
(* A button that is not disabled: a form is sent when it is filled in.     *)
Click(k) ==
  /\ page = "dashboard" /\ ~loading /\ ~busy
  /\ clicks < MaxActions
  /\ k = "submit" => draft
  /\ busy' = TRUE
  /\ clicks' = clicks + 1
  /\ act' = [st |-> "sent", of |-> clicks + 1, kind |-> k]
  /\ inflight' = inflight \cup {[of |-> clicks + 1, kind |-> k]}
  /\ UNCHANGED <<version, storedAt, valid, role, budget, page, stored,
                 loading, feedback, draft, shown, loads>>

Waits(p) == act.of = p.of /\ act.st = "sent"

Permitted(p) == valid /\ (p.kind # "move" => role = "admin")

(* The API processes a post, whether or not the page still waits for it.   *)
ServePost(p) ==
  /\ p \in inflight
  /\ Permitted(p)
  /\ inflight' = inflight \ {p}
  /\ act' = IF Waits(p) THEN [act EXCEPT !.st = "stored"] ELSE act
  /\ IF p.kind = "checkout"
     THEN UNCHANGED <<version, storedAt>>
     ELSE /\ version' = version + 1
          /\ storedAt' = [storedAt EXCEPT ![p.of] = version + 1]
  /\ UNCHANGED <<valid, role, budget, page, stored, loading, busy, feedback,
                 draft, shown, loads, clicks>>

(* It refuses it: no session, no permission, or an error.                  *)
RefusePost(p) ==
  /\ p \in inflight
  /\ inflight' = inflight \ {p}
  /\ UNCHANGED <<version, storedAt, valid, role, budget, browser>>

(* Mutant of ActionStored: the reload is not awaited.                      *)
ActionStoredAtOnce ==
  /\ act.st = "stored"
  /\ IF act.kind = "checkout"
     THEN Leave("checkout")
     ELSE /\ feedback' = Success(act.of)
          /\ draft' = (draft /\ act.kind # "submit")
          /\ act' = NoAct
          /\ busy' = FALSE
          /\ Begin(0)
          /\ UNCHANGED <<page, loading, shown>>
  /\ UNCHANGED <<api, budget, stored, clicks>>

(* The answer has come: the form is emptied, success reported, the page    *)
(* loaded anew.  The checkout leaves the page instead.                     *)
ActionStored ==
  /\ act.st = "stored"
  /\ IF act.kind = "checkout"
     THEN Leave("checkout")
     ELSE /\ feedback' = Success(act.of)
          /\ draft' = (draft /\ act.kind # "submit")
          /\ act' = [act EXCEPT !.st = "reloading"]
          /\ Begin(0)
          /\ UNCHANGED <<page, loading, busy, shown>>
  /\ UNCHANGED <<api, budget, stored, clicks>>

(* Mutant of ActionFails: no finally.                                      *)
ActionFailsBusy ==
  /\ act.kind # "login" /\ act.st \in {"sent", "stored"}
  /\ feedback' = Failure
  /\ act' = NoAct
  /\ UNCHANGED <<api, budget, page, stored, loading, busy, draft, shown,
                 loads, clicks>>

(* An error, or no headers within 15 seconds.                              *)
ActionFails ==
  /\ act.kind # "login" /\ act.st \in {"sent", "stored"}
  /\ feedback' = Failure
  /\ busy' = FALSE
  /\ act' = NoAct
  /\ UNCHANGED <<api, budget, page, stored, loading, draft, shown, loads,
                 clicks>>

StallPost ==
  /\ \/ act.st = "stored"
     \/ act.st = "sent" /\ \A p \in inflight : ~Waits(p)
  /\ budget.incidents > 0
  /\ act' = [act EXCEPT !.st = "stalled"]
  /\ budget' = [budget EXCEPT !.incidents = @ - 1]
  /\ UNCHANGED <<api, page, stored, loading, busy, feedback, draft, shown,
                 loads, clicks>>

-----------------------------------------------------------------------------
(* The token's twelve hours are over.                                      *)
Expire ==
  /\ valid
  /\ valid' = FALSE
  /\ UNCHANGED <<version, storedAt, inflight, role, browser, budget>>

(* A message, a worker or another user changes the data.                   *)
OthersChange ==
  /\ budget.others > 0
  /\ version' = version + 1
  /\ budget' = [budget EXCEPT !.others = @ - 1]
  /\ UNCHANGED <<storedAt, inflight, valid, role, browser>>

Next ==
  \/ Visit \/ ReturnFromStripe
  \/ SubmitLogin \/ LoginSucceeds \/ LoginFails \/ Logout
  \/ \E l \in Slots : Tick(l) \/ ClickRefresh(l)
  \/ \E l \in Slots, v \in Views :
       \/ ServeGet(l, v) \/ Arrive(l, v) \/ CallFails(l, v)
       \/ Denied(l, v) \/ Stall(l, v)
  \/ TypeDraft \/ Dismiss
  \/ \E k \in Kinds : Click(k)
  \/ \E p \in inflight : ServePost(p) \/ RefusePost(p)
  \/ ActionStored \/ ActionFails \/ StallPost
  \/ Expire \/ OthersChange

Spec == Init /\ [][Next]_vars

(* The timers of lib/api.js run out; nobody else has to do anything.       *)
FairSpec ==
  /\ Spec
  /\ WF_vars(LoginFails) /\ WF_vars(ActionFails)
  /\ \A l \in Slots : WF_vars(LoadFails(l))

-----------------------------------------------------------------------------
(* The types of the variables.                                             *)
TypeOK ==
  /\ version \in Nat /\ storedAt \in [Actions -> Nat]
  /\ inflight \subseteq Posts
  /\ valid \in BOOLEAN /\ role \in {"admin", "staff"}
  /\ page \in {"login", "dashboard", "checkout"} /\ stored \in BOOLEAN
  /\ loading \in BOOLEAN /\ busy \in BOOLEAN
  /\ feedback \in Feedback /\ draft \in BOOLEAN
  /\ shown \in [Views -> Nat]
  /\ loads \in [Slots -> Load]
  /\ act \in Acts
  /\ clicks \in 0..MaxActions
  /\ budget \in [others : 0..MaxOthers, incidents : 0..MaxIncidents]

(* A success that the banner reports has been committed by the API,        *)
(* whatever else fails: executeAction awaits the answer first.             *)
SuccessIsStored ==
  feedback.tone = "success" => storedAt[feedback.of] # 0

(* When the buttons come back under the success of an action, the page     *)
(* shows data that has the change, in every view.                          *)
ChangeIsShown ==
  [][busy /\ ~busy' /\ feedback'.tone = "success"
       => \A v \in Views : shown'[v] >= storedAt'[feedback'.of]]_vars

(* A view goes back to an older version only when the page is left or      *)
(* opened anew, or by a load during which another one was shown.           *)
NewerStays ==
  [][\A v \in Views : shown'[v] < shown[v] =>
       \/ page' # "dashboard" \/ loading'
       \/ \E l \in Slots : loads[l].overtaken /\ ~loads'[l].on]_vars

(* A form that was filled in is emptied only when the API has what was     *)
(* submitted, unless the page is left or opened anew.                      *)
DraftIsKept ==
  [][draft /\ ~draft' /\ page' = "dashboard" /\ ~loading'
       => act.kind = "submit" /\ storedAt[act.of] # 0]_vars

Stalled ==
  \/ act.st = "stalled"
  \/ \E l \in Slots, v \in Views : InState(l, v, {"stalled"})

(* Whatever the API and the network do, buttons come back and the first    *)
(* load ends, unless a body never ends.                                    *)
ButtonsComeBack == (busy \/ loading) ~> (~busy /\ ~loading) \/ Stalled
=============================================================================
