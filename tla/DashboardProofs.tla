-------------------------- MODULE DashboardProofs --------------------------
(***************************************************************************)
(* What TLAPS proves of Dashboard, for any set of views and any number of  *)
(* loads, actions and changes: what the page reports and shows is what the *)
(* API has.                                                                *)
(***************************************************************************)
EXTENDS Dashboard, TLAPS

(* The states of a call that has read its view.                            *)
Got == {"read", "arrived"}

(* The action in flight is one of those that were started, and once it is  *)
(* answered the API has it.                                                *)
ActInv ==
  /\ act.kind = "login" <=> act.of = 0
  /\ act.of <= clicks
  /\ act.st = "stored" => act.kind # "login"
  /\ act.st = "stored" /\ act.kind # "checkout" => storedAt[act.of] # 0

(* A post that the API may still process was not processed before, and     *)
(* there is one post per action.                                           *)
InflightInv ==
  /\ \A p \in inflight :
       /\ p.of <= clicks /\ storedAt[p.of] = 0
       /\ p.of = act.of => p.kind = act.kind
  /\ \A p, q \in inflight : p.of = q.of => p = q

(* Nothing is newer than the API.                                          *)
VersionsInv ==
  /\ \A a \in Actions :
       storedAt[a] <= version /\ (a > clicks => storedAt[a] = 0)
  /\ \A v \in Views : shown[v] <= version
  /\ \A l \in Slots, v \in Views : loads[l].calls[v].at <= version

(* The load of an action reads the views with the action's change.         *)
BannerInv ==
  /\ SuccessIsStored
  /\ feedback.tone = "success" =>
       \A v \in Views : loads[0].calls[v].st \in Got
                          => loads[0].calls[v].at >= storedAt[feedback.of]

(* A load that no other one has overtaken is as new as the page.           *)
OvertakenInv ==
  \A l \in Slots, v \in Views :
    /\ loads[l].on /\ ~loads[l].overtaken
    /\ loads[l].calls[v].st \in Got
    => loads[l].calls[v].at >= shown[v]

(* The inductive invariant.                                                *)
IInv == TypeOK /\ ActInv /\ InflightInv /\ VersionsInv /\ BannerInv
          /\ OvertakenInv

-----------------------------------------------------------------------------
(* A load that begins has read nothing, whichever load it is.              *)
LEMMA FreshLoads ==
  /\ NoLoad \in Load
  /\ \A first \in BOOLEAN : NewLoad(first) \in Load
  /\ \A v \in Views : NoLoad.calls[v] = Sent
  /\ \A first \in BOOLEAN, v \in Views : NewLoad(first).calls[v] = Sent
  /\ Sent.st \notin Got /\ Sent.at = 0
BY DEF NoLoad, NewLoad, Load, Calls, CallStates, Sent, Got

(* What the banner may say.                                                *)
LEMMA Banners ==
  /\ Quiet \in Feedback /\ Quiet.tone # "success"
  /\ Failure \in Feedback /\ Failure.tone # "success"
  /\ \A a \in Actions : Success(a) \in Feedback /\ Success(a).of = a
  /\ \A f \in Feedback : f.tone = "success" => f.of \in Actions
<1>1. Quiet.tone # "success" /\ Failure.tone # "success"
  BY DEF Quiet, Failure
<1>2. \A a : Success(a).of = a
  BY DEF Success
<1>3. \A f \in Feedback : f = Quiet \/ f = Failure
                           \/ \E a \in Actions : f = Success(a)
  BY DEF Feedback
<1>4. Quiet \in Feedback /\ Failure \in Feedback
        /\ \A a \in Actions : Success(a) \in Feedback
  BY DEF Feedback
<1> QED
  BY <1>1, <1>2, <1>3, <1>4

(* No action is in flight after NoAct.                                     *)
LEMMA Idle == NoAct \in Acts /\ NoAct.of = 0 /\ NoAct.st = "none"
                /\ NoAct.kind = "login"
BY BoundsAssumption DEF NoAct, Acts, PostStates, BoundsAssumption

(* The invariant holds when nothing has happened.                          *)
LEMMA IInit == Init => IInv
<1> SUFFICES ASSUME Init PROVE IInv
  OBVIOUS
<1> USE DEF Init
<1>1. TypeOK
  <2>1. budget \in [others : 0..MaxOthers, incidents : 0..MaxIncidents]
    BY BoundsAssumption DEF BoundsAssumption
  <2>2. storedAt \in [Actions -> Nat] /\ shown \in [Views -> Nat]
    OBVIOUS
  <2>3. loads \in [Slots -> Load] /\ act \in Acts /\ feedback \in Feedback
    BY FreshLoads, Banners, Idle
  <2>4. clicks \in 0..MaxActions /\ version \in Nat
    BY BoundsAssumption DEF BoundsAssumption
  <2> QED
    BY <2>1, <2>2, <2>3, <2>4 DEF TypeOK
<1>2. ActInv /\ InflightInv
  BY Idle DEF ActInv, InflightInv
<1>3. VersionsInv /\ OvertakenInv
  BY FreshLoads DEF VersionsInv, OvertakenInv
<1>4. BannerInv
  BY Banners DEF BannerInv, SuccessIsStored
<1> QED
  BY <1>1, <1>2, <1>3, <1>4 DEF IInv

-----------------------------------------------------------------------------
(* A page that is opened has nothing of the one before.                    *)
LEMMA OpenKeeps ==
  ASSUME IInv, NEW p \in {"login", "dashboard", "checkout"},
         Open(p, NewLoad(TRUE)) \/ Open(p, NoLoad),
         UNCHANGED <<version, storedAt, inflight, role, clicks>>,
         valid' \in BOOLEAN, stored' \in BOOLEAN,
         budget' \in [others : 0..MaxOthers, incidents : 0..MaxIncidents]
  PROVE  IInv'
<1>0. PICK load \in {NewLoad(TRUE), NoLoad} : Open(p, load)
  OBVIOUS
<1>1. /\ loads' \in [Slots -> Load]
      /\ \A l \in Slots, v \in Views : loads'[l].calls[v] = Sent
  <2>1. load \in Load /\ \A v \in Views : load.calls[v] = Sent
    BY FreshLoads
  <2>2. loads' = [k \in Slots |-> IF k = 1 THEN load ELSE NoLoad]
    BY <1>0 DEF Open
  <2> QED
    BY <2>1, <2>2, FreshLoads
<1>a. /\ page' = p /\ busy' = FALSE /\ feedback' = Quiet /\ draft' = FALSE
      /\ loading' \in BOOLEAN
      /\ shown' = [v \in Views |-> 0] /\ act' = NoAct
  BY <1>0 DEF Open
<1>2. TypeOK'
  BY <1>1, <1>a, Banners, Idle DEF IInv, TypeOK
<1>3. ActInv'
  BY <1>a, Idle, BoundsAssumption
     DEF IInv, TypeOK, ActInv, BoundsAssumption
<1>4. InflightInv'
  <2>1. \A q \in inflight : q.of # 0
    BY BoundsAssumption DEF IInv, TypeOK, Posts, Actions, BoundsAssumption
  <2> QED
    BY <2>1, <1>a, Idle DEF IInv, InflightInv
<1>5. VersionsInv' /\ OvertakenInv'
  BY <1>1, <1>a, FreshLoads DEF IInv, TypeOK, VersionsInv, OvertakenInv
<1>6. BannerInv'
  BY <1>a, Banners DEF BannerInv, SuccessIsStored
<1> QED
  BY <1>2, <1>3, <1>4, <1>5, <1>6 DEF IInv

(* One call of one load changes, and nothing else of the loads.            *)
LEMMA CallChanges ==
  ASSUME loads \in [Slots -> Load], NEW l \in Slots, NEW v \in Views,
         NEW st \in CallStates, NEW at \in Nat, SetCall(l, v, st, at)
  PROVE  /\ loads' \in [Slots -> Load]
         /\ \A k \in Slots :
              loads'[k].on = loads[k].on
                /\ loads'[k].overtaken = loads[k].overtaken
         /\ \A k \in Slots, w \in Views :
              loads'[k].calls[w] = IF k = l /\ w = v
                                   THEN [st |-> st, at |-> at]
                                   ELSE loads[k].calls[w]
<1> DEFINE new == [loads[l].calls EXCEPT ![v] = [st |-> st, at |-> at]]
<1>1. loads[l] \in Load
  OBVIOUS
<1>2. new \in [Views -> Calls]
  BY <1>1 DEF Load, Calls
<1>3. loads' = [loads EXCEPT ![l] = [loads[l] EXCEPT !.calls = new]]
  BY DEF SetCall
<1>4. [loads[l] EXCEPT !.calls = new] \in Load
  BY <1>1, <1>2 DEF Load
<1>5. [loads[l] EXCEPT !.calls = new].calls = new
  BY <1>1 DEF Load
<1>6. /\ [loads[l] EXCEPT !.calls = new].on = loads[l].on
      /\ [loads[l] EXCEPT !.calls = new].overtaken = loads[l].overtaken
  BY <1>1 DEF Load
<1>7. \A w \in Views : new[w] = IF w = v THEN [st |-> st, at |-> at]
                                ELSE loads[l].calls[w]
  BY <1>1 DEF Load
<1> HIDE DEF new
<1> QED
  BY <1>3, <1>4, <1>5, <1>6, <1>7

(* A call that changes keeps the invariant if what it has is as new as the *)
(* API, or as it was.                                                      *)
LEMMA CallKeeps ==
  ASSUME IInv, NEW l \in Slots, NEW v \in Views, NEW st \in CallStates,
         NEW at \in Nat, SetCall(l, v, st, at),
         \/ st \notin Got /\ at = 0
         \/ at = version
         \/ loads[l].calls[v].st \in Got /\ at = loads[l].calls[v].at,
         UNCHANGED <<api, page, stored, loading, busy, feedback, draft,
                     shown, act, clicks>>,
         budget' \in [others : 0..MaxOthers, incidents : 0..MaxIncidents]
  PROVE  IInv'
<1>1. /\ loads' \in [Slots -> Load]
      /\ \A k \in Slots :
           loads'[k].on = loads[k].on
             /\ loads'[k].overtaken = loads[k].overtaken
      /\ \A k \in Slots, w \in Views :
           loads'[k].calls[w] = IF k = l /\ w = v
                                THEN [st |-> st, at |-> at]
                                ELSE loads[k].calls[w]
  BY CallChanges DEF IInv, TypeOK
<1>2. UNCHANGED <<version, storedAt, inflight, valid, role>>
  BY DEF api
<1>3. TypeOK'
  BY <1>1, <1>2 DEF IInv, TypeOK
<1>4. ActInv' /\ InflightInv'
  BY <1>2 DEF IInv, ActInv, InflightInv
<1>5. version \in Nat /\ \A w \in Views : shown[w] \in Nat
  BY DEF IInv, TypeOK
<1>6. VersionsInv'
  BY <1>1, <1>2, <1>5 DEF IInv, VersionsInv
<1>7. OvertakenInv'
  BY <1>1, <1>2, <1>5 DEF IInv, VersionsInv, OvertakenInv
<1>8. BannerInv'
  <2>1. feedback.tone = "success" =>
          /\ feedback.of \in Actions
          /\ storedAt[feedback.of] \in Nat /\ storedAt[feedback.of] <= version
    BY Banners DEF IInv, TypeOK, VersionsInv
  <2>2. 0 \in Slots
    BY BoundsAssumption DEF Slots, BoundsAssumption
  <2> QED
    BY <1>1, <1>2, <1>5, <2>1, <2>2 DEF IInv, BannerInv, SuccessIsStored
<1> QED
  BY <1>3, <1>4, <1>6, <1>7, <1>8 DEF IInv

-----------------------------------------------------------------------------
(* A load that begins has read nothing.                                    *)
LEMMA BeginLoads ==
  ASSUME loads \in [Slots -> Load], NEW l \in Slots, Begin(l)
  PROVE  /\ loads' \in [Slots -> Load]
         /\ \A v \in Views : loads'[l].calls[v] = Sent
         /\ \A k \in Slots \ {l} : loads'[k] = loads[k]
<1>1. NewLoad(FALSE) \in Load
        /\ \A v \in Views : NewLoad(FALSE).calls[v] = Sent
  BY FreshLoads
<1> QED
  BY <1>1 DEF Begin

(* The interval and the refresh button.                                    *)
LEMMA BeginKeeps ==
  ASSUME IInv, NEW l \in Slots, Begin(l),
         UNCHANGED <<api, budget, page, stored, loading, busy, feedback,
                     draft, shown, act, clicks>>
  PROVE  IInv'
<1>1. /\ loads' \in [Slots -> Load]
      /\ \A v \in Views : loads'[l].calls[v] = Sent
      /\ \A k \in Slots \ {l} : loads'[k] = loads[k]
  BY BeginLoads DEF IInv, TypeOK
<1>2. UNCHANGED <<version, storedAt, inflight, valid, role>>
  BY DEF api
<1>3. TypeOK'
  BY <1>1, <1>2 DEF IInv, TypeOK
<1>4. ActInv' /\ InflightInv'
  BY <1>2 DEF IInv, ActInv, InflightInv
<1>5. VersionsInv' /\ OvertakenInv'
  BY <1>1, <1>2, FreshLoads DEF IInv, TypeOK, VersionsInv, OvertakenInv
<1>6. BannerInv'
  <2>1. 0 \in Slots
    BY BoundsAssumption DEF Slots, BoundsAssumption
  <2> QED
    BY <1>1, <1>2, <2>1, FreshLoads DEF IInv, BannerInv, SuccessIsStored
<1> QED
  BY <1>3, <1>4, <1>5, <1>6 DEF IInv

(* The end of a load ends the action that waits for it.                    *)
LEMMA EndOfAction ==
  ASSUME IInv, NEW l \in Slots, EndAction(l),
         UNCHANGED <<version, storedAt, inflight, clicks>>
  PROVE  /\ busy' \in BOOLEAN /\ act' \in Acts
         /\ ActInv' /\ InflightInv'
<1>1. \A p \in inflight : p.of # 0
  BY BoundsAssumption DEF IInv, TypeOK, Posts, Actions, BoundsAssumption
<1>2. clicks \in Nat
  BY BoundsAssumption DEF IInv, TypeOK, BoundsAssumption
<1>3. CASE l = 0
  <2>1. busy' = FALSE /\ act' = NoAct
    BY <1>3 DEF EndAction
  <2>2. ActInv'
    BY <2>1, <1>2, Idle DEF ActInv
  <2>3. InflightInv'
    BY <2>1, <1>1, Idle DEF IInv, InflightInv
  <2> QED
    BY <2>1, <2>2, <2>3, Idle
<1>4. CASE l # 0
  <2>1. UNCHANGED <<busy, act>>
    BY <1>4 DEF EndAction
  <2> QED
    BY <2>1 DEF IInv, TypeOK, ActInv, InflightInv
<1> QED
  BY <1>3, <1>4

(* A load that fails leaves what is shown as it is.                        *)
LEMMA FailKeeps ==
  ASSUME IInv, NEW l \in Slots, FailLoad(l)
  PROVE  IInv'
<1>1. /\ UNCHANGED <<version, storedAt, inflight, valid, role, clicks, shown>>
      /\ UNCHANGED <<budget, page, stored, draft>>
      /\ feedback' = Failure /\ loading' = FALSE
      /\ loads' = [loads EXCEPT ![l] = NoLoad] /\ EndAction(l)
  BY DEF FailLoad, api
<1>2. /\ loads' \in [Slots -> Load]
      /\ \A v \in Views : loads'[l].calls[v] = Sent
      /\ \A k \in Slots \ {l} : loads'[k] = loads[k]
  BY <1>1, FreshLoads DEF IInv, TypeOK
<1>3. /\ busy' \in BOOLEAN /\ act' \in Acts
      /\ ActInv' /\ InflightInv'
  BY <1>1, EndOfAction
<1>4. TypeOK'
  BY <1>1, <1>2, <1>3, Banners DEF IInv, TypeOK
<1>5. VersionsInv' /\ OvertakenInv'
  BY <1>1, <1>2, FreshLoads DEF IInv, TypeOK, VersionsInv, OvertakenInv
<1>6. BannerInv'
  BY <1>1, Banners DEF BannerInv, SuccessIsStored
<1> QED
  BY <1>3, <1>4, <1>5, <1>6 DEF IInv

(* What a load shows, and that it overtakes the others.                    *)
LEMMA ShownLoad ==
  ASSUME IInv, NEW l \in Slots, NEW v \in Views, ShowLoad(l, v)
  PROVE  /\ shown' \in [Views -> Nat]
         /\ \A w \in Views : shown'[w] = loads[l].calls[w].at
         /\ loads' \in [Slots -> Load]
         /\ \A w \in Views : loads'[l].calls[w] = Sent
         /\ ~loads'[l].on
         /\ \A k \in Slots \ {l} :
              /\ loads'[k].calls = loads[k].calls
              /\ loads'[k].on => loads'[k].overtaken
<1>1. \A k \in Slots : loads[k] \in Load
  BY DEF IInv, TypeOK
<1>2. \A w \in Views : loads[l].calls[w].at \in Nat
  BY <1>1 DEF Load, Calls
<1>3. shown' = [w \in Views |-> loads[l].calls[w].at]
  BY DEF ShowLoad
<1>4. \A k \in Slots :
        /\ [loads[k] EXCEPT !.overtaken = loads[k].on] \in Load
        /\ [loads[k] EXCEPT !.overtaken = loads[k].on].calls = loads[k].calls
        /\ [loads[k] EXCEPT !.overtaken = loads[k].on].on = loads[k].on
        /\ [loads[k] EXCEPT !.overtaken = loads[k].on].overtaken = loads[k].on
  BY <1>1 DEF Load
<1>5. loads' = [k \in Slots |->
                 IF k = l THEN NoLoad
                 ELSE [loads[k] EXCEPT !.overtaken = loads[k].on]]
  BY DEF ShowLoad
<1>6. NoLoad \in Load /\ ~NoLoad.on /\ \A w \in Views : NoLoad.calls[w] = Sent
  BY FreshLoads DEF NoLoad
<1> QED
  BY <1>2, <1>3, <1>4, <1>5, <1>6

(* A load that shows its views.                                            *)
LEMMA ShowKeeps ==
  ASSUME IInv, NEW l \in Slots, NEW v \in Views, ShowLoad(l, v)
  PROVE  IInv'
<1>1. /\ UNCHANGED <<version, storedAt, inflight, valid, role, clicks>>
      /\ UNCHANGED <<budget, page, stored, draft>>
      /\ feedback' \in {Quiet, feedback} /\ loading' = FALSE
      /\ EndAction(l)
  BY DEF ShowLoad, api
<1>2. /\ busy' \in BOOLEAN /\ act' \in Acts
      /\ ActInv' /\ InflightInv'
  BY <1>1, EndOfAction
<1>3. TypeOK'
  BY <1>1, <1>2, ShownLoad, Banners DEF IInv, TypeOK
<1>4. VersionsInv'
  <2>1. /\ \A w \in Views : shown'[w] = loads[l].calls[w].at
        /\ \A w \in Views : loads'[l].calls[w].at = 0
        /\ \A k \in Slots \ {l} : loads'[k].calls = loads[k].calls
    BY ShownLoad, FreshLoads
  <2>2. version \in Nat /\ UNCHANGED <<version, storedAt, clicks>>
    BY <1>1 DEF IInv, TypeOK
  <2>3. VersionsInv
    BY DEF IInv
  <2> QED
    BY <2>1, <2>2, <2>3 DEF VersionsInv
<1>5. OvertakenInv'
  BY ShownLoad, FreshLoads DEF OvertakenInv
<1>6. BannerInv'
  <2>1. 0 \in Slots
    BY BoundsAssumption DEF Slots, BoundsAssumption
  <2>2. \A w \in Views : loads'[0].calls[w].st \in Got =>
                           loads'[0].calls[w] = loads[0].calls[w]
    BY <2>1, ShownLoad, FreshLoads
  <2> QED
    BY <1>1, <2>2, Banners DEF IInv, BannerInv, SuccessIsStored
<1> QED
  BY <1>2, <1>3, <1>4, <1>5, <1>6 DEF IInv

-----------------------------------------------------------------------------
(* A step that changes neither the data nor a post.                        *)
LEMMA PageKeeps ==
  ASSUME IInv,
         UNCHANGED <<version, storedAt, inflight, role, clicks, shown, loads>>,
         valid' \in BOOLEAN, page' = page, stored' = stored,
         loading' \in BOOLEAN, busy' \in BOOLEAN, draft' \in BOOLEAN,
         feedback' \in {Quiet, Failure, feedback},
         act' \in Acts, ActInv', InflightInv',
         budget' \in [others : 0..MaxOthers, incidents : 0..MaxIncidents]
  PROVE  IInv'
<1>1. TypeOK'
  BY Banners DEF IInv, TypeOK
<1>2. VersionsInv' /\ OvertakenInv'
  BY DEF IInv, VersionsInv, OvertakenInv
<1>3. BannerInv'
  BY Banners DEF IInv, BannerInv, SuccessIsStored
<1> QED
  BY <1>1, <1>2, <1>3 DEF IInv

(* Nothing waits for the posts that are left when an action has ended.     *)
LEMMA NoActKeeps ==
  ASSUME IInv, act' = NoAct, UNCHANGED <<storedAt, inflight, clicks>>
  PROVE  act' \in Acts /\ ActInv' /\ InflightInv'
<1>1. \A p \in inflight : p.of # 0
  BY BoundsAssumption DEF IInv, TypeOK, Posts, Actions, BoundsAssumption
<1>2. clicks \in Nat
  BY BoundsAssumption DEF IInv, TypeOK, BoundsAssumption
<1>3. ActInv'
  BY <1>2, Idle DEF ActInv
<1>4. InflightInv'
  BY <1>1, Idle DEF IInv, InflightInv
<1> QED
  BY <1>3, <1>4, Idle

(* The login page.                                                         *)
LEMMA LoginKeeps ==
  ASSUME IInv, SubmitLogin \/ LoginFails
  PROVE  IInv'
<1>1. \A p \in inflight : p.of # 0
  BY BoundsAssumption DEF IInv, TypeOK, Posts, Actions, BoundsAssumption
<1>2. clicks \in Nat /\ MaxActions \in Nat
  BY BoundsAssumption DEF IInv, TypeOK, BoundsAssumption
<1>3. CASE SubmitLogin
  <2>1. /\ act' = [st |-> "sent", of |-> 0, kind |-> "login"]
        /\ loading' = TRUE
        /\ UNCHANGED <<version, storedAt, inflight, valid, role>>
        /\ UNCHANGED <<budget, page, stored, busy, feedback, draft, shown,
                       loads, clicks>>
    BY <1>3 DEF SubmitLogin, api
  <2>2. act' \in Acts
    BY <2>1, <1>2 DEF Acts, PostStates
  <2>3. act'.of = 0 /\ act'.kind = "login" /\ act'.st = "sent"
    BY <2>1
  <2>4. ActInv'
    BY <2>1, <2>3, <1>2 DEF ActInv
  <2>5. InflightInv'
    BY <2>1, <2>3, <1>1 DEF IInv, InflightInv
  <2> QED
    BY <2>1, <2>2, <2>4, <2>5, PageKeeps DEF IInv, TypeOK
<1>4. CASE LoginFails
  <2>1. /\ act' = NoAct /\ loading' = FALSE /\ feedback' = Failure
        /\ UNCHANGED <<version, storedAt, inflight, valid, role>>
        /\ UNCHANGED <<budget, page, stored, busy, draft, shown, loads,
                       clicks>>
    BY <1>4 DEF LoginFails, api
  <2> QED
    BY <2>1, NoActKeeps, PageKeeps DEF IInv, TypeOK
<1> QED
  BY <1>3, <1>4

(* Typing, dismissing the banner, a token that expires, a post refused.    *)
LEMMA QuietKeeps ==
  ASSUME IInv,
         \/ TypeDraft \/ Dismiss \/ Expire
         \/ \E p \in inflight : RefusePost(p)
  PROVE  IInv'
<1>1. CASE TypeDraft \/ Dismiss \/ Expire
  <2>1. /\ UNCHANGED <<version, storedAt, inflight, role, clicks, shown, loads>>
        /\ UNCHANGED <<page, stored, loading, busy, act, budget>>
        /\ valid' \in {valid, FALSE} /\ draft' \in {draft, TRUE}
        /\ feedback' \in {feedback, Quiet}
    BY <1>1 DEF TypeDraft, Dismiss, Expire, api, browser
  <2>2. ActInv' /\ InflightInv'
    BY <2>1 DEF IInv, ActInv, InflightInv
  <2> QED
    BY <2>1, <2>2, PageKeeps DEF IInv, TypeOK
<1>2. ASSUME NEW p \in inflight, RefusePost(p) PROVE IInv'
  <2>1. /\ inflight' = inflight \ {p}
        /\ UNCHANGED <<version, storedAt, valid, role, budget>>
        /\ UNCHANGED <<page, stored, loading, busy, feedback, draft, shown,
                       loads, act, clicks>>
    BY <1>2 DEF RefusePost, browser
  <2>2. TypeOK' /\ ActInv' /\ InflightInv'
    BY <2>1 DEF IInv, TypeOK, ActInv, InflightInv
  <2>3. VersionsInv' /\ BannerInv' /\ OvertakenInv'
    BY <2>1 DEF IInv, VersionsInv, BannerInv, SuccessIsStored, OvertakenInv
  <2> QED
    BY <2>2, <2>3 DEF IInv
<1> QED
  BY <1>1, <1>2

(* A change by others makes nothing that is shown newer than the API.      *)
LEMMA OthersKeep ==
  ASSUME IInv, OthersChange
  PROVE  IInv'
<1>1. /\ version' = version + 1
      /\ UNCHANGED <<storedAt, inflight, valid, role>>
      /\ UNCHANGED <<page, stored, loading, busy, feedback, draft, shown,
                     loads, act, clicks>>
  BY DEF OthersChange, browser
<1>2. budget' \in [others : 0..MaxOthers, incidents : 0..MaxIncidents]
  BY BoundsAssumption DEF IInv, TypeOK, OthersChange, BoundsAssumption
<1>3. TypeOK' /\ ActInv' /\ InflightInv'
  BY <1>1, <1>2 DEF IInv, TypeOK, ActInv, InflightInv
<1>4. /\ version \in Nat /\ \A a \in Actions : storedAt[a] \in Nat
      /\ \A v \in Views : shown[v] \in Nat
      /\ \A l \in Slots, v \in Views : loads[l].calls[v].at \in Nat
  BY DEF IInv, TypeOK, Load, Calls
<1>5. VersionsInv'
  BY <1>1, <1>4 DEF IInv, VersionsInv
<1>6. BannerInv' /\ OvertakenInv'
  BY <1>1 DEF IInv, BannerInv, SuccessIsStored, OvertakenInv
<1> QED
  BY <1>3, <1>5, <1>6 DEF IInv

-----------------------------------------------------------------------------
(* An action that starts is new to the API.                                *)
LEMMA ClickKeeps ==
  ASSUME IInv, NEW k \in Kinds, Click(k)
  PROVE  IInv'
<1> DEFINE a == clicks + 1
           post == [of |-> a, kind |-> k]
<1>1. /\ busy' = TRUE /\ clicks' = a
      /\ act' = [st |-> "sent", of |-> a, kind |-> k]
      /\ inflight' = inflight \cup {post}
      /\ UNCHANGED <<version, storedAt, valid, role, budget>>
      /\ UNCHANGED <<page, stored, loading, feedback, draft, shown, loads>>
  BY DEF Click
<1>2. clicks \in Nat /\ a \in Actions /\ k # "login"
  BY BoundsAssumption, KindsAssumption
     DEF Click, IInv, TypeOK, Actions, BoundsAssumption, KindsAssumption
<1>3. post \in Posts /\ act' \in Acts
  BY <1>1, <1>2, BoundsAssumption
     DEF Posts, Acts, PostStates, Actions, BoundsAssumption
<1>4. /\ act'.st = "sent" /\ act'.of = a /\ act'.kind = k
      /\ post.of = a /\ post.kind = k
  BY <1>1
<1> HIDE DEF post
<1>5. TypeOK'
  BY <1>1, <1>2, <1>3, BoundsAssumption
     DEF IInv, TypeOK, Actions, BoundsAssumption
<1>6. ActInv'
  BY <1>1, <1>2, <1>4 DEF ActInv
<1>7. storedAt[a] = 0
  BY <1>2 DEF IInv, VersionsInv
<1>8. InflightInv'
  <2>1. \A p \in inflight : p.of \in Nat /\ p.of <= clicks
    BY BoundsAssumption
       DEF IInv, InflightInv, TypeOK, Posts, Actions, BoundsAssumption
  <2>2. \A p \in inflight : p.of # a /\ p.of <= a
    BY <2>1, <1>2
  <2> QED
    BY <1>1, <1>2, <1>4, <1>7, <2>2 DEF IInv, InflightInv
<1>9. VersionsInv' /\ BannerInv' /\ OvertakenInv'
  <2>1. \A b \in Actions : b > a => b > clicks
    BY <1>2, BoundsAssumption DEF Actions, BoundsAssumption
  <2> QED
    BY <1>1, <2>1
       DEF IInv, VersionsInv, BannerInv, SuccessIsStored, OvertakenInv
<1> QED
  BY <1>5, <1>6, <1>8, <1>9 DEF IInv

(* A post is processed once, and what it changes is the newest.            *)
LEMMA ServeKeeps ==
  ASSUME IInv, NEW p \in inflight, ServePost(p)
  PROVE  IInv'
<1>1. /\ inflight' = inflight \ {p}
      /\ act' = IF Waits(p) THEN [act EXCEPT !.st = "stored"] ELSE act
      /\ UNCHANGED <<valid, role, budget>>
      /\ UNCHANGED <<page, stored, loading, busy, feedback, draft, shown,
                     loads, clicks>>
  BY DEF ServePost
<1>2. /\ version \in Nat /\ storedAt \in [Actions -> Nat]
      /\ p \in Posts /\ p.of \in Actions /\ p.kind \in Kinds
      /\ p.of # 0 /\ p.of <= clicks /\ storedAt[p.of] = 0
      /\ act \in Acts
      /\ p.kind # "login"
  BY KindsAssumption, BoundsAssumption
     DEF IInv, TypeOK, InflightInv, Posts, Actions, BoundsAssumption,
         KindsAssumption
<1>3. \/ p.kind = "checkout" /\ UNCHANGED <<version, storedAt>>
      \/ /\ p.kind # "checkout" /\ version' = version + 1
         /\ storedAt' = [storedAt EXCEPT ![p.of] = version + 1]
  BY DEF ServePost
<1>4. /\ version' \in Nat /\ version <= version'
      /\ storedAt' \in [Actions -> Nat]
      /\ storedAt'[p.of] <= version'
      /\ \A a \in Actions \ {p.of} : storedAt'[a] = storedAt[a]
      /\ p.kind # "checkout" => storedAt'[p.of] # 0
  BY <1>2, <1>3
<1>5. /\ act' \in Acts /\ act'.of = act.of /\ act'.kind = act.kind
      /\ act'.st = IF Waits(p) THEN "stored" ELSE act.st
  BY <1>1, <1>2 DEF Acts, PostStates
<1>6. TypeOK'
  BY <1>1, <1>4, <1>5 DEF IInv, TypeOK
<1>7. ActInv'
  <2>1. CASE Waits(p)
    BY <2>1, <1>1, <1>2, <1>4, <1>5 DEF IInv, ActInv, InflightInv, Waits
  <2>2. CASE ~Waits(p)
    <3>1. act.st = "stored" => act.of \in Actions
      BY <1>2, BoundsAssumption
         DEF IInv, ActInv, Acts, Actions, BoundsAssumption
    <3> QED
      BY <2>2, <3>1, <1>1, <1>2, <1>3, <1>4, <1>5 DEF IInv, ActInv
  <2> QED
    BY <2>1, <2>2
<1>8. InflightInv'
  BY <1>1, <1>2, <1>4, <1>5 DEF IInv, TypeOK, Posts, InflightInv
<1>9. /\ \A a \in Actions : storedAt[a] \in Nat
      /\ \A v \in Views : shown[v] \in Nat
      /\ \A l \in Slots, v \in Views : loads[l].calls[v].at \in Nat
      /\ clicks \in Nat
  BY BoundsAssumption DEF IInv, TypeOK, Load, Calls, BoundsAssumption
<1>10. VersionsInv'
  <2>1. \A a \in Actions :
          storedAt'[a] <= version' /\ (a > clicks => storedAt'[a] = 0)
    <3> SUFFICES ASSUME NEW a \in Actions
                 PROVE  storedAt'[a] <= version'
                          /\ (a > clicks => storedAt'[a] = 0)
      OBVIOUS
    <3>1. CASE a = p.of
      BY <3>1, <1>2, <1>4, <1>9, BoundsAssumption
         DEF Actions, BoundsAssumption
    <3>2. CASE a # p.of
      BY <3>2, <1>2, <1>4, <1>9 DEF IInv, VersionsInv
    <3> QED
      BY <3>1, <3>2
  <2>2. /\ \A v \in Views : shown[v] <= version'
        /\ \A l \in Slots, v \in Views : loads[l].calls[v].at <= version'
    BY <1>2, <1>4, <1>9 DEF IInv, VersionsInv
  <2> QED
    BY <1>1, <2>1, <2>2 DEF VersionsInv
<1>11. BannerInv'
  <2>1. feedback.tone = "success" =>
          feedback.of \in Actions /\ storedAt[feedback.of] # 0
    BY Banners DEF IInv, TypeOK, BannerInv, SuccessIsStored
  <2>2. feedback.tone = "success" =>
          storedAt'[feedback.of] = storedAt[feedback.of]
    BY <2>1, <1>2, <1>4
  <2> QED
    BY <1>1, <2>1, <2>2 DEF IInv, BannerInv, SuccessIsStored
<1>12. OvertakenInv'
  BY <1>1 DEF IInv, OvertakenInv
<1> QED
  BY <1>6, <1>7, <1>8, <1>10, <1>11, <1>12 DEF IInv

(* An answered action reports what the API has, and loads it.              *)
LEMMA StoredKeeps ==
  ASSUME IInv, ActionStored
  PROVE  IInv'
<1>1. CASE act.kind = "checkout"
  <2>1. Open("checkout", NoLoad) /\ UNCHANGED <<api, budget, stored, clicks>>
    BY <1>1 DEF ActionStored, Leave
  <2> QED
    BY <2>1, OpenKeeps DEF api, IInv, TypeOK
<1>2. CASE act.kind # "checkout"
  <2>1. /\ act.st = "stored" /\ feedback' = Success(act.of)
        /\ draft' = (draft /\ act.kind # "submit")
        /\ act' = [act EXCEPT !.st = "reloading"]
        /\ Begin(0)
        /\ UNCHANGED <<version, storedAt, inflight, valid, role>>
        /\ UNCHANGED <<page, loading, busy, shown, budget, stored, clicks>>
    BY <1>2 DEF ActionStored, api
  <2>2. act \in Acts /\ 0 \in Slots
    BY BoundsAssumption DEF IInv, TypeOK, Slots, BoundsAssumption
  <2>3. act.of \in Actions /\ storedAt[act.of] # 0
    BY <1>2, <2>1, <2>2, BoundsAssumption
       DEF IInv, ActInv, Acts, Actions, BoundsAssumption
  <2>4. /\ act' \in Acts /\ act'.of = act.of /\ act'.kind = act.kind
        /\ act'.st = "reloading"
    BY <2>1, <2>2 DEF Acts, PostStates
  <2>5. /\ loads' \in [Slots -> Load]
        /\ \A v \in Views : loads'[0].calls[v] = Sent
        /\ \A k \in Slots \ {0} : loads'[k] = loads[k]
    BY <2>1, <2>2, BeginLoads DEF IInv, TypeOK
  <2>6. TypeOK'
    <3>1. draft' \in BOOLEAN
      BY <2>1
    <3> QED
      BY <3>1, <2>1, <2>3, <2>4, <2>5, Banners DEF IInv, TypeOK
  <2>7. ActInv' /\ InflightInv'
    BY <2>1, <2>4 DEF IInv, ActInv, InflightInv
  <2>8. VersionsInv' /\ OvertakenInv'
    BY <2>1, <2>5, FreshLoads DEF IInv, TypeOK, VersionsInv, OvertakenInv
  <2>9. BannerInv'
    BY <2>1, <2>3, <2>5, FreshLoads, Banners DEF BannerInv, SuccessIsStored
  <2> QED
    BY <2>6, <2>7, <2>8, <2>9 DEF IInv
<1> QED
  BY <1>1, <1>2

(* An action that fails or waits for ever reports nothing new.             *)
LEMMA FailedActionKeeps ==
  ASSUME IInv, ActionFails \/ StallPost
  PROVE  IInv'
<1>1. CASE ActionFails
  <2>1. /\ act' = NoAct /\ busy' = FALSE /\ feedback' = Failure
        /\ UNCHANGED <<version, storedAt, inflight, valid, role>>
        /\ UNCHANGED <<budget, page, stored, loading, draft, shown, loads,
                       clicks>>
    BY <1>1 DEF ActionFails, api
  <2> QED
    BY <2>1, NoActKeeps, PageKeeps DEF IInv, TypeOK
<1>2. CASE StallPost
  <2>1. /\ act' = [act EXCEPT !.st = "stalled"]
        /\ UNCHANGED <<version, storedAt, inflight, valid, role>>
        /\ UNCHANGED <<page, stored, loading, busy, feedback, draft, shown,
                       loads, clicks>>
    BY <1>2 DEF StallPost, api
  <2>2. budget' \in [others : 0..MaxOthers, incidents : 0..MaxIncidents]
    BY <1>2, BoundsAssumption DEF StallPost, IInv, TypeOK, BoundsAssumption
  <2>3. act \in Acts
    BY DEF IInv, TypeOK
  <2>4. /\ act' \in Acts /\ act'.of = act.of /\ act'.kind = act.kind
        /\ act'.st = "stalled"
    BY <2>1, <2>3 DEF Acts, PostStates
  <2>5. ActInv' /\ InflightInv'
    BY <2>1, <2>4 DEF IInv, ActInv, InflightInv
  <2> QED
    BY <2>1, <2>2, <2>4, <2>5, PageKeeps DEF IInv, TypeOK
<1> QED
  BY <1>1, <1>2

(* Pages that are opened or left.                                          *)
LEMMA PagesKeep ==
  ASSUME IInv,
         \/ Visit \/ ReturnFromStripe \/ LoginSucceeds \/ Logout
         \/ \E l \in Slots, v \in Views : Denied(l, v)
  PROVE  IInv'
<1> DEFINE Budgets == [others : 0..MaxOthers, incidents : 0..MaxIncidents]
<1>1. budget \in Budgets /\ valid \in BOOLEAN /\ stored \in BOOLEAN
  BY DEF IInv, TypeOK
<1>2. PICK p \in {"login", "dashboard", "checkout"} :
        Open(p, NewLoad(TRUE)) \/ Open(p, NoLoad)
  BY DEF Visit, ReturnFromStripe, LoginSucceeds, Logout, Denied, Arrival,
         OpenDashboard, Leave
<1>3. /\ UNCHANGED <<version, storedAt, inflight, role, clicks>>
      /\ valid' \in {valid, TRUE} /\ stored' \in {stored, TRUE, FALSE}
  BY DEF Visit, ReturnFromStripe, LoginSucceeds, Logout, Denied, api
<1>4. budget' \in Budgets
  <2>1. CASE Visit
    BY <1>1, <2>1, BoundsAssumption DEF Visit, BoundsAssumption
  <2>2. CASE ~Visit
    BY <1>1, <2>2 DEF ReturnFromStripe, LoginSucceeds, Logout, Denied
  <2> QED
    BY <2>1, <2>2
<1> QED
  BY <1>1, <1>2, <1>3, <1>4, OpenKeeps

(* The calls of a load.                                                    *)
LEMMA CallsKeep ==
  ASSUME IInv, NEW l \in Slots, NEW v \in Views,
         \/ ServeGet(l, v) \/ Arrive(l, v) \/ CallFails(l, v)
         \/ Stall(l, v)
  PROVE  IInv'
<1>1. /\ version \in Nat /\ loads[l].calls[v].at \in Nat
      /\ budget \in [others : 0..MaxOthers, incidents : 0..MaxIncidents]
  BY DEF IInv, TypeOK, Load, Calls
<1>2. CASE ServeGet(l, v)
  BY <1>1, <1>2, CallKeeps DEF ServeGet, CallStates, IInv, TypeOK
<1>3. CASE Arrive(l, v)
  <2>1. CASE Last(l, v)
    BY <1>3, <2>1, ShowKeeps DEF Arrive
  <2>2. CASE ~Last(l, v)
    BY <1>1, <1>3, <2>2, CallKeeps
       DEF Arrive, CallStates, InState, Got, IInv, TypeOK
  <2> QED
    BY <2>1, <2>2
<1>4. CASE CallFails(l, v)
  BY <1>4, FailKeeps DEF CallFails
<1>5. CASE Stall(l, v)
  <2>1. /\ SetCall(l, v, "stalled", 0)
        /\ UNCHANGED <<api, page, stored, loading, busy, feedback, draft,
                       shown, act, clicks>>
    BY <1>5 DEF Stall
  <2>2. budget' \in [others : 0..MaxOthers, incidents : 0..MaxIncidents]
    BY <1>1, <1>5, BoundsAssumption DEF Stall, BoundsAssumption
  <2>3. "stalled" \in CallStates /\ "stalled" \notin Got
    BY DEF CallStates, Got
  <2> QED
    BY <2>1, <2>2, <2>3, CallKeeps
<1> QED
  BY <1>2, <1>3, <1>4, <1>5

-----------------------------------------------------------------------------
(* Every step keeps the invariant.                                         *)
LEMMA IStep == IInv /\ [Next]_vars => IInv'
<1> SUFFICES ASSUME IInv, [Next]_vars PROVE IInv'
  OBVIOUS
<1>1. ASSUME NEW l \in Slots, Tick(l) \/ ClickRefresh(l) PROVE IInv'
  BY <1>1, BeginKeeps DEF Tick, ClickRefresh
<1>2. ASSUME NEW l \in Slots, NEW v \in Views,
             \/ ServeGet(l, v) \/ Arrive(l, v) \/ CallFails(l, v)
             \/ Denied(l, v) \/ Stall(l, v)
      PROVE  IInv'
  BY <1>2, CallsKeep, PagesKeep
<1>3. ASSUME NEW p \in inflight, ServePost(p) \/ RefusePost(p) PROVE IInv'
  BY <1>3, ServeKeeps, QuietKeeps
<1>4. ASSUME NEW k \in Kinds, Click(k) PROVE IInv'
  BY <1>4, ClickKeeps
<1>5. CASE \/ Visit \/ ReturnFromStripe \/ LoginSucceeds \/ Logout
           \/ SubmitLogin \/ LoginFails
  BY <1>5, PagesKeep, LoginKeeps
<1>6. CASE \/ TypeDraft \/ Dismiss \/ Expire \/ OthersChange
           \/ ActionStored \/ ActionFails \/ StallPost
  BY <1>6, QuietKeeps, OthersKeep, StoredKeeps, FailedActionKeeps
<1>7. CASE UNCHANGED vars
  <2>1. /\ UNCHANGED <<version, storedAt, inflight, role, clicks, shown, loads>>
        /\ UNCHANGED <<valid, page, stored, loading, busy, draft, feedback, act,
                       budget>>
    BY <1>7 DEF vars, api, browser
  <2>2. ActInv' /\ InflightInv'
    BY <2>1 DEF IInv, ActInv, InflightInv
  <2> QED
    BY <2>1, <2>2, PageKeeps DEF IInv, TypeOK
<1> QED
  BY <1>1, <1>2, <1>3, <1>4, <1>5, <1>6, <1>7 DEF Next

(* The invariant holds in every state.                                     *)
LEMMA InvariantHolds == Spec => []IInv
BY IInit, IStep, PTL DEF Spec

(* Every variable has its type.                                            *)
THEOREM TypeCorrect == Spec => []TypeOK
<1>1. IInv => TypeOK
  BY DEF IInv
<1> QED
  BY <1>1, InvariantHolds, PTL

(* A success that the banner reports has been committed by the API.        *)
THEOREM SuccessIsCommitted == Spec => []SuccessIsStored
<1>1. IInv => SuccessIsStored
  BY DEF IInv, BannerInv
<1> QED
  BY <1>1, InvariantHolds, PTL

(* The steps that change the data the page shows or empty it.              *)
LEMMA ShownChanges ==
  ASSUME IInv, [Next]_vars, shown' # shown
  PROVE  \/ page' # "dashboard" \/ loading'
         \/ \E l \in Slots, v \in Views :
              InState(l, v, {"read"}) /\ Last(l, v) /\ ShowLoad(l, v)
<1>1. ASSUME NEW l \in Slots, NEW v \in Views, Arrive(l, v)
      PROVE  InState(l, v, {"read"}) /\ Last(l, v) /\ ShowLoad(l, v)
  BY <1>1 DEF Arrive
<1>2. ASSUME NEW p \in {"login", "dashboard", "checkout"}, NEW load,
             Open(p, load)
      PROVE  page' # "dashboard" \/ loading'
  BY <1>2 DEF Open
<1>3. CASE \/ Visit \/ ReturnFromStripe \/ LoginSucceeds \/ Logout
           \/ \E l \in Slots, v \in Views : Denied(l, v)
  BY <1>2, <1>3 DEF Visit, ReturnFromStripe, LoginSucceeds, Logout, Denied,
                    Arrival, OpenDashboard, Leave
<1>4. CASE ActionStored
  BY <1>2, <1>4 DEF ActionStored, Leave
<1>5. CASE \/ \E l \in Slots : Tick(l) \/ ClickRefresh(l)
           \/ \E l \in Slots, v \in Views :
                ServeGet(l, v) \/ CallFails(l, v) \/ Stall(l, v)
  BY <1>5 DEF Tick, ClickRefresh, ServeGet, CallFails, FailLoad, Stall
<1>6. CASE \/ SubmitLogin \/ LoginFails \/ TypeDraft \/ Dismiss
           \/ ActionFails \/ StallPost \/ Expire \/ OthersChange
           \/ \E k \in Kinds : Click(k)
           \/ \E p \in inflight : ServePost(p) \/ RefusePost(p)
           \/ UNCHANGED vars
  BY <1>6 DEF SubmitLogin, LoginFails, TypeDraft, Dismiss, ActionFails,
              StallPost, Expire, OthersChange, Click, ServePost, RefusePost,
              browser, vars
<1> QED
  BY <1>1, <1>3, <1>4, <1>5, <1>6 DEF Next

(* Only a load that was overtaken takes a view back to an older version.   *)
THEOREM OlderOnlyIfOvertaken == Spec => NewerStays
<1>1. ASSUME IInv, [Next]_vars
      PROVE  \A v \in Views : shown'[v] < shown[v] =>
               \/ page' # "dashboard" \/ loading'
               \/ \E l \in Slots : loads[l].overtaken /\ ~loads'[l].on
  <2> SUFFICES ASSUME NEW w \in Views, shown'[w] < shown[w],
                      page' = "dashboard", ~loading'
               PROVE  \E l \in Slots : loads[l].overtaken /\ ~loads'[l].on
    OBVIOUS
  <2>1. shown[w] \in Nat
    BY <1>1 DEF IInv, TypeOK
  <2>2. shown' # shown
    BY <2>1
  <2>3. PICK l \in Slots, v \in Views :
          InState(l, v, {"read"}) /\ Last(l, v) /\ ShowLoad(l, v)
    BY <1>1, <2>2, ShownChanges
  <2>4. /\ shown'[w] = loads[l].calls[w].at /\ ~loads'[l].on
        /\ loads[l].calls[w].at \in Nat
    BY <1>1, <2>3, ShownLoad
  <2>5. loads[l].on /\ loads[l].calls[w].st \in Got
    BY <2>3 DEF InState, Last, Got
  <2>6. loads[l].overtaken
    BY <1>1, <2>1, <2>4, <2>5 DEF IInv, OvertakenInv
  <2> QED
    BY <2>4, <2>6
<1> QED
  BY <1>1, InvariantHolds, PTL DEF Spec, NewerStays

(* When the buttons come back under a success, the page shows the change.  *)
THEOREM OwnChangeIsShown == Spec => ChangeIsShown
<1>1. ASSUME IInv, [Next]_vars
      PROVE  busy /\ ~busy' /\ feedback'.tone = "success"
               => \A v \in Views : shown'[v] >= storedAt'[feedback'.of]
  <2> SUFFICES ASSUME busy, ~busy', feedback'.tone = "success",
                      NEW w \in Views
               PROVE  shown'[w] >= storedAt'[feedback'.of]
    OBVIOUS
  <2>1. ASSUME NEW p, NEW load, Open(p, load) PROVE FALSE
    BY <2>1, Banners DEF Open
  <2>2. ASSUME NEW l \in Slots, FailLoad(l) PROVE FALSE
    BY <2>2, Banners DEF FailLoad
  <2>3. ~ActionFails
    BY Banners DEF ActionFails
  <2>4. ASSUME NEW l \in Slots, NEW v \in Views, Arrive(l, v)
        PROVE  shown'[w] >= storedAt'[feedback'.of]
    <3>1. ShowLoad(l, v)
      BY <2>4 DEF Arrive
    <3>2. l = 0 /\ feedback' = feedback /\ UNCHANGED <<version, storedAt>>
      BY <3>1, Banners DEF ShowLoad, EndAction, api
    <3>3. loads[0].calls[w].st \in Got
      BY <2>4, <3>1, <3>2 DEF Arrive, InState, Last, Got
    <3>4. shown'[w] = loads[0].calls[w].at
      BY <1>1, <3>1, <3>2, ShownLoad
    <3> QED
      BY <1>1, <3>2, <3>3, <3>4 DEF IInv, BannerInv
  <2>5. CASE \/ Visit \/ ReturnFromStripe \/ LoginSucceeds \/ Logout
             \/ ActionStored
             \/ \E l \in Slots, v \in Views : Denied(l, v) \/ CallFails(l, v)
    BY <2>1, <2>2, <2>5
       DEF Visit, ReturnFromStripe, LoginSucceeds, Logout, Denied, Arrival,
           OpenDashboard, Leave, ActionStored, CallFails
  <2>6. CASE \/ SubmitLogin \/ LoginFails \/ TypeDraft \/ Dismiss
             \/ StallPost \/ Expire \/ OthersChange
             \/ \E l \in Slots : Tick(l) \/ ClickRefresh(l)
             \/ \E l \in Slots, v \in Views : ServeGet(l, v) \/ Stall(l, v)
             \/ \E k \in Kinds : Click(k)
             \/ \E p \in inflight : ServePost(p) \/ RefusePost(p)
             \/ UNCHANGED vars
    BY <2>6 DEF SubmitLogin, LoginFails, TypeDraft, Dismiss, StallPost,
                Expire, OthersChange, Tick, ClickRefresh, ServeGet, Stall,
                Click, ServePost, RefusePost, browser, vars
  <2> QED
    BY <1>1, <2>3, <2>4, <2>5, <2>6 DEF Next
<1> QED
  BY <1>1, InvariantHolds, PTL DEF Spec, ChangeIsShown

(* A form is emptied only when the API has what was submitted.             *)
THEOREM FormIsKept == Spec => DraftIsKept
<1>1. ASSUME IInv, [Next]_vars
      PROVE  draft /\ ~draft' /\ page' = "dashboard" /\ ~loading'
               => act.kind = "submit" /\ storedAt[act.of] # 0
  <2> SUFFICES ASSUME draft, ~draft', page' = "dashboard", ~loading'
               PROVE  act.kind = "submit" /\ storedAt[act.of] # 0
    OBVIOUS
  <2>1. ASSUME NEW p, NEW load, Open(p, load) PROVE FALSE
    BY <2>1 DEF Open
  <2>2. CASE ActionStored
    <3>1. act.kind # "checkout"
      BY <2>1, <2>2 DEF ActionStored, Leave
    <3> QED
      BY <1>1, <2>2, <3>1 DEF ActionStored, IInv, ActInv
  <2>3. CASE \/ Visit \/ ReturnFromStripe \/ LoginSucceeds \/ Logout
             \/ \E l \in Slots, v \in Views : Denied(l, v)
    BY <2>1, <2>3
       DEF Visit, ReturnFromStripe, LoginSucceeds, Logout, Denied, Arrival,
           OpenDashboard, Leave
  <2>4. CASE \/ SubmitLogin \/ LoginFails \/ TypeDraft \/ Dismiss
             \/ ActionFails \/ StallPost \/ Expire \/ OthersChange
             \/ \E l \in Slots : Tick(l) \/ ClickRefresh(l)
             \/ \E l \in Slots, v \in Views :
                  \/ ServeGet(l, v) \/ Arrive(l, v) \/ CallFails(l, v)
                  \/ Stall(l, v)
             \/ \E k \in Kinds : Click(k)
             \/ \E p \in inflight : ServePost(p) \/ RefusePost(p)
             \/ UNCHANGED vars
    BY <2>4 DEF SubmitLogin, LoginFails, TypeDraft, Dismiss, ActionFails,
                StallPost, Expire, OthersChange, Tick, ClickRefresh, ServeGet,
                Arrive, ShowLoad, CallFails, FailLoad, Stall, Click,
                ServePost, RefusePost, browser, vars
  <2> QED
    BY <1>1, <2>2, <2>3, <2>4 DEF Next
<1> QED
  BY <1>1, InvariantHolds, PTL DEF Spec, DraftIsKept
=============================================================================
