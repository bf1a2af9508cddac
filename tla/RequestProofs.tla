--------------------------- MODULE RequestProofs ----------------------------
(***************************************************************************)
(* What TLAPS proves of what requests share: of Ledgers, for any users and *)
(* calls, that a referral is paid once; of Signup, for any visitors and    *)
(* names, that accounts are whole; of RateLimit, for any limit, window and *)
(* replicas, what a window lets through.                                   *)
(***************************************************************************)
EXTENDS Ledgers, Signup, RateLimit, TLAPS, FiniteSetTheorems, FunctionTheorems

(***************************************************************************)
(* The ledgers                                                             *)
(***************************************************************************)
Pending == {"inserted", "awarded"}

CallTypes == [pc : {"new", "inserted", "awarded", "existed", "locked", "failed", "done"},
              of : {<<NoOne, NoOne>>} \cup (Users \X Users) \cup (Users \X Bots)]

LedgerTypes ==
  /\ call \in [Calls -> CallTypes]
  /\ referrals \in SUBSET (Users \X Users) /\ IsFiniteSet(referrals)
  /\ credits \in [Users -> Nat]

(* A referral on its way has no row yet, and no other call is on the way   *)
(* with the same: a second insert waits for the first transaction to end.  *)
PendingInv ==
  \A c \in Referrals : call[c].pc \in Pending =>
    /\ call[c].of \in Users \X Users
    /\ call[c].of \notin referrals
    /\ \A d \in Referrals \ {c} : call[d].pc \in Pending => call[d].of # call[c].of

(* The two kinds of calls do not share a state.                            *)
KindsInv ==
  /\ \A c \in Purchases : call[c].pc \notin Pending
  /\ \A c \in Purchases : call[c].pc = "locked" => call[c].of \in Users \X Bots
  /\ \A c \in Referrals : call[c].pc # "locked"

LedgerInv == LedgerTypes /\ PendingInv /\ KindsInv /\ ReferralsArePaidOnce

(* A step that only moves a call on, to a state that claims nothing new.   *)
LEMMA MoveKeeps ==
  ASSUME LedgerInv, NEW c \in Calls, NEW st, NEW of, Moves(c, st, of),
         UNCHANGED <<referrals, credits>>, ownership \subseteq ownership',
         [pc |-> st, of |-> of] \in CallTypes,
         c \in Purchases => /\ st \notin Pending \cup {"existed"}
                            /\ st = "locked" => of \in Users \X Bots
                            /\ st = "done" => of \in ownership',
         c \in Referrals => /\ st \notin {"locked", "done"}
                            /\ st = "existed" => of \in referrals
                            /\ st \in Pending =>
                                 /\ of \in Users \X Users /\ of \notin referrals
                                 /\ \A d \in Referrals \ {c} :
                                      call[d].pc \in Pending => call[d].of # of
  PROVE  LedgerInv'
<1>1. LedgerTypes /\ PendingInv /\ KindsInv /\ ReferralsArePaidOnce
  BY DEF LedgerInv
<1>2. /\ call'[c] = [pc |-> st, of |-> of]
      /\ \A d \in Calls \ {c} : call'[d] = call[d]
  BY <1>1 DEF LedgerTypes, Moves
<1>3. LedgerTypes'
  BY <1>1 DEF LedgerTypes, Moves
<1>4. Referrals \subseteq Calls /\ Purchases \subseteq Calls
  BY DEF Calls
<1>5. PendingInv'
  BY <1>1, <1>2, <1>4 DEF PendingInv
<1>6. KindsInv'
  BY <1>1, <1>2, <1>4 DEF KindsInv
<1>7. ReferralsArePaidOnce'
  <2>1. \A u \in Users : credits'[u] = 10 * Cardinality({p \in referrals' : p[1] = u})
    BY <1>1 DEF ReferralsArePaidOnce
  <2>2. \A d \in Calls \ {c} : call'[d].pc \in {"done", "existed"} =>
          call'[d].of \in IF d \in Referrals THEN referrals' ELSE ownership'
    BY <1>1, <1>2 DEF ReferralsArePaidOnce
  <2>3. call'[c].pc \in {"done", "existed"} =>
          call'[c].of \in IF c \in Referrals THEN referrals' ELSE ownership'
    BY <1>2, LedgerAssumption DEF Calls
  <2>. QED  BY <2>1, <2>2, <2>3 DEF ReferralsArePaidOnce
<1>. QED  BY <1>3, <1>5, <1>6, <1>7 DEF LedgerInv

(* The insert waits for a call on the way with the same pair.              *)
LEMMA InsertReferralKeeps ==
  ASSUME LedgerInv, NEW c \in Referrals, NEW u \in Users, NEW v \in Users,
         InsertReferral(c, <<u, v>>)
  PROVE  LedgerInv'
<1>. DEFINE pair == <<u, v>>
            st == IF pair \in referrals THEN "existed" ELSE "inserted"
<1>1. /\ InsertFree(pair) /\ Moves(c, st, pair)
      /\ UNCHANGED <<referrals, credits, ownership>>
  BY DEF InsertReferral
<1>2. c \in Calls /\ c \notin Purchases /\ pair \in Users \X Users
  BY LedgerAssumption DEF Calls
<1>3. \A d \in Referrals : call[d].pc \in Pending => call[d].of # pair
  BY <1>1 DEF InsertFree, Holding, Calls, Pending
<1>4. [pc |-> st, of |-> pair] \in CallTypes
  BY <1>2 DEF CallTypes
<1>. HIDE DEF pair
<1>. QED  BY <1>1, <1>2, <1>3, <1>4, MoveKeeps DEF Pending

(* The credit is awarded to the referrer the call has inserted.            *)
LEMMA AwardKeeps ==
  ASSUME LedgerInv, NEW c \in Referrals, AwardReferralCredit(c) PROVE LedgerInv'
<1>1. /\ call[c].pc = "inserted" /\ Moves(c, "awarded", call[c].of)
      /\ UNCHANGED <<referrals, credits, ownership>>
  BY DEF AwardReferralCredit
<1>2. c \in Calls /\ c \notin Purchases
  BY LedgerAssumption DEF Calls
<1>3. [pc |-> "awarded", of |-> call[c].of] \in CallTypes
  BY <1>2 DEF LedgerInv, LedgerTypes, CallTypes
<1>4. /\ call[c].of \in Users \X Users /\ call[c].of \notin referrals
      /\ \A d \in Referrals \ {c} : call[d].pc \in Pending => call[d].of # call[c].of
  BY <1>1 DEF LedgerInv, PendingInv, Pending
<1>. QED  BY <1>1, <1>2, <1>3, <1>4, MoveKeeps DEF Pending

(* A call that rolls back leaves nothing.                                  *)
LEMMA RollBackKeeps == ASSUME LedgerInv, NEW c \in Calls, RollBack(c) PROVE LedgerInv'
<1>1. Moves(c, "failed", call[c].of) /\ UNCHANGED <<referrals, credits, ownership>>
  BY DEF RollBack
<1>2. [pc |-> "failed", of |-> call[c].of] \in CallTypes
  BY DEF LedgerInv, LedgerTypes, CallTypes
<1>. QED  BY <1>1, <1>2, MoveKeeps DEF Pending

(* A purchase chooses a bot that is active, or fails.                      *)
LEMMA SelectBotKeeps ==
  ASSUME LedgerInv, NEW c \in Purchases, NEW u \in Users, NEW b \in Bots, SelectBot(c, u, b)
  PROVE  LedgerInv'
<1>. DEFINE st == IF b \in activeBots THEN "locked" ELSE "failed"
<1>1. Moves(c, st, <<u, b>>) /\ UNCHANGED <<referrals, credits, ownership>>
  BY DEF SelectBot
<1>2. c \in Calls /\ c \notin Referrals
  BY LedgerAssumption DEF Calls
<1>3. [pc |-> st, of |-> <<u, b>>] \in CallTypes
  BY DEF CallTypes
<1>. QED  BY <1>1, <1>2, <1>3, MoveKeeps DEF Pending

(* The commit of a purchase adds its own pair to the bots owned.           *)
LEMMA CommitPurchaseKeeps ==
  ASSUME LedgerInv, NEW c \in Purchases, NEW reply \in {"done", "failed"},
         CommitPurchase(c, reply)
  PROVE  LedgerInv'
<1>1. /\ ownership' = ownership \cup {call[c].of} /\ Moves(c, reply, call[c].of)
      /\ UNCHANGED <<referrals, credits>>
  BY DEF CommitPurchase
<1>2. c \in Calls /\ c \notin Referrals
  BY LedgerAssumption DEF Calls
<1>3. [pc |-> reply, of |-> call[c].of] \in CallTypes
  BY <1>2 DEF LedgerInv, LedgerTypes, CallTypes
<1>. QED  BY <1>1, <1>2, <1>3, MoveKeeps DEF Pending

(* The commit adds a row that is new, and ten credits for it.              *)
LEMMA CommitReferralKeeps ==
  ASSUME LedgerInv, NEW c \in Referrals, NEW reply \in {"done", "failed"},
         CommitReferral(c, reply)
  PROVE  LedgerInv'
<1>. DEFINE pair == call[c].of
<1>1. LedgerTypes /\ PendingInv /\ KindsInv /\ ReferralsArePaidOnce
  BY DEF LedgerInv
<1>2. /\ call[c].pc = "awarded" /\ referrals' = referrals \cup {pair}
      /\ credits' = [credits EXCEPT ![pair[1]] = @ + 10]
      /\ Moves(c, reply, pair) /\ ownership' = ownership
  BY DEF CommitReferral
<1>3. c \in Calls /\ c \notin Purchases /\ Referrals \subseteq Calls /\ Purchases \subseteq Calls
  BY LedgerAssumption DEF Calls
<1>4. /\ pair \in Users \X Users /\ pair \notin referrals
      /\ \A d \in Referrals \ {c} : call[d].pc \in Pending => call[d].of # pair
  BY <1>1, <1>2 DEF PendingInv, Pending
<1>5. /\ call'[c] = [pc |-> reply, of |-> pair]
      /\ \A d \in Calls \ {c} : call'[d] = call[d]
      /\ call' \in [Calls -> CallTypes]
  <2>1. [pc |-> reply, of |-> pair] \in CallTypes
    BY <1>1, <1>3 DEF LedgerTypes, CallTypes
  <2>. QED  BY <1>1, <1>2, <1>3, <2>1 DEF LedgerTypes, Moves
<1>. HIDE DEF pair
<1>6. IsFiniteSet(referrals')
  BY <1>1, <1>2, FS_AddElement DEF LedgerTypes
<1>7. LedgerTypes'
  BY <1>1, <1>2, <1>4, <1>5, <1>6 DEF LedgerTypes
<1>8. PendingInv'
  BY <1>1, <1>2, <1>3, <1>4, <1>5 DEF PendingInv, Pending
<1>9. KindsInv'
  BY <1>1, <1>3, <1>5 DEF KindsInv, Pending
<1>10. ASSUME NEW u \in Users
       PROVE  credits'[u] = 10 * Cardinality({p \in referrals' : p[1] = u})
  <2>. DEFINE old == {p \in referrals : p[1] = u}
  <2>1. IsFiniteSet(old) /\ credits[u] = 10 * Cardinality(old)
    <3>1. old \in SUBSET referrals
      OBVIOUS
    <3>2. IsFiniteSet(old)
      BY <1>1, <3>1, FS_Subset DEF LedgerTypes
    <3>. QED  BY <1>1, <3>2 DEF ReferralsArePaidOnce
  <2>2. Cardinality(old) \in Nat
    BY <2>1, FS_CardinalityType
  <2>3. CASE pair[1] = u
    <3>1. {p \in referrals' : p[1] = u} = old \cup {pair} /\ pair \notin old
      BY <1>2, <1>4, <2>3
    <3>2. Cardinality(old \cup {pair}) = Cardinality(old) + 1
      BY <2>1, <3>1, FS_AddElement
    <3>3. credits'[u] = credits[u] + 10
      BY <1>1, <1>2, <2>3 DEF LedgerTypes
    <3>4. credits'[u] = 10 * (Cardinality(old) + 1)
      <4>. HIDE DEF old
      <4>. QED  BY <2>1, <2>2, <3>3
    <3>. QED  BY <3>1, <3>2, <3>4
  <2>4. CASE pair[1] # u
    <3>1. {p \in referrals' : p[1] = u} = old
      BY <1>2, <2>4
    <3>2. credits'[u] = credits[u]
      BY <1>1, <1>2, <2>4 DEF LedgerTypes
    <3>. QED  BY <2>1, <3>1, <3>2
  <2>. QED  BY <2>3, <2>4
<1>11. \A d \in Calls : call'[d].pc \in {"done", "existed"} =>
         call'[d].of \in IF d \in Referrals THEN referrals' ELSE ownership'
  BY <1>1, <1>2, <1>5 DEF ReferralsArePaidOnce
<1>12. ReferralsArePaidOnce'
  BY <1>10, <1>11 DEF ReferralsArePaidOnce
<1>. QED  BY <1>7, <1>8, <1>9, <1>12 DEF LedgerInv

(* A referral is paid once, however often it is sent, overlaps itself or   *)
(* fails (createReferral), and a purchase that succeeded has its bot.      *)
THEOREM ReferralsPayOnce == LedgerSpec => []ReferralsArePaidOnce
<1>1. LedgerInit => LedgerInv
  <2>. SUFFICES ASSUME LedgerInit PROVE LedgerInv
    OBVIOUS
  <2>1. /\ referrals = {} /\ credits = [u \in Users |-> 0]
        /\ call = [c \in Calls |-> [pc |-> "new", of |-> <<NoOne, NoOne>>]]
    BY DEF LedgerInit
  <2>2. IsFiniteSet({}) /\ Cardinality({}) = 0
    BY FS_EmptySet
  <2>3. LedgerTypes
    BY <2>1, <2>2 DEF LedgerTypes, CallTypes
  <2>4. \A u \in Users : {p \in referrals : p[1] = u} = {}
    BY <2>1
  <2>5. ReferralsArePaidOnce
    BY <2>1, <2>2, <2>4 DEF ReferralsArePaidOnce
  <2>6. PendingInv /\ KindsInv
    BY <2>1 DEF PendingInv, KindsInv, Pending, Calls
  <2>. QED  BY <2>3, <2>5, <2>6 DEF LedgerInv
<1>2. LedgerInv /\ [LedgerNext]_ledgerVars => LedgerInv'
  <2>. SUFFICES ASSUME LedgerInv, [LedgerNext]_ledgerVars PROVE LedgerInv'
    OBVIOUS
  <2>1. CASE ReferralNext
    BY <2>1, InsertReferralKeeps, AwardKeeps, CommitReferralKeeps, RollBackKeeps
       DEF ReferralNext, Calls
  <2>2. CASE PurchaseNext
    <3>1. ASSUME NEW b \in Bots, Deactivate(b) PROVE LedgerInv'
      BY <3>1 DEF Deactivate, LedgerInv, LedgerTypes, PendingInv, KindsInv, ReferralsArePaidOnce
    <3>. QED  BY <2>2, <3>1, SelectBotKeeps, CommitPurchaseKeeps, RollBackKeeps
              DEF PurchaseNext, Calls
  <2>3. CASE UNCHANGED ledgerVars
    BY <2>3 DEF ledgerVars, LedgerInv, LedgerTypes, PendingInv, KindsInv, ReferralsArePaidOnce
  <2>. QED  BY <2>1, <2>2, <2>3 DEF LedgerNext
<1>3. LedgerInv => ReferralsArePaidOnce
  BY DEF LedgerInv
<1>. QED  BY <1>1, <1>2, <1>3, PTL DEF LedgerSpec

(***************************************************************************)
(* Registration                                                            *)
(***************************************************************************)
Suffixes == {0} \cup {Min(F) : F \in SUBSET (0 .. MaxSignups)}

SignupRequests ==
  [by : Visitors, username : Usernames, name : Names,
   st : {"sent", "free", "picked", "ok", "taken", "error"}, suffix : Suffixes]

SignupForms ==
  [loading : BOOLEAN, of : Nat, created : Usernames \cup {NoUsername},
   result : {"none", "ok", "taken", "error", "late"}]

SignupTypes ==
  /\ signups \in Seq(SignupRequests)
  /\ forms \in [Visitors -> SignupForms]

RowsAreWhole ==
  /\ \A u, w \in users : u.username = w.username \/ u.tenant = w.tenant => u = w
  /\ {u.tenant : u \in users} = {t.id : t \in tenants}
  /\ \A s, t \in tenants : s.name = t.name => s = t

UserOf(username, visitor) == \E u \in users : u.username = username /\ u.by = visitor

(* A request that was answered has its user, and a page waits for a        *)
(* request of its own.                                                     *)
AnswersInv ==
  \A i \in DOMAIN signups : signups[i].st = "ok" => UserOf(signups[i].username, signups[i].by)

FormsInv ==
  \A v \in Visitors :
    /\ forms[v].loading => forms[v].of \in DOMAIN signups /\ signups[forms[v].of].by = v
    /\ forms[v].created # NoUsername => UserOf(forms[v].created, v)

SignupInv == SignupTypes /\ RowsAreWhole /\ AnswersInv /\ FormsInv

(* A step of a handler: it moves one request on, and adds users at most.   *)
LEMMA HandlerKeeps ==
  ASSUME SignupInv, RowsAreWhole', users \subseteq users', forms' = forms,
         NEW i \in DOMAIN signups, NEW r \in SignupRequests, signups' = [signups EXCEPT ![i] = r],
         r.by = signups[i].by, r.username = signups[i].username,
         r.st = "ok" => UserOf(r.username, r.by)'
  PROVE  SignupInv'
<1>1. SignupTypes /\ AnswersInv /\ FormsInv
  BY DEF SignupInv
<1>2. /\ signups' \in Seq(SignupRequests) /\ DOMAIN signups' = DOMAIN signups
      /\ signups'[i] = r /\ \A k \in DOMAIN signups \ {i} : signups'[k] = signups[k]
  BY <1>1 DEF SignupTypes
<1>3. SignupTypes'
  BY <1>1, <1>2 DEF SignupTypes
<1>4. AnswersInv'
  BY <1>1, <1>2 DEF AnswersInv, UserOf
<1>5. FormsInv'
  BY <1>1, <1>2 DEF FormsInv, UserOf
<1>. QED  BY <1>3, <1>4, <1>5 DEF SignupInv

(* A page sends a request of its own and waits for it.                     *)
LEMMA SendKeeps ==
  ASSUME SignupInv, NEW v \in Visitors, NEW u \in Usernames, NEW n \in Names, SendSignup(v, u, n)
  PROVE  SignupInv'
<1>. DEFINE r == [by |-> v, username |-> u, name |-> n, st |-> "sent", suffix |-> 0]
<1>1. /\ SignupTypes /\ RowsAreWhole /\ AnswersInv /\ FormsInv /\ UNCHANGED <<tenants, users>>
      /\ signups' = Append(signups, r)
      /\ forms' = [forms EXCEPT ![v].loading = TRUE, ![v].of = Len(signups')]
  BY DEF SignupInv, SendSignup
<1>2. r \in SignupRequests /\ r.by = v /\ r.st # "ok"
  BY DEF SignupRequests, Suffixes
<1>. HIDE DEF r
<1>3. /\ signups' \in Seq(SignupRequests) /\ Len(signups') = Len(signups) + 1
      /\ Len(signups') \in DOMAIN signups' /\ signups'[Len(signups')] = r
      /\ \A k \in DOMAIN signups : k \in DOMAIN signups' /\ signups'[k] = signups[k]
      /\ \A k \in DOMAIN signups' : k \in DOMAIN signups \/ k = Len(signups')
      /\ Len(signups') \in Nat
  BY <1>1, <1>2 DEF SignupTypes
<1>. DEFINE f == [forms[v] EXCEPT !.loading = TRUE, !.of = Len(signups')]
<1>4. f \in SignupForms /\ f.loading /\ f.of = Len(signups') /\ f.created = forms[v].created
  BY <1>1, <1>3 DEF SignupTypes, SignupForms
<1>5. forms' = [forms EXCEPT ![v] = f]
  BY <1>1
<1>. HIDE DEF f
<1>6. forms' \in [Visitors -> SignupForms] /\ forms'[v] = f
      /\ \A w \in Visitors \ {v} : forms'[w] = forms[w]
  BY <1>1, <1>4, <1>5 DEF SignupTypes
<1>7. SignupTypes'
  BY <1>3, <1>6 DEF SignupTypes
<1>8. AnswersInv'
  BY <1>1, <1>2, <1>3 DEF AnswersInv, UserOf
<1>9. FormsInv'
  <2>1. FormsInv
    BY <1>1
  <2>. SUFFICES ASSUME NEW w \in Visitors
                PROVE  /\ forms'[w].loading => forms'[w].of \in DOMAIN signups'
                                              /\ signups'[forms'[w].of].by = w
                       /\ forms'[w].created # NoUsername => UserOf(forms'[w].created, w)
    BY <1>1 DEF FormsInv, UserOf
  <2>2. CASE w = v
    BY <1>2, <1>3, <1>4, <1>6, <2>1, <2>2 DEF FormsInv
  <2>3. CASE w # v
    BY <1>3, <1>6, <2>1, <2>3 DEF FormsInv
  <2>. QED  BY <2>2, <2>3
<1>. QED  BY <1>1, <1>7, <1>8, <1>9 DEF SignupInv, RowsAreWhole

(* What a page shows is what its own request was answered.                 *)
LEMMA ShowKeeps ==
  ASSUME SignupInv, NEW v \in Visitors, ShowAnswer(v) \/ SignupTimesOut(v)
  PROVE  SignupInv'
<1>1. /\ SignupTypes /\ RowsAreWhole /\ AnswersInv /\ FormsInv
      /\ UNCHANGED <<tenants, users, signups>> /\ forms[v].loading
  BY DEF SignupInv, ShowAnswer, SignupTimesOut
<1>. DEFINE s == signups[forms[v].of]
<1>2. s \in SignupRequests /\ s.by = v /\ (s.st = "ok" => UserOf(s.username, v))
  BY <1>1 DEF SignupTypes, FormsInv, AnswersInv
<1>3. \E result \in {"ok", "taken", "error", "late"},
         created \in {forms[v].created} \cup (IF s.st = "ok" THEN {s.username} ELSE {}) :
        forms' = [forms EXCEPT ![v] =
          [forms[v] EXCEPT !.loading = FALSE, !.result = result, !.created = created]]
  <2>1. CASE ShowAnswer(v)
    BY <2>1 DEF ShowAnswer, Answered
  <2>2. CASE SignupTimesOut(v)
    <3>1. forms[v] \in SignupForms
      BY <1>1 DEF SignupTypes
    <3>2. forms' = [forms EXCEPT ![v] = [forms[v] EXCEPT !.loading = FALSE, !.result = "late",
                                                        !.created = forms[v].created]]
      BY <2>2, <3>1 DEF SignupTimesOut, SignupForms
    <3>. QED  BY <3>2
  <2>. QED  BY <2>1, <2>2
<1>4. PICK result \in {"ok", "taken", "error", "late"},
           created \in {forms[v].created} \cup (IF s.st = "ok" THEN {s.username} ELSE {}) :
        forms' = [forms EXCEPT ![v] =
          [forms[v] EXCEPT !.loading = FALSE, !.result = result, !.created = created]]
  BY <1>3
<1>. HIDE DEF s
<1>. DEFINE f == [forms[v] EXCEPT !.loading = FALSE, !.result = result, !.created = created]
<1>5. created \in Usernames \cup {NoUsername} /\ (created # NoUsername => UserOf(created, v))
  <2>1. forms[v].created \in Usernames \cup {NoUsername}
        /\ (forms[v].created # NoUsername => UserOf(forms[v].created, v))
    BY <1>1 DEF SignupTypes, SignupForms, FormsInv
  <2>2. s.username \in Usernames
    BY <1>2 DEF SignupRequests
  <2>. QED  BY <1>2, <2>1, <2>2
<1>6. f \in SignupForms /\ ~f.loading /\ f.created = created
  BY <1>1, <1>5 DEF SignupTypes, SignupForms
<1>. HIDE DEF f
<1>7. forms' \in [Visitors -> SignupForms] /\ forms'[v] = f
      /\ \A w \in Visitors \ {v} : forms'[w] = forms[w]
  BY <1>1, <1>4, <1>6 DEF SignupTypes, f
<1>8. SignupTypes'
  BY <1>1, <1>7 DEF SignupTypes
<1>9. FormsInv'
  BY <1>1, <1>5, <1>6, <1>7 DEF FormsInv, UserOf
<1>. QED  BY <1>1, <1>8, <1>9 DEF SignupInv, RowsAreWhole, AnswersInv, UserOf

(* The lookups move their own request on.                                  *)
LEMMA LookUpKeeps ==
  ASSUME SignupInv, NEW i \in DOMAIN signups, LookUpUser(i) \/ PickTenant(i)
  PROVE  SignupInv'
<1>1. SignupTypes /\ RowsAreWhole /\ UNCHANGED <<tenants, users, forms>>
  BY DEF SignupInv, LookUpUser, PickTenant
<1>2. signups[i] \in SignupRequests
  BY <1>1 DEF SignupTypes
<1>3. \E st \in {"taken", "free", "picked"}, k \in Suffixes :
        signups' = [signups EXCEPT ![i] = [signups[i] EXCEPT !.st = st, !.suffix = k]]
  <2>1. CASE LookUpUser(i)
    <3>1. PICK st \in {"taken", "free"} : signups' = [signups EXCEPT ![i].st = st]
      BY <2>1 DEF LookUpUser
    <3>2. [signups[i] EXCEPT !.st = st] = [signups[i] EXCEPT !.st = st, !.suffix = signups[i].suffix]
      BY <1>2 DEF SignupRequests
    <3>. QED  BY <1>2, <3>1, <3>2 DEF SignupRequests
  <2>2. CASE PickTenant(i)
    <3>. DEFINE free == {k \in 0 .. MaxSignups : \A t \in tenants : t.id # TenantId(i, k)}
    <3>1. signups' = [signups EXCEPT ![i].st = "picked", ![i].suffix = Min(free)]
      BY <2>2 DEF PickTenant
    <3>2. Min(free) \in Suffixes
      BY DEF Suffixes
    <3>. HIDE DEF free
    <3>. QED  BY <3>1, <3>2
  <2>. QED  BY <2>1, <2>2
<1>4. PICK st \in {"taken", "free", "picked"}, k \in Suffixes :
        signups' = [signups EXCEPT ![i] = [signups[i] EXCEPT !.st = st, !.suffix = k]]
  BY <1>3
<1>. DEFINE r == [signups[i] EXCEPT !.st = st, !.suffix = k]
<1>5. r \in SignupRequests /\ r.by = signups[i].by /\ r.username = signups[i].username /\ r.st # "ok"
  BY <1>2 DEF SignupRequests
<1>6. RowsAreWhole'
  BY <1>1 DEF RowsAreWhole
<1>. HIDE DEF r
<1>. QED  BY <1>1, <1>4, <1>5, <1>6, HandlerKeeps DEF r

(* Both rows go in, with an id, a name and a username nobody has, or none. *)
LEMMA CommitKeeps ==
  ASSUME SignupInv, NEW i \in DOMAIN signups, CommitAccount(i) PROVE SignupInv'
<1>1. SignupTypes /\ RowsAreWhole /\ forms' = forms /\ signups[i] \in SignupRequests
  BY DEF SignupInv, SignupTypes, CommitAccount
<1>2. CASE /\ TenantFits(i) /\ UserFits(i)
           /\ tenants' = tenants \cup {TenantRow(i)}
           /\ users' = users \cup {UserRow(i)}
           /\ signups' = [signups EXCEPT ![i].st = "ok"]
  <2>. DEFINE user == UserRow(i)
              tenant == TenantRow(i)
              r == [signups[i] EXCEPT !.st = "ok"]
  <2>1. /\ user.username = signups[i].username /\ user.tenant = tenant.id
        /\ user.by = signups[i].by
    BY DEF UserRow
  <2>2. /\ \A t \in tenants : t.id # tenant.id /\ t.name # tenant.name
        /\ \A u \in users : u.username # user.username
    BY <1>2 DEF TenantFits, UserFits
  <2>3. r \in SignupRequests /\ r.by = signups[i].by /\ r.username = signups[i].username
    BY <1>1 DEF SignupRequests
  <2>. HIDE DEF user, tenant, r
  <2>4. RowsAreWhole'
    <3>1. /\ \A u \in users : u.tenant # user.tenant
          /\ {u.tenant : u \in users} = {t.id : t \in tenants}
      BY <1>1, <2>1, <2>2 DEF RowsAreWhole
    <3>2. users' = users \cup {user} /\ tenants' = tenants \cup {tenant}
      BY <1>2 DEF user, tenant
    <3>3. {u.tenant : u \in users'} = {t.id : t \in tenants'}
      BY <2>1, <3>1, <3>2
    <3>4. \A u, w \in users' : u.username = w.username \/ u.tenant = w.tenant => u = w
      BY <1>1, <2>2, <3>1, <3>2 DEF RowsAreWhole
    <3>5. \A s, t \in tenants' : s.name = t.name => s = t
      BY <1>1, <2>2, <3>2 DEF RowsAreWhole
    <3>. QED  BY <3>3, <3>4, <3>5 DEF RowsAreWhole
  <2>5. UserOf(r.username, r.by)' /\ users \subseteq users'
    BY <1>1, <1>2, <2>1, <2>3 DEF UserOf, user, r
  <2>. QED  BY <1>1, <1>2, <2>3, <2>4, <2>5, HandlerKeeps DEF r
<1>3. CASE signups' = [signups EXCEPT ![i].st = "error"] /\ UNCHANGED <<tenants, users>>
  <2>. DEFINE r == [signups[i] EXCEPT !.st = "error"]
  <2>1. /\ r \in SignupRequests /\ r.by = signups[i].by /\ r.username = signups[i].username
        /\ r.st # "ok"
    BY <1>1 DEF SignupRequests
  <2>2. RowsAreWhole'
    BY <1>1, <1>3 DEF RowsAreWhole
  <2>. HIDE DEF r
  <2>. QED  BY <1>1, <1>3, <2>1, <2>2, HandlerKeeps DEF r
<1>. QED  BY <1>2, <1>3 DEF CommitAccount

(* However registrations overlap and time out, accounts are whole, and who *)
(* was told so has one (register, SignupPage).                             *)
THEOREM AccountsStayWhole == SignupSpec => []AccountsAreWhole
<1>1. SignupInit => SignupInv
  BY DEF SignupInit, SignupInv, SignupTypes, SignupForms, RowsAreWhole, AnswersInv, FormsInv
<1>2. SignupInv /\ [SignupNext]_signupVars => SignupInv'
  <2>. SUFFICES ASSUME SignupInv, [SignupNext]_signupVars PROVE SignupInv'
    OBVIOUS
  <2>1. CASE UNCHANGED signupVars
    BY <2>1 DEF signupVars, SignupInv, SignupTypes, RowsAreWhole, AnswersInv, FormsInv, UserOf
  <2>. QED  BY <2>1, SendKeeps, ShowKeeps, LookUpKeeps, CommitKeeps DEF SignupNext
<1>3. SignupInv => AccountsAreWhole
  BY DEF SignupInv, RowsAreWhole, FormsInv, UserOf, AccountsAreWhole
<1>. QED  BY <1>1, <1>2, <1>3, PTL DEF SignupSpec

(***************************************************************************)
(* Rate limiting                                                           *)
(***************************************************************************)
(* What the window holds: the messages in it, and those of them that are   *)
(* in no replica's bucket, which Redis let through.                        *)
InWindow == {i \in DOMAIN passed : now - passed[i] < Window}

ByRedis == {i \in InWindow : \A r \in Replicas : i \notin bucket[r]}

RateTypes ==
  /\ configured \in BOOLEAN
  /\ {now, count, expires, failures} \subseteq Nat
  /\ passed \in Seq(Nat)
  /\ \A i \in 1..Len(passed) : passed[i] <= now
  /\ bucket \in [Replicas -> SUBSET (1..Len(passed))]

(* The counter lives as long as the messages it let through are in the     *)
(* window, and counts them all.                                            *)
CounterInv ==
  /\ \A i \in ByRedis : passed[i] + Window <= expires
  /\ Cardinality(ByRedis) <= Live
  /\ Cardinality(ByRedis) <= Limit

BucketInv == \A r \in Replicas : Cardinality(Recent(r)) <= Limit

(* Who has let messages through.                                           *)
SourceInv ==
  /\ ~configured => ByRedis = {}
  /\ configured /\ failures = 0 => \A r \in Replicas : bucket[r] = {}

RateInv == RateTypes /\ CounterInv /\ BucketInv /\ SourceInv

(* The sets of messages are finite.                                        *)
LEMMA WindowsAreFinite ==
  ASSUME RateTypes
  PROVE  /\ IsFiniteSet(InWindow) /\ Cardinality(InWindow) \in Nat
         /\ IsFiniteSet(ByRedis) /\ Cardinality(ByRedis) \in Nat
         /\ \A r \in Replicas : /\ IsFiniteSet(Recent(r))
                                /\ Cardinality(Recent(r)) \in Nat
                                /\ Recent(r) \subseteq 1..Len(passed)
<1>1. IsFiniteSet(1..Len(passed))
  BY FS_Interval, 0 \in Int, 1 \in Int, Len(passed) \in Int DEF RateTypes
<1>2. \A T \in SUBSET (1..Len(passed)) : IsFiniteSet(T) /\ Cardinality(T) \in Nat
  BY <1>1, FS_Subset, FS_CardinalityType
<1>3. InWindow \subseteq 1..Len(passed) /\ ByRedis \subseteq 1..Len(passed)
  BY DEF InWindow, ByRedis, RateTypes
<1>4. \A r \in Replicas : Recent(r) \subseteq 1..Len(passed)
  BY DEF Recent, RateTypes
<1> QED  BY <1>2, <1>3, <1>4

(* What Redis's part of the window may become while the counter is left    *)
(* alone: no more than it was.                                             *)
LEMMA FewerByRedis ==
  ASSUME RateTypes, NEW S, S \subseteq ByRedis
  PROVE  Cardinality(S) \in Nat /\ Cardinality(S) <= Cardinality(ByRedis)
  BY WindowsAreFinite, FS_Subset, FS_CardinalityType

(* One element more makes a set larger by one at most.                     *)
LEMMA OneElementMore ==
  ASSUME NEW S, NEW x, IsFiniteSet(S)
  PROVE  /\ IsFiniteSet(S \cup {x})
         /\ Cardinality(S \cup {x}) \in Nat
         /\ Cardinality(S \cup {x}) <= Cardinality(S) + 1
<1>1. Cardinality(S) \in Nat
  BY FS_CardinalityType
<1>2. /\ IsFiniteSet(S \cup {x})
      /\ Cardinality(S \cup {x}) = IF x \in S THEN Cardinality(S) ELSE Cardinality(S) + 1
  BY FS_AddElement, Zenon
<1>3. Cardinality(S \cup {x}) \in Nat
  BY <1>2, FS_CardinalityType
<1> QED  BY <1>1, <1>2, <1>3

(* Appending the present to passed keeps its types.                        *)
LEMMA PassKeepsTypes ==
  ASSUME RateTypes, passed' = Append(passed, now)
  PROVE  /\ passed' \in Seq(Nat) /\ Len(passed') = Len(passed) + 1
         /\ passed'[Len(passed) + 1] = now
         /\ \A i \in 1..Len(passed) : passed'[i] = passed[i]
         /\ 1..Len(passed') = (1..Len(passed)) \cup {Len(passed) + 1}
         /\ DOMAIN passed' = 1..Len(passed')
         /\ DOMAIN passed = 1..Len(passed)
         /\ Len(passed) \in Nat
  BY DEF RateTypes

(* A message that passes enters the window.                                *)
LEMMA PassEntersWindow ==
  ASSUME RateTypes, passed' = Append(passed, now), now' = now
  PROVE  InWindow' = InWindow \cup {Len(passed) + 1}
<1>1. 0 < Window /\ Window \in Nat
  BY RateAssumption
<1>2. InWindow' = {i \in DOMAIN passed' : now - passed'[i] < Window}
  BY DEF InWindow
<1>3. \A i \in 1..Len(passed) : now - passed'[i] < Window <=> now - passed[i] < Window
  BY PassKeepsTypes
<1>4. now - passed'[Len(passed) + 1] < Window
  BY <1>1, PassKeepsTypes DEF RateTypes
<1> QED  BY <1>2, <1>3, <1>4, PassKeepsTypes DEF InWindow

(* Time only empties the windows.                                          *)
LEMMA TimeEmpties ==
  ASSUME RateInv, Pause
  PROVE  RateInv'
<1> USE DEF RateInv
<1>1. /\ now \in Nat /\ expires \in Nat /\ Window \in Nat /\ Limit \in Nat /\ count \in Nat
      /\ passed \in Seq(Nat)
  BY RateAssumption DEF RateTypes
<1>2. now' = now + 1
  BY DEF Pause
<1>3. RateTypes'
  BY <1>1, <1>2 DEF Pause, RateTypes
<1>4. InWindow' \subseteq InWindow
  BY <1>1, <1>2 DEF Pause, InWindow
<1>5. ByRedis' \subseteq ByRedis
  BY <1>4 DEF ByRedis, Pause
<1>6. \A i \in ByRedis' : now' - passed[i] < Window /\ passed[i] \in Nat
  BY <1>1 DEF ByRedis, InWindow, Pause
<1>7. Cardinality(ByRedis') \in Nat /\ Cardinality(ByRedis') <= Cardinality(ByRedis)
  BY <1>5, FewerByRedis
<1>8. Cardinality(ByRedis) \in Nat
  BY WindowsAreFinite
<1>9. CounterInv'
  <2>1. \A i \in ByRedis' : passed'[i] + Window <= expires'
    BY <1>5 DEF CounterInv, Pause
  <2>2. Cardinality(ByRedis') <= Limit
    BY <1>1, <1>7, <1>8 DEF CounterInv
  <2>3. Cardinality(ByRedis') <= Live'
    <3>1. CASE now' < expires
      <4>1. Live' = count /\ Live = count
        BY <1>1, <1>2, <3>1 DEF Live, Pause
      <4> QED  BY <1>1, <1>7, <1>8, <4>1 DEF CounterInv
    <3>2. CASE ~(now' < expires)
      <4>1. ByRedis' = {}
        BY <1>1, <1>2, <1>5, <1>6, <3>2 DEF CounterInv
      <4>2. Live' = 0
        BY <3>2 DEF Live, Pause
      <4> QED  BY <4>1, <4>2, FS_EmptySet
    <3> QED  BY <3>1, <3>2
  <2> QED  BY <2>1, <2>2, <2>3 DEF CounterInv
<1>10. BucketInv'
  <2> SUFFICES ASSUME NEW r \in Replicas
               PROVE  Cardinality(Recent(r)') <= Limit
    BY DEF BucketInv
  <2>1. Recent(r)' = {i \in bucket[r] : now' - passed[i] < Window}
    BY DEF Recent, Pause
  <2>2. Recent(r)' \subseteq Recent(r)
    BY <2>1, <1>1, <1>2 DEF Recent, RateTypes
  <2>3. Cardinality(Recent(r)') <= Cardinality(Recent(r))
    BY <2>2, WindowsAreFinite, FS_Subset
  <2>4. IsFiniteSet(Recent(r)')
    BY <2>2, WindowsAreFinite, FS_Subset
  <2>5. Cardinality(Recent(r)') \in Nat
    BY <2>4, FS_CardinalityType
  <2> QED  BY <1>1, <2>3, <2>5, WindowsAreFinite DEF BucketInv
<1>11. SourceInv'
  BY <1>5 DEF SourceInv, Pause
<1> QED  BY <1>3, <1>9, <1>10, <1>11

(* A decision of a replica's memory keeps its types and its bound, and     *)
(* takes nothing of the window from any bucket.                            *)
LEMMA MemoryKeeps ==
  ASSUME RateInv, NEW r \in Replicas, AllowInMemory(r), now' = now
  PROVE  /\ passed' \in Seq(Nat)
         /\ \A i \in 1..Len(passed') : passed'[i] <= now
         /\ bucket' \in [Replicas -> SUBSET (1..Len(passed'))]
         /\ BucketInv'
         /\ ByRedis' = ByRedis
         /\ \A i \in ByRedis : passed'[i] = passed[i]
<1> DEFINE pass == Cardinality(Recent(r)) < Limit
           new == Len(passed) + 1
<1>1. RateTypes /\ BucketInv
  BY DEF RateInv
<1>2. /\ Window \in Nat /\ 0 < Window /\ Limit \in Nat
      /\ now \in Nat /\ Len(passed) \in Nat /\ passed \in Seq(Nat)
  BY <1>1, RateAssumption DEF RateTypes
<1>3. bucket' = [bucket EXCEPT ![r] = Recent(r) \cup (IF pass THEN {new} ELSE {})]
  BY DEF AllowInMemory
<1>4. passed' = IF pass THEN Append(passed, now) ELSE passed
  BY DEF AllowInMemory, Decided
<1>5. /\ bucket \in [Replicas -> SUBSET (1..Len(passed))]
      /\ \A q \in Replicas : Recent(q) \subseteq 1..Len(passed)
  BY <1>1, WindowsAreFinite DEF RateTypes
<1>6. /\ bucket'[r] = Recent(r) \cup (IF pass THEN {new} ELSE {})
      /\ \A q \in Replicas \ {r} : bucket'[q] = bucket[q]
      /\ DOMAIN bucket' = Replicas
  BY <1>3, <1>5
<1>7. CASE pass
  <2>1. passed' = Append(passed, now)
    BY <1>4, <1>7
  <2>2. /\ passed' \in Seq(Nat) /\ Len(passed') = new /\ passed'[new] = now
        /\ \A i \in 1..Len(passed) : passed'[i] = passed[i]
        /\ 1..Len(passed') = (1..Len(passed)) \cup {new}
    BY <1>1, <2>1, PassKeepsTypes
  <2>3. \A i \in 1..Len(passed') : passed'[i] <= now
    <3>1. \A i \in 1..Len(passed) : passed[i] <= now
      BY <1>1 DEF RateTypes
    <3> QED  BY <1>2, <2>2, <3>1
  <2>4. bucket'[r] = Recent(r) \cup {new}
    BY <1>6, <1>7
  <2>5. bucket' \in [Replicas -> SUBSET (1..Len(passed'))]
    BY <1>3, <1>5, <1>7, <2>2
  <2>6. \A q \in Replicas \ {r} : Recent(q)' = Recent(q)
    <3> SUFFICES ASSUME NEW q \in Replicas \ {r}
                 PROVE  Recent(q)' = Recent(q)
      OBVIOUS
    <3>1. Recent(q)' = {i \in bucket'[q] : now - passed'[i] < Window}
      BY DEF Recent
    <3> QED  BY <1>5, <1>6, <2>2, <3>1 DEF Recent
  <2>7. Recent(r)' = Recent(r) \cup {new}
    <3>1. Recent(r)' = {i \in bucket'[r] : now - passed'[i] < Window}
      BY DEF Recent
    <3>2. \A i \in Recent(r) : now - passed'[i] < Window
      BY <1>5, <2>2 DEF Recent
    <3>3. now - passed'[new] < Window
      BY <1>2, <2>2
    <3> QED  BY <2>4, <3>1, <3>2, <3>3
  <2>8. Cardinality(Recent(r) \cup {new}) <= Cardinality(Recent(r)) + 1
    <3>1. IsFiniteSet(Recent(r)) /\ Cardinality(Recent(r)) \in Nat
      BY <1>1, WindowsAreFinite
    <3> QED  BY <3>1, OneElementMore
  <2>9. BucketInv'
    <3>1. /\ Cardinality(Recent(r)) \in Nat
          /\ IsFiniteSet(Recent(r) \cup {new})
      BY <1>1, WindowsAreFinite, FS_AddElement
    <3>2. Cardinality(Recent(r) \cup {new}) \in Nat
      BY <3>1, FS_CardinalityType
    <3>3. Cardinality(Recent(r) \cup {new}) <= Limit
      BY <1>2, <1>7, <2>8, <3>1, <3>2
    <3>4. \A q \in Replicas : Cardinality(Recent(q)') <= Limit
      BY <1>1, <2>6, <2>7, <3>3 DEF BucketInv
    <3> QED  BY <3>4 DEF BucketInv
  <2>10. InWindow' = InWindow \cup {new}
    BY <1>1, <2>1, PassEntersWindow
  <2>11. ByRedis' = {i \in InWindow \cup {new} : \A q \in Replicas : i \notin bucket'[q]}
    BY <2>10 DEF ByRedis
  <2>12. \A i \in InWindow : i \in Recent(r) <=> i \in bucket[r]
    BY DEF InWindow, Recent
  <2>13. InWindow \subseteq 1..Len(passed) /\ new \notin InWindow
    BY <1>2 DEF InWindow
  <2>14. \A i \in InWindow : i \in bucket'[r] <=> i \in bucket[r]
    BY <2>4, <2>12, <2>13
  <2>15. ByRedis' = ByRedis
    BY <1>6, <2>4, <2>11, <2>14 DEF ByRedis
  <2>16. \A i \in ByRedis : passed'[i] = passed[i]
    BY <2>2, <2>13 DEF ByRedis
  <2> QED  BY <2>2, <2>3, <2>5, <2>9, <2>15, <2>16
<1>8. CASE ~pass
  <2>1. passed' = passed
    BY <1>4, <1>8
  <2>2. bucket'[r] = Recent(r)
    BY <1>6, <1>8
  <2>3. bucket' \in [Replicas -> SUBSET (1..Len(passed))]
    BY <1>3, <1>5, <1>8
  <2>4. \A q \in Replicas : Recent(q)' = Recent(q)
    BY <1>6, <2>1, <2>2 DEF Recent
  <2>5. BucketInv'
    BY <1>1, <2>4 DEF BucketInv
  <2>6. InWindow' = InWindow
    BY <2>1 DEF InWindow
  <2>7. \A i \in InWindow : i \in Recent(r) <=> i \in bucket[r]
    BY DEF InWindow, Recent
  <2>8. ByRedis' = ByRedis
    BY <1>6, <2>2, <2>6, <2>7 DEF ByRedis
  <2> QED  BY <1>1, <1>2, <2>1, <2>3, <2>5, <2>8 DEF RateTypes
<1> QED  BY <1>7, <1>8

(* Counting a message in Redis makes room for one more.                    *)
LEMMA CountingIsOneMore ==
  ASSUME RateTypes, CountedInRedis, now' = now
  PROVE  /\ count' \in Nat /\ expires' \in Nat
         /\ Live \in Nat /\ Live' = Live + 1
         /\ CounterInv /\ ByRedis' = ByRedis
              /\ (\A i \in ByRedis : passed'[i] = passed[i]) =>
              CounterInv'
<1>1. /\ {now, count, expires} \subseteq Nat /\ Window \in Nat /\ 0 < Window
  BY RateAssumption DEF RateTypes
<1>2. Live \in Nat
  BY <1>1 DEF Live
<1>3. count' = Live + 1 /\ expires' = now + Window
  BY DEF CountedInRedis
<1>4. Live' = Live + 1
  <2>1. Live' = IF now < expires' THEN count' ELSE 0
    BY DEF Live
  <2> QED  BY <1>1, <1>3, <2>1
<1>5. ASSUME CounterInv, ByRedis' = ByRedis, \A i \in ByRedis : passed'[i] = passed[i]
      PROVE  CounterInv'
  <2>1. \A i \in ByRedis : i \in DOMAIN passed /\ passed[i] \in Nat /\ passed[i] <= now
    BY DEF ByRedis, InWindow, RateTypes
  <2>2. \A i \in ByRedis' : passed'[i] + Window <= expires'
    BY <1>1, <1>3, <1>5, <2>1
  <2>3. Cardinality(ByRedis) \in Nat
    BY WindowsAreFinite
  <2>4. Cardinality(ByRedis') <= Live' /\ Cardinality(ByRedis') <= Limit
    BY <1>2, <1>4, <1>5, <2>3 DEF CounterInv
  <2> QED  BY <2>2, <2>4 DEF CounterInv
<1> QED  BY <1>1, <1>2, <1>3, <1>4, <1>5

(* A question that Redis answers.                                          *)
LEMMA RedisKeeps ==
  ASSUME RateInv, AskRedis
  PROVE  RateInv'
<1> DEFINE new == Len(passed) + 1
<1>1. RateTypes /\ CounterInv /\ BucketInv /\ SourceInv
  BY DEF RateInv
<1>2. configured /\ UNCHANGED <<configured, now, bucket, failures>> /\ CountedInRedis
  BY DEF AskRedis
<1>3. /\ count' \in Nat /\ expires' \in Nat /\ Live \in Nat /\ Live' = Live + 1
  BY <1>1, <1>2, CountingIsOneMore
<1>4. /\ Window \in Nat /\ 0 < Window /\ Limit \in Nat
      /\ now \in Nat /\ Len(passed) \in Nat /\ passed \in Seq(Nat)
      /\ \A i \in 1..Len(passed) : passed[i] \in Nat /\ passed[i] <= now
      /\ DOMAIN passed = 1..Len(passed)
      /\ bucket \in [Replicas -> SUBSET (1..Len(passed))]
  BY <1>1, RateAssumption DEF RateTypes
<1>5. SourceInv' <=> (configured /\ failures = 0 => \A r \in Replicas : bucket[r] = {})
  BY <1>2 DEF SourceInv
<1>6. SourceInv'
  BY <1>1, <1>5 DEF SourceInv
<1>7. CASE Live + 1 <= Limit
  <2>1. passed' = Append(passed, now)
    BY <1>7 DEF AskRedis, Decided
  <2>2. /\ passed' \in Seq(Nat) /\ Len(passed') = new /\ passed'[new] = now
        /\ \A i \in 1..Len(passed) : passed'[i] = passed[i]
        /\ 1..Len(passed') = (1..Len(passed)) \cup {new}
    BY <1>1, <2>1, PassKeepsTypes
  <2>3. \A i \in 1..Len(passed') : passed'[i] <= now
    BY <1>4, <2>2
  <2>4. RateTypes'
    <3>1. bucket \in [Replicas -> SUBSET (1..Len(passed'))]
      BY <1>4, <2>2
    <3>2. configured' \in BOOLEAN /\ {now', count', expires', failures'} \subseteq Nat
      BY <1>1, <1>2, <1>3 DEF RateTypes
    <3> QED  BY <1>2, <2>2, <2>3, <3>1, <3>2 DEF RateTypes
  <2>5. BucketInv'
    <3>1. \A r \in Replicas : Recent(r)' = Recent(r)
      <4> SUFFICES ASSUME NEW r \in Replicas
                   PROVE  Recent(r)' = Recent(r)
        OBVIOUS
      <4>1. Recent(r)' = {i \in bucket[r] : now - passed'[i] < Window}
        BY <1>2 DEF Recent
      <4> QED  BY <1>4, <2>2, <4>1 DEF Recent
    <3> QED  BY <1>1, <3>1 DEF BucketInv
  <2>6. ByRedis' = ByRedis \cup {new}
    <3>1. InWindow' = InWindow \cup {new}
      BY <1>1, <1>2, <2>1, PassEntersWindow
    <3>2. \A r \in Replicas : new \notin bucket[r]
      BY <1>4
    <3> QED  BY <1>2, <3>1, <3>2 DEF ByRedis
  <2>7. CounterInv'
    <3>1. \A i \in ByRedis : i \in 1..Len(passed)
      BY <1>4 DEF ByRedis, InWindow
    <3>2. \A i \in ByRedis' : passed'[i] <= now /\ passed'[i] \in Nat
      BY <1>4, <2>2, <2>6, <3>1
    <3>3. expires' = now + Window
      BY <1>2 DEF CountedInRedis
    <3>4. \A i \in ByRedis' : passed'[i] + Window <= expires'
      BY <1>4, <3>2, <3>3
    <3>5. IsFiniteSet(ByRedis) /\ Cardinality(ByRedis) \in Nat
      BY <1>1, WindowsAreFinite
    <3>6. /\ IsFiniteSet(ByRedis \cup {new})
          /\ Cardinality(ByRedis \cup {new}) <= Cardinality(ByRedis) + 1
      BY <3>5, OneElementMore
    <3>7. Cardinality(ByRedis \cup {new}) \in Nat
      BY <3>5, OneElementMore
    <3>8. Cardinality(ByRedis) <= Live
      BY <1>1 DEF CounterInv
    <3>9. Cardinality(ByRedis') <= Live' /\ Cardinality(ByRedis') <= Limit
      BY <1>3, <1>4, <1>7, <2>6, <3>5, <3>6, <3>7, <3>8
    <3> QED  BY <3>4, <3>9 DEF CounterInv
  <2> QED  BY <1>6, <2>4, <2>5, <2>7 DEF RateInv
<1>8. CASE ~(Live + 1 <= Limit)
  <2>1. passed' = passed
    BY <1>8 DEF AskRedis, Decided
  <2>2. RateTypes'
    BY <1>1, <1>2, <1>3, <2>1 DEF RateTypes
  <2>3. BucketInv'
    BY <1>1, <1>2, <2>1 DEF BucketInv, Recent
  <2>4. ByRedis' = ByRedis
    BY <1>2, <2>1 DEF ByRedis, InWindow
  <2>5. CounterInv'
    BY <1>1, <1>2, <2>1, <2>4, CountingIsOneMore
  <2> QED  BY <1>6, <2>2, <2>3, <2>5 DEF RateInv
<1> QED  BY <1>7, <1>8

(* A question that a replica answers from its memory.                      *)
LEMMA FallbackKeeps ==
  ASSUME RateInv, NEW r \in Replicas, AskFails(r) \/ AskMemory(r)
  PROVE  RateInv'
<1>1. RateTypes /\ CounterInv /\ BucketInv /\ SourceInv
  BY DEF RateInv
<1>2. AllowInMemory(r) /\ UNCHANGED <<configured, now>>
  BY DEF AskFails, AskMemory
<1>3. /\ passed' \in Seq(Nat)
      /\ \A i \in 1..Len(passed') : passed'[i] <= now
      /\ bucket' \in [Replicas -> SUBSET (1..Len(passed'))]
      /\ BucketInv'
      /\ ByRedis' = ByRedis
      /\ \A i \in ByRedis : passed'[i] = passed[i]
  BY <1>2, MemoryKeeps
<1>4. CountedInRedis \/ UNCHANGED <<count, expires>>
  BY DEF AskFails, AskMemory
<1>5. count' \in Nat /\ expires' \in Nat
  BY <1>1, <1>2, <1>4, CountingIsOneMore DEF RateTypes
<1>6. CounterInv'
  <2>1. CASE CountedInRedis
    BY <1>1, <1>2, <1>3, <2>1, CountingIsOneMore
  <2>2. CASE UNCHANGED <<count, expires>>
    <3>1. Live' = Live
      BY <1>2, <2>2 DEF Live
    <3> QED  BY <1>1, <1>3, <2>2, <3>1 DEF CounterInv
  <2> QED  BY <1>4, <2>1, <2>2
<1>7. failures' \in Nat /\ (configured => failures' # 0)
  BY <1>1 DEF AskFails, AskMemory, RateTypes
<1>8. SourceInv'
  BY <1>1, <1>2, <1>3, <1>7 DEF SourceInv
<1>9. RateTypes'
  BY <1>1, <1>2, <1>3, <1>5, <1>7 DEF RateTypes
<1> QED  BY <1>3, <1>6, <1>8, <1>9 DEF RateInv

(* So many sets of at most so many elements each.                          *)
LEMMA SetsOfAtMost ==
  ASSUME NEW K, IsFiniteSet(K), NEW L \in Nat, NEW T, NEW S,
         \A k \in K : IsFiniteSet(T[k]) /\ Cardinality(T[k]) <= L,
         \A x \in S : \E k \in K : x \in T[k]
  PROVE  IsFiniteSet(S) /\ Cardinality(S) <= Cardinality(K) * L
<1>1. \A k \in K : \E g : g \in Injection(T[k], 1..L)
  <2> SUFFICES ASSUME NEW k \in K
               PROVE  \E g : g \in Injection(T[k], 1..L)
    OBVIOUS
  <2> DEFINE n == Cardinality(T[k])
  <2>1. n \in Nat /\ ExistsBijection(1..n, T[k]) /\ n <= L
    BY FS_CardinalityType
  <2>2. ExistsBijection(T[k], 1..n)
    BY <2>1, Fun_ExistsBijSymmetric
  <2>3. PICK g : g \in Bijection(T[k], 1..n)
    BY <2>2 DEF ExistsBijection
  <2>4. g \in [T[k] -> 1..n] /\ IsInjective(g)
    BY <2>3 DEF Bijection, Injection
  <2>5. g \in [T[k] -> 1..L]
    <3>1. 1..n \subseteq 1..L
      BY <2>1
    <3> HIDE DEF n
    <3> QED  BY <2>4, <3>1
  <2> QED  BY <2>4, <2>5 DEF Injection
<1> DEFINE g(k) == CHOOSE h : h \in Injection(T[k], 1..L)
           at(x) == CHOOSE k \in K : x \in T[k]
           F == [x \in S |-> <<at(x), g(at(x))[x]>>]
<1>2. \A k \in K : g(k) \in Injection(T[k], 1..L)
  BY <1>1
<1>3. \A x \in S : at(x) \in K /\ x \in T[at(x)]
  OBVIOUS
<1> HIDE DEF g, at
<1>4. \A k \in K : /\ g(k) \in [T[k] -> 1..L]
                   /\ \A x, y \in T[k] : g(k)[x] = g(k)[y] => x = y
  BY <1>2 DEF Injection, IsInjective
<1>5. F \in [S -> K \X (1..L)]
  BY <1>3, <1>4
<1>6. \A x, y \in S : F[x] = F[y] => x = y
  BY <1>3, <1>4
<1>7. F \in Injection(S, K \X (1..L))
  BY <1>5, <1>6 DEF Injection, IsInjective
<1>8. IsFiniteSet(1..L) /\ Cardinality(1..L) = L
  BY FS_Interval, 1 \in Int, L \in Int
<1>9. IsFiniteSet(K \X (1..L)) /\ Cardinality(K \X (1..L)) = Cardinality(K) * L
  BY <1>8, FS_Product
<1> HIDE DEF F
<1> QED  BY <1>7, <1>9, FS_Injection

(* What is in the window is Redis's or a replica's.                        *)
LEMMA WindowIsShared ==
  ASSUME RateInv
  PROVE  Cardinality(InWindow) <= Limit * (Cardinality(Replicas) + 1)
<1> DEFINE U == {i \in InWindow : \E r \in Replicas : i \in bucket[r]}
<1>1. RateTypes /\ CounterInv /\ BucketInv
  BY DEF RateInv
<1>2. /\ Limit \in Nat /\ IsFiniteSet(Replicas) /\ Cardinality(Replicas) \in Nat
  BY RateAssumption, FS_CardinalityType
<1>3. \A r \in Replicas : IsFiniteSet(Recent(r)) /\ Cardinality(Recent(r)) <= Limit
  BY <1>1, WindowsAreFinite DEF BucketInv
<1>4. \A i \in U : \E r \in Replicas : i \in Recent(r)
  BY DEF InWindow, Recent
<1>5. InWindow = U \cup ByRedis
  BY DEF ByRedis
<1> HIDE DEF U
<1>6. IsFiniteSet(U) /\ Cardinality(U) <= Cardinality(Replicas) * Limit
  <2> DEFINE T == [r \in Replicas |-> Recent(r)]
  <2>1. /\ \A r \in Replicas : IsFiniteSet(T[r]) /\ Cardinality(T[r]) <= Limit
        /\ \A i \in U : \E r \in Replicas : i \in T[r]
    BY <1>3, <1>4
  <2> HIDE DEF T
  <2> QED  BY <1>2, <2>1, SetsOfAtMost
<1>7. IsFiniteSet(ByRedis) /\ Cardinality(ByRedis) \in Nat /\ Cardinality(ByRedis) <= Limit
  BY <1>1, WindowsAreFinite DEF CounterInv
<1>8. /\ IsFiniteSet(U \cap ByRedis)
      /\ Cardinality(InWindow) =
           Cardinality(U) + Cardinality(ByRedis) - Cardinality(U \cap ByRedis)
  BY <1>5, <1>6, <1>7, FS_Union, FS_Subset
<1>9. Cardinality(U) \in Nat /\ Cardinality(U \cap ByRedis) \in Nat
  BY <1>6, <1>8, FS_CardinalityType
<1> DEFINE n == Cardinality(Replicas)  u == Cardinality(U)  b == Cardinality(ByRedis)
           c == Cardinality(U \cap ByRedis)
<1>10. n \in Nat /\ u \in Nat /\ b \in Nat /\ c \in Nat /\ u <= n * Limit /\ b <= Limit
  BY <1>2, <1>6, <1>7, <1>9
<1> HIDE DEF n, u, b, c
<1>11. n * Limit + Limit = Limit * (n + 1)
  BY <1>2, <1>10
<1>12. u + b - c <= n * Limit + Limit
  <2>1. n * Limit \in Nat
    BY <1>2, <1>10
  <2> QED  BY <1>2, <1>10, <2>1
<1> QED  BY <1>8, <1>11, <1>12 DEF n, u, b, c

(* RateInv is inductive.                                                   *)
LEMMA RateInvIsInvariant == RateSpec => []RateInv
<1>1. RateInit => RateInv
  <2> SUFFICES ASSUME RateInit PROVE RateInv
    OBVIOUS
  <2>1. InWindow = {} /\ ByRedis = {} /\ \A r \in Replicas : Recent(r) = {}
    BY DEF RateInit, InWindow, ByRedis, Recent
  <2>2. Limit \in Nat /\ Live \in Nat
    BY RateAssumption DEF RateInit, Live
  <2>3. RateTypes
    BY DEF RateInit, RateTypes
  <2>4. Cardinality({}) = 0
    BY FS_EmptySet
  <2>5. CounterInv /\ BucketInv
    BY <2>1, <2>2, <2>4 DEF CounterInv, BucketInv
  <2>6. SourceInv
    BY <2>1 DEF SourceInv, RateInit
  <2> QED  BY <2>3, <2>5, <2>6 DEF RateInv
<1>2. RateInv /\ [RateNext]_rateVars => RateInv'
  <2> SUFFICES ASSUME RateInv, [RateNext]_rateVars PROVE RateInv'
    OBVIOUS
  <2>1. CASE RateNext
    BY <2>1, RedisKeeps, FallbackKeeps, TimeEmpties DEF RateNext
  <2>2. CASE UNCHANGED rateVars
    <3>1. RateTypes' /\ SourceInv'
      BY <2>2 DEF rateVars, RateInv, RateTypes, SourceInv, ByRedis, InWindow
    <3>2. CounterInv'
      BY <2>2 DEF rateVars, RateInv, CounterInv, ByRedis, InWindow, Live
    <3>3. BucketInv'
      BY <2>2 DEF rateVars, RateInv, BucketInv, Recent
    <3> QED  BY <3>1, <3>2, <3>3 DEF RateInv
  <2> QED  BY <2>1, <2>2
<1> QED  BY <1>1, <1>2, PTL DEF RateSpec

(* Every window ever counted is the one of SlidingWindow.                  *)
LEMMA AsAWindow ==
  ASSUME RateInv, [RateNext]_rateVars, ~UNCHANGED windowVars
  PROVE  \/ now' = now + 1 /\ UNCHANGED <<passed, answer>>
         \/ /\ passed' = Append(passed, now) /\ answer' = "pass" /\ now' = now
            /\ \/ configured /\ Live + 1 <= Limit /\ UNCHANGED <<bucket, failures>>
               \/ \E r \in Replicas : /\ AskFails(r) \/ AskMemory(r)
                                      /\ Cardinality(Recent(r)) < Limit
         \/ /\ passed' = passed /\ answer' = "deny" /\ now' = now
            /\ \/ configured
               \/ \E r \in Replicas : Cardinality(Recent(r)) >= Limit
<1>1. CASE AskRedis
  BY <1>1 DEF AskRedis, Decided
<1>2. ASSUME NEW r \in Replicas, AskFails(r) \/ AskMemory(r)
      PROVE  \/ /\ passed' = Append(passed, now) /\ answer' = "pass" /\ now' = now
                /\ Cardinality(Recent(r)) < Limit
             \/ /\ passed' = passed /\ answer' = "deny" /\ now' = now
                /\ ~(Cardinality(Recent(r)) < Limit)
  BY <1>2 DEF AskFails, AskMemory, AllowInMemory, Decided
<1>3. \A r \in Replicas : /\ Cardinality(Recent(r)) \in Nat
                          /\ ~(Cardinality(Recent(r)) < Limit) =>
                               Cardinality(Recent(r)) >= Limit
  BY WindowsAreFinite, RateAssumption DEF RateInv
<1>4. ASSUME NEW r \in Replicas, AskFails(r) \/ AskMemory(r)
      PROVE  \/ /\ passed' = Append(passed, now) /\ answer' = "pass" /\ now' = now
                /\ Cardinality(Recent(r)) < Limit
             \/ /\ passed' = passed /\ answer' = "deny" /\ now' = now
                /\ Cardinality(Recent(r)) >= Limit
  BY <1>2, <1>3, <1>4
<1>5. CASE Pause
  BY <1>5 DEF Pause
<1>6. RateNext
  BY DEF rateVars, windowVars
<1> QED  BY <1>1, <1>4, <1>5, <1>6, Zenon DEF RateNext

(* The three windows count as this module does.                            *)
LEMMA WindowsCount ==
  /\ Safely!Recent = Cardinality(InWindow)
  /\ Exactly!Recent = Cardinality(InWindow)
  /\ Jointly!Recent = Cardinality(InWindow)
<1>1. \A S : /\ Safely!Cardinality(S) = Cardinality(S)
             /\ Exactly!Cardinality(S) = Cardinality(S)
             /\ Jointly!Cardinality(S) = Cardinality(S)
  BY DEF Safely!Cardinality, Exactly!Cardinality, Jointly!Cardinality, Cardinality
<1> QED  BY <1>1 DEF Safely!Recent, Exactly!Recent, Jointly!Recent, InWindow

(* Until Redis fails, no window holds more than Limit messages that        *)
(* passed, whatever the order of questions, time and the key's expiry.     *)
THEOREM RedisStaysSafe == RateSpec => RedisIsSafe
<1>1. RateInit => Safely!WindowInit
  BY DEF RateInit, Safely!WindowInit
<1>2. RateInv /\ RateInv' /\ [RateNext]_rateVars =>
        [configured /\ failures' = 0 => Safely!WindowNext]_windowVars
  <2> SUFFICES ASSUME RateInv, RateInv', [RateNext]_rateVars, ~UNCHANGED windowVars,
                      configured, failures' = 0
               PROVE  Safely!WindowNext
    BY DEF windowVars
  <2>1. Safely!Recent = Cardinality(InWindow)
    BY WindowsCount
  <2>2. CASE now' = now + 1 /\ UNCHANGED <<passed, answer>>
    BY <2>2 DEF Safely!WindowNext, Safely!Tick
  <2>3. CASE passed' = passed /\ answer' = "deny" /\ now' = now
    BY <2>3 DEF Safely!WindowNext, Safely!Deny
  <2>4. CASE /\ passed' = Append(passed, now) /\ answer' = "pass" /\ now' = now
             /\ Live + 1 <= Limit /\ UNCHANGED <<bucket, failures>>
    <3>1. ByRedis = InWindow
      BY <2>4 DEF RateInv, SourceInv, ByRedis
    <3>2. Cardinality(InWindow) <= Live
      BY <3>1 DEF RateInv, CounterInv
    <3>3. Cardinality(InWindow) \in Nat /\ Live \in Nat /\ Limit \in Nat
      BY WindowsAreFinite, RateAssumption DEF RateInv, RateTypes, Live
    <3>4. Cardinality(InWindow) < Limit
      BY <2>4, <3>2, <3>3
    <3> QED  BY <2>1, <2>4, <3>4 DEF Safely!WindowNext, Safely!Pass
  <2>5. ~ \E r \in Replicas : AskFails(r) \/ AskMemory(r)
    <3>1. failures \in Nat
      BY DEF RateInv, RateTypes
    <3>2. failures + 1 # 0
      BY <3>1
    <3> SUFFICES ASSUME NEW r \in Replicas, AskFails(r) \/ AskMemory(r)
                 PROVE  FALSE
      OBVIOUS
    <3>3. CASE AskFails(r)
      BY <3>2, <3>3 DEF AskFails
    <3>4. CASE AskMemory(r)
      BY <3>4 DEF AskMemory
    <3> QED  BY <3>3, <3>4
  <2> QED  BY <2>2, <2>3, <2>4, <2>5, AsAWindow
<1> QED  BY <1>1, <1>2, RateInvIsInvariant, PTL DEF RateSpec, RedisIsSafe

(* Without Redis a single replica is a sliding window: it lets through     *)
(* what the window has room for and denies nothing else.                   *)
THEOREM MemoryStaysExact == RateSpec => MemoryIsExact
<1>1. RateInit => Exactly!WindowInit
  BY DEF RateInit, Exactly!WindowInit
<1>2. RateInv /\ [RateNext]_rateVars =>
        [~configured /\ Cardinality(Replicas) = 1 => Exactly!WindowNext]_windowVars
  <2> SUFFICES ASSUME RateInv, [RateNext]_rateVars, ~UNCHANGED windowVars,
                      ~configured, Cardinality(Replicas) = 1
               PROVE  Exactly!WindowNext
    BY DEF windowVars
  <2>1. Exactly!Recent = Cardinality(InWindow)
    BY WindowsCount
  <2>2. PICK q : Replicas = {q}
    BY RateAssumption, FS_Singleton
  <2>3. InWindow = Recent(q)
    BY <2>2 DEF RateInv, RateTypes, SourceInv, ByRedis, InWindow, Recent
  <2>4. CASE now' = now + 1 /\ UNCHANGED <<passed, answer>>
    BY <2>4 DEF Exactly!WindowNext, Exactly!Tick
  <2>5. CASE /\ passed' = passed /\ answer' = "deny" /\ now' = now
             /\ \E r \in Replicas : Cardinality(Recent(r)) >= Limit
    BY <2>1, <2>2, <2>3, <2>5 DEF Exactly!WindowNext, Exactly!Deny
  <2>6. CASE /\ passed' = Append(passed, now) /\ answer' = "pass" /\ now' = now
             /\ \E r \in Replicas : Cardinality(Recent(r)) < Limit
    BY <2>1, <2>2, <2>3, <2>6 DEF Exactly!WindowNext, Exactly!Pass
  <2> QED  BY <2>4, <2>5, <2>6, AsAWindow
<1> QED  BY <1>1, <1>2, RateInvIsInvariant, PTL DEF RateSpec, MemoryIsExact

(* However Redis comes and goes, a window holds no more than one limit for *)
(* it and one for each replica.                                            *)
THEOREM FallbackStaysBounded == RateSpec => FallbackIsBounded
<1>1. RateInit => Jointly!WindowInit
  BY DEF RateInit, Jointly!WindowInit
<1>2. RateInv /\ RateInv' /\ [RateNext]_rateVars => [Jointly!WindowNext]_windowVars
  <2> SUFFICES ASSUME RateInv, RateInv', [RateNext]_rateVars, ~UNCHANGED windowVars
               PROVE  Jointly!WindowNext
    BY DEF windowVars
  <2>1. Jointly!Recent = Cardinality(InWindow)
    BY WindowsCount
  <2>2. CASE now' = now + 1 /\ UNCHANGED <<passed, answer>>
    BY <2>2 DEF Jointly!WindowNext, Jointly!Tick
  <2>3. CASE passed' = passed /\ answer' = "deny" /\ now' = now
    BY <2>3 DEF Jointly!WindowNext, Jointly!Deny
  <2>4. CASE passed' = Append(passed, now) /\ answer' = "pass" /\ now' = now
    <3> DEFINE new == Len(passed) + 1
    <3>1. InWindow' = InWindow \cup {new} /\ new \notin InWindow
      BY <2>4, PassEntersWindow DEF RateInv, RateTypes, InWindow
    <3>2. IsFiniteSet(InWindow) /\ Cardinality(InWindow) \in Nat
      BY WindowsAreFinite DEF RateInv
    <3>3. Cardinality(InWindow') = Cardinality(InWindow) + 1
      BY <3>1, <3>2, FS_AddElement
    <3>4. Cardinality(InWindow') <= Limit * (Cardinality(Replicas) + 1)
      <4>1. (Cardinality(InWindow) <= Limit * (Cardinality(Replicas) + 1))'
        BY WindowIsShared, PTL
      <4> QED  BY <4>1
    <3>5. Limit * (Cardinality(Replicas) + 1) \in Nat
      BY RateAssumption, FS_CardinalityType
    <3>6. Cardinality(InWindow) < Limit * (Cardinality(Replicas) + 1)
      BY <3>2, <3>3, <3>4, <3>5
    <3> QED  BY <2>1, <2>4, <3>6 DEF Jointly!WindowNext, Jointly!Pass
  <2> QED  BY <2>2, <2>3, <2>4, AsAWindow
<1> QED  BY <1>1, <1>2, RateInvIsInvariant, PTL
         DEF RateSpec, FallbackIsBounded, Jointly!WindowSpec, windowVars
=============================================================================
