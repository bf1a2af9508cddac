------------------------------- MODULE Ledgers ------------------------------
(***************************************************************************)
(* The two ledgers of core/affiliate and marketplace: a referral credits   *)
(* its referrer, a purchase gives a user a bot.  Each call is a PostgreSQL *)
(* transaction; calls overlap, lose their connection and are sent again.   *)
(***************************************************************************)
EXTENDS Integers, FiniteSets

CONSTANTS
  Users,
  Bots,
  Referrals,   \* calls of createReferral
  Purchases,   \* calls of purchaseBot
  NoOne        \* a call that has not come yet is about nobody

ASSUME LedgerAssumption == Referrals \cap Purchases = {}

VARIABLES
  referrals,   \* the rows <<referrer, referee>>
  credits,     \* users.credits
  ownership,   \* the rows <<user, bot>> of user_bots
  activeBots,
  call         \* [pc, of] of each call: what it waits for, and its two arguments

ledgerVars == <<referrals, credits, ownership, activeBots, call>>

Calls == Referrals \cup Purchases

LedgerInit ==
  /\ referrals = {} /\ ownership = {} /\ activeBots = Bots
  /\ credits = [u \in Users |-> 0]
  /\ call = [c \in Calls |-> [pc |-> "new", of |-> <<NoOne, NoOne>>]]

(* The transactions that hold a row: an insert waits for the end of one    *)
(* that inserted the same pair, an update or FOR UPDATE for one that has   *)
(* the row of its user or bot.                                             *)
Holding(states) == {c \in Calls : call[c].pc \in states}

InsertFree(pair) ==
  \A d \in Holding({"inserted", "awarded"}) : d \in Referrals => call[d].of # pair

Moves(c, state, of) == call' = [call EXCEPT ![c] = [pc |-> state, of |-> of]]

(* Mutant: the row is looked up, and inserted by whoever did not see it.   *)
InsertReferralUnlocked(c, pair) ==
  /\ c \in Referrals /\ call[c].pc = "new"
  /\ pair[1] # pair[2]
  /\ Moves(c, IF pair \in referrals THEN "existed" ELSE "inserted", pair)
  /\ UNCHANGED <<referrals, credits, ownership, activeBots>>

(* INSERT ... ON CONFLICT DO NOTHING.  A user cannot refer itself.         *)
InsertReferral(c, pair) ==
  /\ c \in Referrals /\ call[c].pc = "new"
  /\ pair[1] # pair[2]
  /\ InsertFree(pair)
  /\ Moves(c, IF pair \in referrals THEN "existed" ELSE "inserted", pair)
  /\ UNCHANGED <<referrals, credits, ownership, activeBots>>

AwardReferralCredit(c) ==
  /\ c \in Referrals /\ call[c].pc = "inserted"
  /\ \A d \in Holding({"awarded"}) : call[d].of[1] # call[c].of[1]
  /\ Moves(c, "awarded", call[c].of)
  /\ UNCHANGED <<referrals, credits, ownership, activeBots>>

(* COMMIT; its answer can be lost.                                         *)
CommitReferral(c, answer) ==
  /\ c \in Referrals /\ call[c].pc = "awarded"
  /\ referrals' = referrals \cup {call[c].of}
  /\ credits' = [credits EXCEPT ![call[c].of[1]] = @ + 10]
  /\ Moves(c, answer, call[c].of)
  /\ UNCHANGED <<ownership, activeBots>>

(* SELECT ... FOR UPDATE; without an active bot the call throws.           *)
SelectBot(c, user, bot) ==
  /\ c \in Purchases /\ call[c].pc = "new"
  /\ \A d \in Holding({"locked"}) : call[d].of[2] # bot
  /\ Moves(c, IF bot \in activeBots THEN "locked" ELSE "failed", <<user, bot>>)
  /\ UNCHANGED <<referrals, credits, ownership, activeBots>>

(* INSERT and COMMIT of a purchase: a bot that is owned stays owned.       *)
CommitPurchase(c, answer) ==
  /\ c \in Purchases /\ call[c].pc = "locked"
  /\ ownership' = ownership \cup {call[c].of}
  /\ Moves(c, answer, call[c].of)
  /\ UNCHANGED <<referrals, credits, activeBots>>

(* A query throws: ROLLBACK, or the lost connection does it.               *)
RollBack(c) ==
  /\ call[c].pc \in {"inserted", "awarded", "locked"}
  /\ Moves(c, "failed", call[c].of)
  /\ UNCHANGED <<referrals, credits, ownership, activeBots>>

(* The owner of a bot takes it off the market (not in this code).          *)
Deactivate(bot) ==
  /\ bot \in activeBots
  /\ \A d \in Holding({"locked"}) : call[d].of[2] # bot
  /\ activeBots' = activeBots \ {bot}
  /\ UNCHANGED <<referrals, credits, ownership, call>>

ReferralNext ==
  \E c \in Referrals :
    \/ \E u \in Users, v \in Users : InsertReferral(c, <<u, v>>)
    \/ AwardReferralCredit(c)
    \/ \E answer \in {"done", "failed"} : CommitReferral(c, answer)
    \/ RollBack(c)

PurchaseNext ==
  \/ \E c \in Purchases :
       \/ \E u \in Users, b \in Bots : SelectBot(c, u, b)
       \/ \E answer \in {"done", "failed"} : CommitPurchase(c, answer)
       \/ RollBack(c)
  \/ \E b \in Bots : Deactivate(b)

LedgerNext == ReferralNext \/ PurchaseNext

LedgerSpec == LedgerInit /\ [][LedgerNext]_ledgerVars

(***************************************************************************)
(* Rewards are idempotent, as docs/final-enterprise-upgrade.md:6 has it: a *)
(* referrer has ten credits for each row of its referrals, however often   *)
(* the same referral is sent, overlaps itself or fails; and a call that    *)
(* succeeded or found its row has it there, as a purchase has its bot.     *)
(***************************************************************************)
ReferralsArePaidOnce ==
  /\ \A u \in Users : credits[u] = 10 * Cardinality({p \in referrals : p[1] = u})
  /\ \A c \in Calls :
       call[c].pc \in {"done", "existed"} =>
         call[c].of \in IF c \in Referrals THEN referrals ELSE ownership
=============================================================================
