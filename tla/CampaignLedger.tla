--------------------------- MODULE CampaignLedger ---------------------------
(***************************************************************************)
(* What the database shows of a broadcast campaign, and nothing else: the  *)
(* rows of `campaigns` (delivery_status, sent_count) and the outbound rows *)
(* of `messages` that carry the campaign's id.  Whoever delivers a         *)
(* campaign, an API handler or a worker, and however often, a reader of    *)
(* the database sees it move by two kinds of atomic step only: it is       *)
(* created, or a delivery attempt settles and its message rows, its count  *)
(* and its status appear together.                                         *)
(***************************************************************************)
EXTENDS Naturals, FiniteSets

CONSTANTS
  Campaigns,   \* campaign ids
  Leads        \* lead user ids

VARIABLES
  status,      \* campaigns.delivery_status, or "absent" before the insert
  sentCount,   \* campaigns.sent_count
  rows         \* outbound message rows of a campaign for a lead

ledgerVars == <<status, sentCount, rows>>

Outcomes == {"sent", "partial", "failed"}

LedgerInit ==
  /\ status = [c \in Campaigns |-> "absent"]
  /\ sentCount = [c \in Campaigns |-> 0]
  /\ rows = [p \in Campaigns \X Leads |-> 0]

(* The insert of a campaign, committed with the status "queued".           *)
Open(c) ==
  /\ status[c] = "absent"
  /\ status' = [status EXCEPT ![c] = "queued"]
  /\ UNCHANGED <<sentCount, rows>>

(* A delivery attempt that recorded one message for each lead in S and had *)
(* a failure iff `failed`.                                                 *)
OutcomeOf(S, failed) ==
  IF ~failed THEN "sent" ELSE IF S # {} THEN "partial" ELSE "failed"

Settle(c, S, failed) ==
  /\ status[c] # "absent"
  /\ status' = [status EXCEPT ![c] = OutcomeOf(S, failed)]
  /\ sentCount' = [sentCount EXCEPT ![c] = Cardinality(S)]
  /\ rows' = [p \in Campaigns \X Leads |->
                IF p[1] = c /\ p[2] \in S THEN rows[p] + 1 ELSE rows[p]]

LedgerNext ==
  \E c \in Campaigns :
    \/ Open(c)
    \/ \E S \in SUBSET Leads, failed \in BOOLEAN : Settle(c, S, failed)

LedgerSpec == LedgerInit /\ [][LedgerNext]_ledgerVars
=============================================================================
