------------------------------ MODULE Webhook -------------------------------
(***************************************************************************)
(* Incoming LINE messages (webhook in backend/api/main.py) of one tenant.  *)
(*                                                                         *)
(* A request carries several messages.  For each the handler asks the rate *)
(* limiter, reads the lead and the newest campaign into its session,       *)
(* changes them there, replies to LINE, and goes on; the session is        *)
(* written in one transaction when all are done.  The handler is a         *)
(* coroutine that never yields, so an API replica runs one at a time; the  *)
(* replicas run side by side, and so do the threads that serve the edits   *)
(* of the dashboard (update_lead) and the workers (process_message).       *)
(*                                                                         *)
(* The session is SQLAlchemy's, without autoflush: a row is loaded once    *)
(* per request, queries do not see what is pending, and an UPDATE sets the *)
(* columns that differ from what was loaded.                               *)
(***************************************************************************)
EXTENDS Integers, Sequences, FiniteSets, LeadScoring

CONSTANTS
  Replicas,       \* API replicas
  Editors,        \* threads that serve PATCH /api/leads/{lead_id}
  Users,          \* LINE users of the tenant
  Payloads,       \* the requests LINE may send: sequences of messages
  EditedStatuses, \* what an edit may set the status to
  EditedPrices,   \* what an edit may set the price to
  MaxCampaigns,   \* bound on the campaigns
  MaxRequests,    \* bound on the requests LINE sends
  MaxEdits,       \* bound on the edits
  MaxWorker,      \* bound on the message events a worker persists
  MaxDenials,     \* bound on the requests answered 429
  MaxFailures,    \* bound on what fails: a LINE call, a statement, a replica
  NoLead

SalePrice == 299

(* The ids of campaigns, in the order of creation.                         *)
Campaigns == 1 .. MaxCampaigns

Messages == [user : Users, text : Texts]
Leads == [phone : BOOLEAN, interest : Texts, score : Scores,
          status : Stages, price : Nat]

ASSUME WebhookAssumption ==
  /\ Payloads \subseteq Seq(Messages) \ {<<>>}
  /\ EditedStatuses \subseteq Stages
  /\ EditedPrices \subseteq Nat
  /\ NoLead \notin Leads
  /\ "idle" \notin Users
  /\ {MaxCampaigns, MaxRequests, MaxEdits, MaxWorker,
      MaxDenials, MaxFailures} \subseteq Nat

VARIABLES
  leads,      \* table leads: a row or NoLead for each user
  newest,     \* the id of the newest campaign, 0 when there is none
  replyCount, \* campaigns.reply_count
  pc, todo,   \* a replica's handler: where it is, the messages it has left
  loaded,     \* its session: the rows as they were loaded
  current,    \*              and as they are now
  fresh,      \*              new leads, not yet inserted
  added,      \*              replies counted for each campaign
  countRead,  \*              on top of this loaded reply_count
  epc, eRow, eNow,  \* an edit: where it is, the lead as loaded and as edited
  counted,    \* history: committed messages that count for a campaign
  overlapped, \* history: whether a request ever ran beside another request or
              \*          a worker's event
  budget      \* what is left of the bounds

tables  == <<leads, newest, replyCount>>
session == <<loaded, current, fresh, added, countRead>>
edits   == <<epc, eRow, eNow>>
vars == <<tables, pc, todo, session, edits, counted, overlapped,
          budget>>

Nobody == [u \in Users |-> NoLead]
NoCount == [c \in Campaigns |-> 0]

Spend(kind) == /\ budget[kind] > 0
               /\ budget' = [budget EXCEPT ![kind] = @ - 1]

(***************************************************************************)
(* The handler                                                             *)
(***************************************************************************)
(* A request with a valid signature, for a tenant that exists; events that *)
(* are not messages with a text are skipped and left out.                  *)
Receive(r) ==
  /\ pc[r] = "idle"
  /\ Spend("request")
  /\ \E p \in Payloads : todo' = [todo EXCEPT ![r] = p]
  /\ pc' = [pc EXCEPT ![r] = "limit"]
  /\ overlapped' = (overlapped \/ \E q \in Replicas \ {r} : pc[q] # "idle")
  /\ UNCHANGED <<tables, session, edits, counted>>

(* check_rate_limit lets the message pass.                                 *)
PassLimit(r) ==
  /\ pc[r] = "limit"
  /\ pc' = [pc EXCEPT ![r] = "lead"]
  /\ UNCHANGED <<tables, todo, session, edits, counted, budget,
                 overlapped>>

(* The first message of a user makes a lead; its phone earns no points.    *)
NewLead(t) ==
  LET score == CalculateScore(t, FALSE)
      status == DetermineStatus(t, score)
  IN [phone |-> t.phone, interest |-> t, score |-> score, status |-> status,
      price |-> IF status = "closed" THEN SalePrice ELSE 0]

(* Mutant of ChangedLead: a closed lead stays closed.                      *)
ChangedLeadStuck(lead, t) ==
  LET phone == t.phone \/ lead.phone
      score == CalculateScore(t, phone)
      status == IF lead.status = "closed" THEN "closed"
                                          ELSE DetermineStatus(t, score)
  IN [phone |-> phone, interest |-> t, score |-> score, status |-> status,
      price |-> IF lead.price = 0 /\ status = "closed"
                THEN SalePrice ELSE lead.price]

(* Mutant of ChangedLead: the phone is that of the message, found or not.  *)
ChangedLeadForgets(lead, t) ==
  LET score == CalculateScore(t, t.phone)
      status == DetermineStatus(t, score)
  IN [phone |-> t.phone, interest |-> t, score |-> score, status |-> status,
      price |-> IF lead.price = 0 /\ status = "closed"
                THEN SalePrice ELSE lead.price]

(* A further message changes it.                                           *)
ChangedLead(lead, t) ==
  LET phone == t.phone \/ lead.phone
      score == CalculateScore(t, phone)
      status == DetermineStatus(t, score)
  IN [phone |-> phone, interest |-> t, score |-> score, status |-> status,
      price |-> IF lead.price = 0 /\ status = "closed"
                THEN SalePrice ELSE lead.price]

(* The query finds the row the session has, or one of the table.           *)
ReadLead(r) ==
  /\ pc[r] = "lead"
  /\ LET u == Head(todo[r]).user
         t == Head(todo[r]).text
         row == IF current[r][u] # NoLead THEN current[r][u] ELSE leads[u]
     IN IF row = NoLead
        THEN /\ fresh' = [fresh EXCEPT ![r] =
                            Append(@, [user |-> u, row |-> NewLead(t)])]
             /\ UNCHANGED <<loaded, current>>
        ELSE /\ loaded' = [loaded EXCEPT ![r][u] =
                             IF current[r][u] # NoLead THEN @ ELSE row]
             /\ current' = [current EXCEPT ![r][u] = ChangedLead(row, t)]
             /\ UNCHANGED fresh
  /\ pc' = [pc EXCEPT ![r] = "campaign"]
  /\ UNCHANGED <<tables, todo, added, countRead, edits, counted,
                 budget, overlapped>>

(* Mutant of ReadCampaign: reply_count is read again for each message and  *)
(* counted on top of what the session has counted already.                 *)
ReadCampaignAgain(r) ==
  /\ pc[r] = "campaign"
  /\ IF newest = 0
     THEN UNCHANGED <<added, countRead>>
     ELSE /\ countRead' = [countRead EXCEPT ![r][newest] =
                             replyCount[newest] + added[r][newest]]
          /\ added' = [added EXCEPT ![r][newest] = @ + 1]
  /\ pc' = [pc EXCEPT ![r] = "reply"]
  /\ UNCHANGED <<tables, todo, loaded, current, fresh, edits, counted,
                 budget, overlapped>>

(* The newest campaign gets a reply, in the session.                       *)
ReadCampaign(r) ==
  /\ pc[r] = "campaign"
  /\ IF newest = 0
     THEN UNCHANGED <<added, countRead>>
     ELSE /\ countRead' = [countRead EXCEPT ![r][newest] =
                             IF added[r][newest] > 0 THEN @
                                                     ELSE replyCount[newest]]
          /\ added' = [added EXCEPT ![r][newest] = @ + 1]
  /\ pc' = [pc EXCEPT ![r] = "reply"]
  /\ UNCHANGED <<tables, todo, loaded, current, fresh, edits, counted,
                 budget, overlapped>>

(* send_line_reply; an HTTP error is not looked at.                        *)
Reply(r) ==
  /\ pc[r] = "reply"
  /\ todo' = [todo EXCEPT ![r] = Tail(@)]
  /\ pc' = [pc EXCEPT ![r] = IF Tail(todo[r]) = <<>> THEN "commit" ELSE "limit"]
  /\ UNCHANGED <<tables, loaded, current, fresh, added, countRead, edits,
                 counted, budget, overlapped>>

(* The session is closed; what it holds is gone.                           *)
CloseSession(r) ==
  /\ loaded' = [loaded EXCEPT ![r] = Nobody]
  /\ current' = [current EXCEPT ![r] = Nobody]
  /\ fresh' = [fresh EXCEPT ![r] = <<>>]
  /\ added' = [added EXCEPT ![r] = NoCount]
  /\ countRead' = [countRead EXCEPT ![r] = NoCount]
  /\ todo' = [todo EXCEPT ![r] = <<>>]
  /\ pc' = [pc EXCEPT ![r] = "idle"]

(* An UPDATE sets the columns whose values are not those loaded.           *)
Column(kept, was, now) == IF now = was THEN kept ELSE now

Updated(row, was, now) ==
  [phone    |-> Column(row.phone, was.phone, now.phone),
   interest |-> Column(row.interest, was.interest, now.interest),
   score    |-> Column(row.score, was.score, now.score),
   status   |-> Column(row.status, was.status, now.status),
   price    |-> Column(row.price, was.price, now.price)]

(* uq_leads_tenant_user: a new lead is in the table, or twice in the       *)
(* session.                                                                *)
Clash(r) ==
  \E i \in DOMAIN fresh[r] :
    \/ leads[fresh[r][i].user] # NoLead
    \/ \E j \in DOMAIN fresh[r] \ {i} : fresh[r][j].user = fresh[r][i].user

Inserted(r, u) == {fresh[r][i].row : i \in {j \in DOMAIN fresh[r] :
                                               fresh[r][j].user = u}}

(* The row a commit leaves for a user.                                     *)
WrittenLead(r, u) ==
  IF Inserted(r, u) # {} THEN CHOOSE row \in Inserted(r, u) : TRUE
  ELSE IF current[r][u] # NoLead
       THEN Updated(leads[u], loaded[r][u], current[r][u])
       ELSE leads[u]

Commit(r) ==
  /\ pc[r] = "commit"
  /\ ~Clash(r)
  /\ leads' = [u \in Users |-> WrittenLead(r, u)]
  /\ replyCount' = [c \in Campaigns |-> IF added[r][c] > 0
                                        THEN countRead[r][c] + added[r][c]
                                        ELSE replyCount[c]]
  /\ counted' = [c \in Campaigns |-> counted[c] + added[r][c]]
  /\ CloseSession(r)
  /\ UNCHANGED <<newest, edits, budget, overlapped>>

(* The commit raises: the request is answered 500.                         *)
CommitClashes(r) ==
  /\ pc[r] = "commit"
  /\ Clash(r)
  /\ CloseSession(r)
  /\ UNCHANGED <<tables, edits, counted, budget, overlapped>>

(* check_rate_limit denies a message: the request is answered 429.         *)
Deny(r) ==
  /\ pc[r] = "limit"
  /\ Spend("deny")
  /\ CloseSession(r)
  /\ UNCHANGED <<tables, edits, counted, overlapped>>

(* send_line_reply raises, and the reply may have reached LINE.            *)
ReplyRaises(r) ==
  /\ pc[r] = "reply"
  /\ Spend("failure")
  /\ CloseSession(r)
  /\ UNCHANGED <<tables, edits, counted, overlapped>>

(* A statement raises, or the replica dies.                                *)
Abort(r) ==
  /\ pc[r] # "idle"
  /\ Spend("failure")
  /\ CloseSession(r)
  /\ UNCHANGED <<tables, edits, counted, overlapped>>

(***************************************************************************)
(* The others who write the same tables                                    *)
(***************************************************************************)
(* update_lead, with a valid status or none and a price or none.           *)
EditRead(e) ==
  /\ epc[e] = "idle"
  /\ Spend("edit")
  /\ \E u \in Users :
       /\ leads[u] # NoLead
       /\ \E s \in EditedStatuses \cup {leads[u].status},
             p \in EditedPrices \cup {leads[u].price} :
            /\ eRow' = [eRow EXCEPT ![e] = leads[u]]
            /\ eNow' = [eNow EXCEPT ![e] = [leads[u] EXCEPT !.status = s,
                                                            !.price = p]]
       /\ epc' = [epc EXCEPT ![e] = u]
  /\ UNCHANGED <<tables, pc, todo, session, counted, overlapped>>

EditCommit(e) ==
  /\ epc[e] # "idle"
  /\ leads' = [leads EXCEPT ![epc[e]] = Updated(@, eRow[e], eNow[e])]
  /\ epc' = [epc EXCEPT ![e] = "idle"]
  /\ eRow' = [eRow EXCEPT ![e] = NoLead]
  /\ eNow' = [eNow EXCEPT ![e] = NoLead]
  /\ UNCHANGED <<newest, replyCount, pc, todo, session, counted,
                 budget, overlapped>>

(* create_broadcast commits a campaign.                                    *)
CreateCampaign ==
  /\ newest + 1 \in Campaigns
  /\ newest' = newest + 1
  /\ UNCHANGED <<leads, replyCount, pc, todo, session, edits, counted,
                 budget, overlapped>>

(* process_message with a campaign: the row and the count in a             *)
(* transaction, the count raised by the database.                          *)
WorkerMessage ==
  /\ Spend("worker")
  /\ \E c \in 1 .. newest :
       /\ replyCount' = [replyCount EXCEPT ![c] = @ + 1]
       /\ counted' = [counted EXCEPT ![c] = @ + 1]
  /\ overlapped' = (overlapped \/ \E r \in Replicas : pc[r] # "idle")
  /\ UNCHANGED <<leads, newest, pc, todo, session, edits>>

(***************************************************************************)
(* The specification                                                       *)
(***************************************************************************)
Init ==
  /\ leads = Nobody
  /\ newest = 0
  /\ replyCount = NoCount
  /\ pc = [r \in Replicas |-> "idle"]
  /\ todo = [r \in Replicas |-> <<>>]
  /\ loaded = [r \in Replicas |-> Nobody]
  /\ current = [r \in Replicas |-> Nobody]
  /\ fresh = [r \in Replicas |-> <<>>]
  /\ added = [r \in Replicas |-> NoCount]
  /\ countRead = [r \in Replicas |-> NoCount]
  /\ epc = [e \in Editors |-> "idle"]
  /\ eRow = [e \in Editors |-> NoLead]
  /\ eNow = [e \in Editors |-> NoLead]
  /\ counted = NoCount
  /\ overlapped = FALSE
  /\ budget = [request |-> MaxRequests, edit |-> MaxEdits,
               worker |-> MaxWorker, deny |-> MaxDenials, failure |-> MaxFailures]

HandlerStep(r) ==
  \/ PassLimit(r)
  \/ ReadLead(r)
  \/ ReadCampaign(r)
  \/ Reply(r)
  \/ Commit(r)
  \/ CommitClashes(r)

HandlerFails(r) == Deny(r) \/ ReplyRaises(r) \/ Abort(r)

Next ==
  \/ \E r \in Replicas : Receive(r) \/ HandlerStep(r) \/ HandlerFails(r)
  \/ \E e \in Editors : EditRead(e) \/ EditCommit(e)
  \/ CreateCampaign
  \/ WorkerMessage

Spec == Init /\ [][Next]_vars

(***************************************************************************)
(* Properties                                                              *)
(***************************************************************************)
TypeOK ==
  /\ leads \in [Users -> Leads \cup {NoLead}]
  /\ newest \in Nat
  /\ replyCount \in [Campaigns -> Nat]
  /\ pc \in [Replicas -> {"idle", "limit", "lead", "campaign", "reply", "commit"}]
  /\ todo \in [Replicas -> Seq(Messages)]
  /\ \A r \in Replicas : todo[r] = <<>> <=> pc[r] \in {"idle", "commit"}
  /\ loaded \in [Replicas -> [Users -> Leads \cup {NoLead}]]
  /\ current \in [Replicas -> [Users -> Leads \cup {NoLead}]]
  /\ fresh \in [Replicas -> Seq([user : Users, row : Leads])]
  /\ added \in [Replicas -> [Campaigns -> Nat]]
  /\ countRead \in [Replicas -> [Campaigns -> Nat]]
  /\ epc \in [Editors -> Users \cup {"idle"}]
  /\ eRow \in [Editors -> Leads \cup {NoLead}]
  /\ eNow \in [Editors -> Leads \cup {NoLead}]
  /\ counted \in [Campaigns -> Nat]
  /\ overlapped \in BOOLEAN
  /\ budget \in [{"request", "edit", "worker", "deny", "failure"} -> Nat]

(* No campaign shows more replies than messages that count for it: rows    *)
(* rolled back are not counted and none is counted twice, whatever the     *)
(* other replicas and the workers add meanwhile.                           *)
CountBacked == \A c \in Campaigns : replyCount[c] <= counted[c]

(* Only requests that overlap lose a reply: one after the other, whatever  *)
(* fails in them and however many messages of a session count for the      *)
(* campaign, none is missed either.                                        *)
CountExact ==
  ~overlapped => \A c \in Campaigns : replyCount[c] = counted[c]

(* A lead that is known stays, with its phone and whatever it was sold     *)
(* for: nobody's stale copy of the row clears them, only an edit sets a    *)
(* price to zero.                                                          *)
NothingErased ==
  [][\A u \in Users : leads[u] # NoLead =>
       /\ leads'[u] # NoLead
       /\ leads[u].phone => leads'[u].phone
       /\ leads[u].price # 0 /\ leads'[u].price = 0
            => \E e \in Editors : epc[e] = u /\ eNow[e].price = 0]_vars

(* Score and status are those of one message, as long as requests do not   *)
(* overlap and nobody edits the lead: a session that is rolled back, or    *)
(* handles several messages of a user, does not mix them.                  *)
LeadIsOfOneMessage ==
  ~overlapped /\ budget.edit = MaxEdits =>
    \A u \in Users : leads[u] # NoLead =>
      LET lead == leads[u]
      IN /\ \E phone \in BOOLEAN :
              lead.score = CalculateScore(lead.interest, phone)
         /\ lead.status = DetermineStatus(lead.interest, lead.score)

(* A request that no other one competes with can be committed.             *)
FirstRequestIsStored ==
  \A r \in Replicas : pc[r] = "commit" => ~Clash(r)
=============================================================================
