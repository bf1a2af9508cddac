--------------------------- MODULE WebhookProofs ----------------------------
(***************************************************************************)
(* What TLAPS proves of Webhook, for any number of replicas, editors,      *)
(* users, requests and failures: types are kept; reply counts are backed   *)
(* by messages, and exact while requests do not overlap; no stale copy of  *)
(* a lead erases its phone or its price, and a lead that only requests     *)
(* write, one at a time, is of one message.                                *)
(***************************************************************************)
EXTENDS Webhook, TLAPS

(***************************************************************************)
(* Reply counts                                                            *)
(***************************************************************************)
(* A session that counts replies read no more than was committed.          *)
CountInv ==
  /\ newest \in 0 .. MaxCampaigns
  /\ replyCount \in [Campaigns -> Nat]
  /\ counted \in [Campaigns -> Nat]
  /\ added \in [Replicas -> [Campaigns -> Nat]]
  /\ countRead \in [Replicas -> [Campaigns -> Nat]]
  /\ \A r \in Replicas, c \in Campaigns :
       added[r][c] > 0 => countRead[r][c] <= counted[c]
  /\ CountBacked

(* It holds before anything was counted.                                   *)
LEMMA CountInit == Init => CountInv
BY WebhookAssumption
   DEF Init, CountInv, NoCount, CountBacked, WebhookAssumption

(* Closing a session forgets what it counted.                              *)
LEMMA CountClose ==
  ASSUME CountInv, NEW r \in Replicas, CloseSession(r),
         UNCHANGED <<newest, replyCount, counted>>
  PROVE  CountInv'
BY DEF CloseSession, CountInv, CountBacked, NoCount

(* The campaign's count as it is read is backed.                           *)
LEMMA CountRead ==
  ASSUME CountInv, NEW r \in Replicas, ReadCampaign(r)
  PROVE  CountInv'
<1> USE DEF CountInv, CountBacked
<1>1. /\ newest' = newest /\ replyCount' = replyCount /\ counted' = counted
  BY DEF ReadCampaign, tables
<1>2. CASE newest = 0
  BY <1>1, <1>2 DEF ReadCampaign
<1>3. CASE newest # 0
  <2>1. newest \in Campaigns
    BY <1>3, WebhookAssumption DEF Campaigns, WebhookAssumption
  <2>2. /\ countRead' = [countRead EXCEPT ![r][newest] =
                           IF added[r][newest] > 0 THEN countRead[r][newest]
                                                   ELSE replyCount[newest]]
        /\ added' = [added EXCEPT ![r][newest] = added[r][newest] + 1]
    BY <1>3 DEF ReadCampaign
  <2>3. /\ countRead' \in [Replicas -> [Campaigns -> Nat]]
        /\ added' \in [Replicas -> [Campaigns -> Nat]]
    BY <2>1, <2>2
  <2>4. ASSUME NEW s \in Replicas, NEW c \in Campaigns, added'[s][c] > 0
        PROVE  countRead'[s][c] <= counted[c]
    <3>1. CASE s = r /\ c = newest
      BY <2>1, <2>2, <3>1
    <3>2. CASE ~(s = r /\ c = newest)
      <4>1. countRead'[s][c] = countRead[s][c] /\ added'[s][c] = added[s][c]
        BY <2>1, <2>2, <3>2
      <4> QED BY <2>4, <4>1
    <3> QED BY <3>1, <3>2
  <2> QED BY <1>1, <2>3, <2>4
<1> QED BY <1>2, <1>3

(* What a session writes is what it read and what it commits.              *)
LEMMA CountCommit ==
  ASSUME CountInv, NEW r \in Replicas, Commit(r)
  PROVE  CountInv'
<1> USE DEF CountInv, CountBacked
<1>1. /\ newest' = newest
      /\ replyCount' = [c \in Campaigns |-> IF added[r][c] > 0
                                            THEN countRead[r][c] + added[r][c]
                                            ELSE replyCount[c]]
      /\ counted' = [c \in Campaigns |-> counted[c] + added[r][c]]
      /\ added' = [added EXCEPT ![r] = NoCount]
      /\ countRead' = [countRead EXCEPT ![r] = NoCount]
  BY DEF Commit, CloseSession
<1>2. /\ replyCount' \in [Campaigns -> Nat] /\ counted' \in [Campaigns -> Nat]
      /\ added' \in [Replicas -> [Campaigns -> Nat]]
      /\ countRead' \in [Replicas -> [Campaigns -> Nat]]
  BY <1>1 DEF NoCount
<1>3. ASSUME NEW c \in Campaigns
      PROVE  counted[c] <= counted'[c] /\ replyCount'[c] <= counted'[c]
  BY <1>1
<1>4. ASSUME NEW s \in Replicas, NEW c \in Campaigns, added'[s][c] > 0
      PROVE  countRead'[s][c] <= counted'[c]
  <2>1. s # r
    BY <1>1, <1>4 DEF NoCount
  <2>2. countRead'[s][c] = countRead[s][c] /\ added[s][c] > 0
    BY <1>1, <1>4, <2>1
  <2> QED BY <1>2, <1>3, <2>2
<1> QED BY <1>1, <1>2, <1>3, <1>4

(* The worker raises count and messages together.                          *)
LEMMA CountWorker ==
  ASSUME CountInv, WorkerMessage
  PROVE  CountInv'
<1> USE DEF CountInv, CountBacked
<1>1. PICK c \in 1 .. newest :
        /\ replyCount' = [replyCount EXCEPT ![c] = replyCount[c] + 1]
        /\ counted' = [counted EXCEPT ![c] = counted[c] + 1]
  BY DEF WorkerMessage
<1>2. c \in Campaigns
  BY WebhookAssumption DEF Campaigns, WebhookAssumption
<1>3. newest' = newest /\ added' = added /\ countRead' = countRead
  BY DEF WorkerMessage, session
<1>4. \A d \in Campaigns : /\ counted[d] <= counted'[d]
                           /\ replyCount'[d] <= counted'[d]
  BY <1>1, <1>2
<1>5. replyCount' \in [Campaigns -> Nat] /\ counted' \in [Campaigns -> Nat]
  BY <1>1, <1>2
<1> QED BY <1>3, <1>4, <1>5

(* Every step keeps it.                                                    *)
LEMMA CountStep == CountInv /\ [Next]_vars => CountInv'
<1> SUFFICES ASSUME CountInv, [Next]_vars PROVE CountInv'
  OBVIOUS
<1>1. ASSUME UNCHANGED <<newest, replyCount, counted, added, countRead>>
      PROVE  CountInv'
  BY <1>1 DEF CountInv, CountBacked
<1>2. ASSUME NEW r \in Replicas, Receive(r) \/ HandlerStep(r) \/ HandlerFails(r)
      PROVE  CountInv'
  <2>1. CASE Receive(r) \/ PassLimit(r) \/ ReadLead(r) \/ Reply(r)
    BY <1>1, <2>1 DEF Receive, PassLimit, ReadLead, Reply, tables, session
  <2>2. CASE ReadCampaign(r)
    BY <2>2, CountRead
  <2>3. CASE Commit(r)
    BY <2>3, CountCommit
  <2>4. CASE CommitClashes(r) \/ HandlerFails(r)
    BY <2>4, CountClose
       DEF CommitClashes, HandlerFails, Deny, ReplyRaises, Abort, tables
  <2> QED BY <1>2, <2>1, <2>2, <2>3, <2>4 DEF HandlerStep
<1>3. ASSUME NEW e \in Editors, EditRead(e) \/ EditCommit(e)
      PROVE  CountInv'
  BY <1>1, <1>3 DEF EditRead, EditCommit, tables, session
<1>4. CASE CreateCampaign
  <2>1. newest' \in 0 .. MaxCampaigns
    BY <1>4, WebhookAssumption
       DEF CreateCampaign, CountInv, Campaigns, WebhookAssumption
  <2>2. UNCHANGED <<replyCount, counted, added, countRead>>
    BY <1>4 DEF CreateCampaign, session
  <2> QED BY <2>1, <2>2 DEF CountInv, CountBacked
<1>5. CASE WorkerMessage
  BY <1>5, CountWorker
<1>6. CASE UNCHANGED vars
  BY <1>1, <1>6 DEF vars, tables, session
<1> QED BY <1>2, <1>3, <1>4, <1>5, <1>6 DEF Next

(* No campaign ever shows more replies than messages that count for it.    *)
THEOREM RepliesAreCounted == Spec => []CountBacked
<1>1. CountInv => CountBacked
  BY DEF CountInv
<1> QED BY <1>1, CountInit, CountStep, PTL DEF Spec

(***************************************************************************)
(* Leads                                                                   *)
(***************************************************************************)
(* A row whose phone and price come from another is no worse.              *)
Keeps(was, now) == /\ was.phone => now.phone
                   /\ was.price # 0 => now.price # 0

NewLeads == [user : Users, row : Leads]

LeadsInv ==
  /\ leads \in [Users -> Leads \cup {NoLead}]
  /\ loaded \in [Replicas -> [Users -> Leads \cup {NoLead}]]
  /\ current \in [Replicas -> [Users -> Leads \cup {NoLead}]]
  /\ fresh \in [Replicas -> Seq(NewLeads)]
  /\ epc \in [Editors -> Users \cup {"idle"}]
  /\ eRow \in [Editors -> Leads \cup {NoLead}]
  /\ eNow \in [Editors -> Leads \cup {NoLead}]

TodoInv ==
  /\ pc \in [Replicas -> {"idle", "limit", "lead", "campaign", "reply", "commit"}]
  /\ todo \in [Replicas -> Seq(Messages)]
  /\ \A r \in Replicas : todo[r] = <<>> <=> pc[r] \in {"idle", "commit"}

(* The rows of a session are rows of the table, changed so that nothing is *)
(* cleared.                                                                *)
SessionsInv ==
  \A r \in Replicas, u \in Users : current[r][u] # NoLead =>
    /\ leads[u] # NoLead
    /\ loaded[r][u] # NoLead
    /\ Keeps(loaded[r][u], current[r][u])

(* So is the row of an edit, which leaves the phone alone.                 *)
EditsInv ==
  \A e \in Editors : epc[e] # "idle" =>
    /\ leads[epc[e]] # NoLead
    /\ eRow[e] # NoLead
    /\ eNow[e] # NoLead
    /\ eNow[e].phone = eRow[e].phone

RowsInv == LeadsInv /\ TodoInv /\ SessionsInv /\ EditsInv

(* What a text is worth is a score.                                        *)
LEMMA ScoreType ==
  ASSUME NEW t \in Texts, NEW phone \in BOOLEAN
  PROVE  CalculateScore(t, phone) \in Scores
<1>1. \A said \in BOOLEAN, n \in Nat : Points(said, n) \in {0, n}
  BY DEF Points
<1>2. t.asks \in BOOLEAN /\ t.buys \in BOOLEAN /\ t.pays \in BOOLEAN
  BY DEF Texts
<1>3. /\ Points(t.asks, 1) \in {0, 1} /\ Points(t.buys, 3) \in {0, 3}
      /\ Points(phone, 5) \in {0, 5} /\ Points(t.pays, 4) \in {0, 4}
  BY <1>1, <1>2
<1> QED BY <1>3 DEF CalculateScore, Scores

(* Every score has a stage.                                                *)
LEMMA StatusType ==
  ASSUME NEW t \in Texts, NEW score \in Scores
  PROVE  DetermineStatus(t, score) \in Stages
<1>1. t.closes \in BOOLEAN
  BY DEF Texts
<1>2. \/ score >= 8 \/ score \in 4 .. 7 \/ score \in 1 .. 3 \/ score = 0
  BY DEF Scores
<1> QED BY <1>1, <1>2 DEF DetermineStatus, Stages

(* The first message of a user makes a lead.                               *)
LEMMA NewLeadType ==
  ASSUME NEW t \in Texts
  PROVE  NewLead(t) \in Leads
<1> DEFINE score == CalculateScore(t, FALSE)
           status == DetermineStatus(t, score)
<1>1. score \in Scores /\ status \in Stages
  BY ScoreType, StatusType
<1>2. t.phone \in BOOLEAN
  BY DEF Texts
<1> HIDE DEF score, status
<1>3. [phone |-> t.phone, interest |-> t, score |-> score, status |-> status,
       price |-> IF status = "closed" THEN SalePrice ELSE 0] \in Leads
  BY <1>1, <1>2 DEF Leads, SalePrice
<1> QED BY <1>3 DEF NewLead, score, status

(* A further one changes it and clears nothing.                            *)
LEMMA ChangedLeadType ==
  ASSUME NEW lead \in Leads, NEW t \in Texts
  PROVE  ChangedLead(lead, t) \in Leads /\ Keeps(lead, ChangedLead(lead, t))
<1> DEFINE phone == t.phone \/ lead.phone
           score == CalculateScore(t, phone)
           status == DetermineStatus(t, score)
           price == IF lead.price = 0 /\ status = "closed"
                    THEN SalePrice ELSE lead.price
           row == [phone |-> phone, interest |-> t, score |-> score,
                   status |-> status, price |-> price]
<1>1. phone \in BOOLEAN /\ (lead.phone => phone)
  OBVIOUS
<1>2. score \in Scores /\ status \in Stages
  BY <1>1, ScoreType, StatusType
<1>3. price \in Nat /\ (lead.price # 0 => price # 0)
  BY DEF Leads, SalePrice
<1> HIDE DEF phone, score, status, price
<1>4. row \in Leads /\ row.phone = phone /\ row.price = price
  BY <1>1, <1>2, <1>3 DEF Leads
<1>5. ChangedLead(lead, t) = row
  BY DEF ChangedLead, phone, score, status, price
<1> HIDE DEF row
<1> QED BY <1>1, <1>3, <1>4, <1>5 DEF Keeps

(* An UPDATE leaves a row, with a phone if there was one and the writer    *)
(* cleared none, and with a price likewise.                                *)
LEMMA UpdatedType ==
  ASSUME NEW row \in Leads, NEW was \in Leads, NEW now \in Leads
  PROVE  /\ Updated(row, was, now) \in Leads
         /\ row.phone /\ (was.phone => now.phone) => Updated(row, was, now).phone
         /\ row.price # 0 /\ (was.price # 0 => now.price # 0)
              => Updated(row, was, now).price # 0
         /\ row.price # 0 /\ Updated(row, was, now).price = 0 => now.price = 0
<1>1. Updated(row, was, now) \in Leads
  BY DEF Updated, Column, Leads
<1>2. /\ Updated(row, was, now).phone = IF now.phone = was.phone
                                        THEN row.phone ELSE now.phone
      /\ Updated(row, was, now).price = IF now.price = was.price
                                        THEN row.price ELSE now.price
  BY DEF Updated, Column
<1>3. was.phone \in BOOLEAN /\ now.phone \in BOOLEAN /\ row.phone \in BOOLEAN
  BY DEF Leads
<1>4. row.phone /\ (was.phone => now.phone) => Updated(row, was, now).phone
  BY <1>2, <1>3
<1>5. row.price # 0 /\ (was.price # 0 => now.price # 0)
        => Updated(row, was, now).price # 0
  BY <1>2
<1>6. row.price # 0 /\ Updated(row, was, now).price = 0 => now.price = 0
  BY <1>2
<1> QED BY <1>1, <1>4, <1>5, <1>6

(* It holds before the first request.                                      *)
LEMMA RowsInit == Init => RowsInv
BY DEF Init, RowsInv, LeadsInv, TodoInv, SessionsInv, EditsInv, Nobody

(* Closing a session leaves nothing to say about it.                       *)
LEMMA RowsClose ==
  ASSUME RowsInv, NEW r \in Replicas, CloseSession(r), UNCHANGED <<leads, edits>>
  PROVE  RowsInv'
<1> USE DEF CloseSession, RowsInv, Nobody
<1>1. LeadsInv'
  BY DEF LeadsInv, edits
<1>2. TodoInv'
  BY DEF TodoInv
<1>3. SessionsInv'
  BY DEF LeadsInv, SessionsInv
<1>4. EditsInv'
  BY DEF EditsInv, edits
<1> QED BY <1>1, <1>2, <1>3, <1>4

(* The message at hand is one of a user.                                   *)
LEMMA HeadIsMessage ==
  ASSUME RowsInv, NEW r \in Replicas, pc[r] \in {"limit", "lead", "campaign", "reply"}
  PROVE  Head(todo[r]) \in Messages
BY DEF RowsInv, TodoInv

(* What the session reads and changes is a row, and clears nothing.        *)
LEMMA RowsRead ==
  ASSUME RowsInv, NEW r \in Replicas, ReadLead(r)
  PROVE  RowsInv'
<1> DEFINE u == Head(todo[r]).user
           t == Head(todo[r]).text
           row == IF current[r][u] # NoLead THEN current[r][u] ELSE leads[u]
<1>1. u \in Users /\ t \in Texts
  BY HeadIsMessage DEF ReadLead, Messages
<1>2. row \in Leads \cup {NoLead}
  BY <1>1 DEF RowsInv, LeadsInv
<1>3. /\ UNCHANGED <<leads, todo, epc, eRow, eNow>>
      /\ pc[r] = "lead" /\ pc' = [pc EXCEPT ![r] = "campaign"]
  BY DEF ReadLead, tables, edits
<1>4. TodoInv'
  BY <1>3 DEF RowsInv, TodoInv
<1>5. EditsInv'
  BY <1>3 DEF RowsInv, EditsInv
<1>6. CASE row = NoLead
  <2>1. fresh' = [fresh EXCEPT ![r] =
                    Append(fresh[r], [user |-> u, row |-> NewLead(t)])]
        /\ UNCHANGED <<loaded, current>>
    BY <1>6 DEF ReadLead
  <2>2. [user |-> u, row |-> NewLead(t)] \in NewLeads
    BY <1>1, NewLeadType DEF NewLeads
  <2>3. fresh' \in [Replicas -> Seq(NewLeads)]
    <3> DEFINE x == [user |-> u, row |-> NewLead(t)]
    <3> HIDE DEF x
    <3>1. fresh' = [fresh EXCEPT ![r] = Append(fresh[r], x)]
      BY <2>1 DEF x
    <3> QED BY <2>2, <3>1 DEF RowsInv, LeadsInv, x
  <2>4. LeadsInv'
    BY <1>3, <2>1, <2>3 DEF RowsInv, LeadsInv
  <2>5. SessionsInv'
    BY <1>3, <2>1 DEF RowsInv, SessionsInv
  <2> QED BY <1>4, <1>5, <2>4, <2>5 DEF RowsInv
<1>7. CASE row # NoLead
  <2>1. /\ loaded' = [loaded EXCEPT ![r][u] =
                        IF current[r][u] # NoLead THEN loaded[r][u] ELSE row]
        /\ current' = [current EXCEPT ![r][u] = ChangedLead(row, t)]
        /\ UNCHANGED fresh
    BY <1>7 DEF ReadLead
  <2> DEFINE new == ChangedLead(row, t)
             old == IF current[r][u] # NoLead THEN loaded[r][u] ELSE row
  <2>2. row \in Leads /\ new \in Leads /\ Keeps(row, new) /\ new # NoLead
    BY <1>1, <1>2, <1>7, ChangedLeadType, WebhookAssumption
       DEF WebhookAssumption
  <2>3. /\ leads[u] # NoLead /\ old # NoLead /\ Keeps(old, row)
        /\ old \in Leads
    <3>1. CASE current[r][u] # NoLead
      BY <1>1, <3>1 DEF RowsInv, SessionsInv, LeadsInv
    <3>2. CASE current[r][u] = NoLead
      BY <1>1, <1>7, <2>2, <3>2 DEF Keeps
    <3> QED BY <3>1, <3>2
  <2>4. Keeps(old, new)
    BY <2>2, <2>3 DEF Keeps
  <2> HIDE DEF new, old, row, u, t
  <2>5. /\ loaded' = [loaded EXCEPT ![r][u] = old]
        /\ current' = [current EXCEPT ![r][u] = new]
    BY <2>1 DEF new, old
  <2>6. LeadsInv'
    <3>1. /\ [loaded[r] EXCEPT ![u] = old] \in [Users -> Leads \cup {NoLead}]
          /\ [current[r] EXCEPT ![u] = new] \in [Users -> Leads \cup {NoLead}]
      BY <2>2, <2>3 DEF RowsInv, LeadsInv
    <3>2. /\ loaded' \in [Replicas -> [Users -> Leads \cup {NoLead}]]
          /\ current' \in [Replicas -> [Users -> Leads \cup {NoLead}]]
      BY <2>5, <3>1 DEF RowsInv, LeadsInv
    <3> QED BY <1>3, <2>1, <3>2 DEF RowsInv, LeadsInv
  <2>7. SessionsInv'
    <3> SUFFICES ASSUME NEW s \in Replicas, NEW v \in Users,
                        current'[s][v] # NoLead
                 PROVE  /\ leads[v] # NoLead
                        /\ loaded'[s][v] # NoLead
                        /\ Keeps(loaded'[s][v], current'[s][v])
      BY <1>3 DEF SessionsInv, Keeps
    <3>1. CASE s = r /\ v = u
      <4>1. loaded'[s][v] = old /\ current'[s][v] = new
        BY <1>1, <2>5, <3>1 DEF RowsInv, LeadsInv
      <4> QED BY <2>3, <2>4, <3>1, <4>1
    <3>2. CASE ~(s = r /\ v = u)
      <4>1. loaded'[s][v] = loaded[s][v] /\ current'[s][v] = current[s][v]
        BY <1>1, <2>5, <3>2 DEF RowsInv, LeadsInv
      <4> QED BY <4>1 DEF RowsInv, SessionsInv
    <3> QED BY <3>1, <3>2
  <2> QED BY <1>4, <1>5, <2>6, <2>7 DEF RowsInv
<1> QED BY <1>6, <1>7

(* The row a commit leaves: what it was, or more of it, or a new lead.     *)
LEMMA WrittenType ==
  ASSUME RowsInv, NEW r \in Replicas, ~Clash(r), NEW u \in Users
  PROVE  /\ WrittenLead(r, u) \in Leads \cup {NoLead}
         /\ leads[u] # NoLead =>
              /\ WrittenLead(r, u) \in Leads
              /\ Keeps(leads[u], WrittenLead(r, u))
<1>1. CASE Inserted(r, u) # {}
  <2>1. PICK j \in DOMAIN fresh[r] : fresh[r][j].user = u
    BY <1>1 DEF Inserted
  <2>2. leads[u] = NoLead
    BY <2>1 DEF Clash
  <2>3. \A row \in Inserted(r, u) : row \in Leads
    <3> SUFFICES ASSUME NEW i \in DOMAIN fresh[r] PROVE fresh[r][i].row \in Leads
      BY DEF Inserted
    <3>1. fresh[r] \in Seq(NewLeads)
      BY DEF RowsInv, LeadsInv
    <3>2. fresh[r][i] \in NewLeads
      BY <3>1
    <3> QED BY <3>2 DEF NewLeads
  <2>4. WrittenLead(r, u) \in Inserted(r, u)
    BY <1>1 DEF WrittenLead
  <2> QED BY <2>2, <2>3, <2>4
<1>2. CASE Inserted(r, u) = {} /\ current[r][u] # NoLead
  <2>1. WrittenLead(r, u) = Updated(leads[u], loaded[r][u], current[r][u])
    BY <1>2 DEF WrittenLead
  <2>2. /\ leads[u] \in Leads /\ loaded[r][u] \in Leads /\ current[r][u] \in Leads
        /\ Keeps(loaded[r][u], current[r][u])
    BY <1>2 DEF RowsInv, LeadsInv, SessionsInv
  <2> QED BY <2>1, <2>2, UpdatedType DEF Keeps
<1>3. CASE Inserted(r, u) = {} /\ current[r][u] = NoLead
  <2>1. WrittenLead(r, u) = leads[u] /\ leads[u] \in Leads \cup {NoLead}
    BY <1>3 DEF WrittenLead, RowsInv, LeadsInv
  <2> QED BY <2>1 DEF Keeps
<1> QED BY <1>1, <1>2, <1>3

(* A commit keeps every row, and so what others hold of it.                *)
LEMMA RowsCommit ==
  ASSUME RowsInv, NEW r \in Replicas, Commit(r)
  PROVE  RowsInv'
<1>1. /\ leads' = [u \in Users |-> WrittenLead(r, u)]
      /\ UNCHANGED <<epc, eRow, eNow>> /\ ~Clash(r)
      /\ loaded' = [loaded EXCEPT ![r] = Nobody]
      /\ current' = [current EXCEPT ![r] = Nobody]
      /\ fresh' = [fresh EXCEPT ![r] = <<>>]
      /\ todo' = [todo EXCEPT ![r] = <<>>]
      /\ pc' = [pc EXCEPT ![r] = "idle"]
  BY DEF Commit, CloseSession, edits
<1>2. leads' \in [Users -> Leads \cup {NoLead}]
  BY <1>1, WrittenType
<1>3. ASSUME NEW u \in Users, leads[u] # NoLead PROVE leads'[u] # NoLead
  BY <1>1, <1>3, WrittenType, WebhookAssumption DEF WebhookAssumption
<1>4. LeadsInv'
  BY <1>1, <1>2 DEF RowsInv, LeadsInv, Nobody
<1>5. TodoInv'
  BY <1>1 DEF RowsInv, TodoInv
<1>6. SessionsInv'
  <2> SUFFICES ASSUME NEW s \in Replicas, NEW u \in Users,
                      current'[s][u] # NoLead
               PROVE  /\ leads'[u] # NoLead
                      /\ loaded'[s][u] # NoLead
                      /\ Keeps(loaded'[s][u], current'[s][u])
    BY DEF SessionsInv, Keeps
  <2>1. s # r
    BY <1>1 DEF RowsInv, LeadsInv, Nobody
  <2>2. loaded'[s][u] = loaded[s][u] /\ current'[s][u] = current[s][u]
    BY <1>1, <2>1 DEF RowsInv, LeadsInv
  <2> QED BY <1>3, <2>2 DEF RowsInv, SessionsInv
<1>7. EditsInv'
  BY <1>1, <1>3 DEF RowsInv, LeadsInv, EditsInv
<1> QED BY <1>4, <1>5, <1>6, <1>7 DEF RowsInv

(* An edit starts from a row and leaves its phone alone.                   *)
LEMMA RowsEditRead ==
  ASSUME RowsInv, NEW e \in Editors, EditRead(e)
  PROVE  RowsInv'
<1>1. PICK u \in Users, s \in Stages, p \in Nat :
        /\ leads[u] # NoLead
        /\ eRow' = [eRow EXCEPT ![e] = leads[u]]
        /\ eNow' = [eNow EXCEPT ![e] = [leads[u] EXCEPT !.status = s, !.price = p]]
        /\ epc' = [epc EXCEPT ![e] = u]
  <2>1. PICK u \in Users :
          /\ leads[u] # NoLead
          /\ \E s \in EditedStatuses \cup {leads[u].status},
                p \in EditedPrices \cup {leads[u].price} :
               /\ eRow' = [eRow EXCEPT ![e] = leads[u]]
               /\ eNow' = [eNow EXCEPT ![e] = [leads[u] EXCEPT !.status = s,
                                                               !.price = p]]
          /\ epc' = [epc EXCEPT ![e] = u]
    BY DEF EditRead
  <2>2. leads[u] \in Leads
    BY <2>1 DEF RowsInv, LeadsInv
  <2>3. /\ EditedStatuses \cup {leads[u].status} \subseteq Stages
        /\ EditedPrices \cup {leads[u].price} \subseteq Nat
    BY <2>2, WebhookAssumption DEF Leads, WebhookAssumption
  <2> QED BY <2>1, <2>3
<1> DEFINE new == [leads[u] EXCEPT !.status = s, !.price = p]
<1>2. leads[u] \in Leads
  BY <1>1 DEF RowsInv, LeadsInv
<1>3. new \in Leads /\ new.phone = leads[u].phone /\ new # NoLead
  <2>1. new \in Leads /\ new.phone = leads[u].phone
    BY <1>2 DEF Leads
  <2> QED BY <2>1, WebhookAssumption DEF WebhookAssumption
<1> HIDE DEF new
<1>4. /\ UNCHANGED <<leads, pc, todo, loaded, current, fresh>>
      /\ eNow' = [eNow EXCEPT ![e] = new]
  BY <1>1 DEF EditRead, tables, session, new
<1>5. LeadsInv'
  BY <1>1, <1>2, <1>3, <1>4 DEF RowsInv, LeadsInv
<1>6. TodoInv' /\ SessionsInv'
  BY <1>4 DEF RowsInv, TodoInv, SessionsInv
<1>7. EditsInv'
  <2> SUFFICES ASSUME NEW d \in Editors, epc'[d] # "idle"
               PROVE  /\ leads[epc'[d]] # NoLead
                      /\ eRow'[d] # NoLead
                      /\ eNow'[d] # NoLead
                      /\ eNow'[d].phone = eRow'[d].phone
    BY <1>4 DEF EditsInv
  <2>1. CASE d = e
    <3>1. epc'[d] = u /\ eRow'[d] = leads[u] /\ eNow'[d] = new
      BY <1>1, <1>4, <2>1 DEF RowsInv, LeadsInv
    <3> QED BY <1>1, <1>3, <3>1
  <2>2. CASE d # e
    <3>1. epc'[d] = epc[d] /\ eRow'[d] = eRow[d] /\ eNow'[d] = eNow[d]
      BY <1>1, <1>4, <2>2 DEF RowsInv, LeadsInv
    <3> QED BY <3>1 DEF RowsInv, EditsInv
  <2> QED BY <2>1, <2>2
<1> QED BY <1>5, <1>6, <1>7 DEF RowsInv

(* An edit that commits leaves a row, with its phone; the price is zero    *)
(* only if the edit says so.                                               *)
LEMMA EditedType ==
  ASSUME RowsInv, NEW e \in Editors, EditCommit(e), NEW u \in Users,
         leads[u] # NoLead
  PROVE  /\ leads'[u] \in Leads
         /\ leads[u].phone => leads'[u].phone
         /\ leads[u].price # 0 /\ leads'[u].price = 0
              => epc[e] = u /\ eNow[e].price = 0
<1>1. leads' = [leads EXCEPT ![epc[e]] = Updated(leads[epc[e]], eRow[e], eNow[e])]
  BY DEF EditCommit
<1>2. leads[u] \in Leads
  BY DEF RowsInv, LeadsInv
<1>3. CASE epc[e] = u
  <2>1. leads'[u] = Updated(leads[u], eRow[e], eNow[e])
    BY <1>1, <1>3 DEF RowsInv, LeadsInv
  <2>2. /\ eRow[e] \in Leads /\ eNow[e] \in Leads
        /\ eNow[e].phone = eRow[e].phone
    BY DEF EditCommit, RowsInv, LeadsInv, EditsInv
  <2> QED BY <1>2, <1>3, <2>1, <2>2, UpdatedType
<1>4. CASE epc[e] # u
  BY <1>1, <1>2, <1>4 DEF RowsInv, LeadsInv
<1> QED BY <1>3, <1>4

(* It keeps what the others hold of the row.                               *)
LEMMA RowsEditCommit ==
  ASSUME RowsInv, NEW e \in Editors, EditCommit(e)
  PROVE  RowsInv'
<1>1. /\ leads' = [leads EXCEPT ![epc[e]] = Updated(leads[epc[e]], eRow[e], eNow[e])]
      /\ epc' = [epc EXCEPT ![e] = "idle"]
      /\ eRow' = [eRow EXCEPT ![e] = NoLead]
      /\ eNow' = [eNow EXCEPT ![e] = NoLead]
      /\ UNCHANGED <<pc, todo, loaded, current, fresh>>
  BY DEF EditCommit, session
<1>2. ASSUME NEW u \in Users
      PROVE  /\ leads'[u] \in Leads \cup {NoLead}
             /\ leads[u] # NoLead => leads'[u] # NoLead
  <2>1. CASE leads[u] # NoLead
    BY <2>1, EditedType, WebhookAssumption DEF WebhookAssumption
  <2>2. CASE leads[u] = NoLead
    <3>1. epc[e] # u
      BY <2>2 DEF EditCommit, RowsInv, EditsInv
    <3> QED BY <1>1, <2>2, <3>1 DEF RowsInv, LeadsInv
  <2> QED BY <2>1, <2>2
<1>3. LeadsInv'
  <2>1. leads' \in [Users -> Leads \cup {NoLead}]
    <3>1. DOMAIN leads' = Users /\ leads' = [u \in Users |-> leads'[u]]
      BY <1>1 DEF RowsInv, LeadsInv
    <3> QED BY <1>2, <3>1
  <2> QED BY <1>1, <2>1 DEF RowsInv, LeadsInv
<1>4. TodoInv'
  BY <1>1 DEF RowsInv, TodoInv
<1>5. SessionsInv'
  BY <1>1, <1>2 DEF RowsInv, SessionsInv
<1>6. EditsInv'
  <2> SUFFICES ASSUME NEW d \in Editors, epc'[d] # "idle"
               PROVE  /\ leads'[epc'[d]] # NoLead
                      /\ eRow'[d] # NoLead
                      /\ eNow'[d] # NoLead
                      /\ eNow'[d].phone = eRow'[d].phone
    BY DEF EditsInv
  <2>1. d # e
    BY <1>1 DEF RowsInv, LeadsInv
  <2>2. epc'[d] = epc[d] /\ eRow'[d] = eRow[d] /\ eNow'[d] = eNow[d]
    BY <1>1, <2>1 DEF RowsInv, LeadsInv
  <2>3. epc[d] \in Users
    BY <2>2 DEF RowsInv, LeadsInv
  <2> QED BY <1>2, <2>2, <2>3 DEF RowsInv, EditsInv
<1> QED BY <1>3, <1>4, <1>5, <1>6 DEF RowsInv

(* Every step keeps the invariant.                                         *)
LEMMA RowsStep == RowsInv /\ [Next]_vars => RowsInv'
<1> SUFFICES ASSUME RowsInv, [Next]_vars PROVE RowsInv'
  OBVIOUS
<1>1. ASSUME UNCHANGED <<leads, loaded, current, fresh, epc, eRow, eNow>>, TodoInv'
      PROVE  RowsInv'
  BY <1>1 DEF RowsInv, LeadsInv, SessionsInv, EditsInv
<1>2. ASSUME NEW r \in Replicas, Receive(r) \/ HandlerStep(r) \/ HandlerFails(r)
      PROVE  RowsInv'
  <2>1. CASE Receive(r)
    <3>1. PICK p \in Payloads : todo' = [todo EXCEPT ![r] = p]
      BY <2>1 DEF Receive
    <3>2. p \in Seq(Messages) /\ p # <<>>
      BY WebhookAssumption DEF WebhookAssumption
    <3>3. TodoInv'
      BY <2>1, <3>1, <3>2 DEF Receive, RowsInv, TodoInv
    <3> QED BY <1>1, <2>1, <3>3 DEF Receive, tables, session, edits
  <2>2. CASE PassLimit(r) \/ ReadCampaign(r)
    <3>1. TodoInv'
      BY <2>2 DEF PassLimit, ReadCampaign, RowsInv, TodoInv
    <3> QED BY <1>1, <2>2, <3>1 DEF PassLimit, ReadCampaign, tables, session, edits
  <2>3. CASE ReadLead(r)
    BY <2>3, RowsRead
  <2>4. CASE Reply(r)
    <3>1. Tail(todo[r]) \in Seq(Messages)
      BY <2>4 DEF Reply, RowsInv, TodoInv
    <3>2. TodoInv'
      BY <2>4, <3>1 DEF Reply, RowsInv, TodoInv
    <3> QED BY <1>1, <2>4, <3>2 DEF Reply, tables, edits
  <2>5. CASE Commit(r)
    BY <2>5, RowsCommit
  <2>6. CASE CommitClashes(r) \/ HandlerFails(r)
    BY <2>6, RowsClose
       DEF CommitClashes, HandlerFails, Deny, ReplyRaises, Abort, tables
  <2> QED BY <1>2, <2>1, <2>2, <2>3, <2>4, <2>5, <2>6 DEF HandlerStep
<1>3. ASSUME NEW e \in Editors, EditRead(e) \/ EditCommit(e)
      PROVE  RowsInv'
  BY <1>3, RowsEditRead, RowsEditCommit
<1>4. CASE CreateCampaign \/ WorkerMessage \/ UNCHANGED vars
  <2>1. UNCHANGED <<leads, loaded, current, fresh, epc, eRow, eNow, pc, todo>>
    BY <1>4 DEF CreateCampaign, WorkerMessage, vars, tables, session, edits
  <2> QED BY <1>1, <2>1 DEF RowsInv, TodoInv
<1> QED BY <1>2, <1>3, <1>4 DEF Next

(* What a step does to a lead that is known.                               *)
LEMMA StepErasesNothing ==
  ASSUME RowsInv, [Next]_vars, NEW u \in Users, leads[u] # NoLead
  PROVE  /\ leads'[u] # NoLead
         /\ leads[u].phone => leads'[u].phone
         /\ leads[u].price # 0 /\ leads'[u].price = 0
              => \E e \in Editors : epc[e] = u /\ eNow[e].price = 0
<1>1. CASE leads' = leads
  BY <1>1
<1>2. ASSUME NEW r \in Replicas, Commit(r)
      PROVE  leads'[u] # NoLead /\ Keeps(leads[u], leads'[u])
  <2>1. leads'[u] = WrittenLead(r, u) /\ ~Clash(r)
    BY <1>2 DEF Commit
  <2> QED BY <2>1, WrittenType, WebhookAssumption DEF WebhookAssumption
<1>3. ASSUME NEW e \in Editors, EditCommit(e)
      PROVE  /\ leads'[u] # NoLead
             /\ leads[u].phone => leads'[u].phone
             /\ leads[u].price # 0 /\ leads'[u].price = 0
                  => epc[e] = u /\ eNow[e].price = 0
  BY <1>3, EditedType, WebhookAssumption DEF WebhookAssumption
<1>4. \/ leads' = leads
      \/ \E r \in Replicas : Commit(r)
      \/ \E e \in Editors : EditCommit(e)
  BY DEF Next, HandlerStep, HandlerFails, Receive, PassLimit, ReadLead,
         ReadCampaign, Reply, CommitClashes, Deny, ReplyRaises, Abort, EditRead,
         CreateCampaign, WorkerMessage, vars, tables
<1> QED BY <1>1, <1>2, <1>3, <1>4 DEF Keeps

(* No stale copy of a lead clears its phone or what it was sold for.       *)
THEOREM LeadsAreKept == Spec => NothingErased
<1> DEFINE Kept == \A u \in Users : leads[u] # NoLead =>
                     /\ leads'[u] # NoLead
                     /\ leads[u].phone => leads'[u].phone
                     /\ leads[u].price # 0 /\ leads'[u].price = 0
                          => \E e \in Editors : epc[e] = u /\ eNow[e].price = 0
<1>1. RowsInv /\ [Next]_vars => [Kept]_vars
  BY StepErasesNothing
<1> QED BY <1>1, RowsInit, RowsStep, PTL DEF Spec, NothingErased

(***************************************************************************)
(* Types                                                                   *)
(***************************************************************************)
(* What is left of the bounds is never more than they were.                *)
BudgetInv ==
  /\ overlapped \in BOOLEAN
  /\ budget \in [{"request", "edit", "worker", "deny", "failure"} -> Nat]
  /\ budget.edit <= MaxEdits

TypeInv == CountInv /\ RowsInv /\ BudgetInv

(* It holds at the start.                                                  *)
LEMMA TypeInit == Init => TypeInv
<1>1. /\ MaxRequests \in Nat /\ MaxEdits \in Nat /\ MaxWorker \in Nat
      /\ MaxDenials \in Nat /\ MaxFailures \in Nat
  BY WebhookAssumption DEF WebhookAssumption
<1>2. Init => BudgetInv
  <2> SUFFICES ASSUME Init PROVE BudgetInv
    OBVIOUS
  <2>1. budget = [request |-> MaxRequests, edit |-> MaxEdits, worker |-> MaxWorker,
                  deny |-> MaxDenials, failure |-> MaxFailures]
    BY DEF Init
  <2>2. budget \in [{"request", "edit", "worker", "deny", "failure"} -> Nat]
    BY <1>1, <2>1
  <2>3. budget.edit <= MaxEdits
    BY <1>1, <2>1
  <2>4. overlapped \in BOOLEAN
    BY DEF Init
  <2> QED BY <2>2, <2>3, <2>4 DEF BudgetInv
<1> QED BY <1>2, CountInit, RowsInit DEF TypeInv

(* What is spent is gone.                                                  *)
LEMMA SpendType ==
  ASSUME BudgetInv, overlapped' \in BOOLEAN,
         \/ budget' = budget
         \/ \E kind \in {"request", "edit", "worker", "deny", "failure"} :
              Spend(kind)
  PROVE  BudgetInv'
<1>1. MaxEdits \in Nat
  BY WebhookAssumption DEF WebhookAssumption
<1>2. ASSUME NEW kind \in {"request", "edit", "worker", "deny", "failure"},
             Spend(kind)
      PROVE  BudgetInv'
  <2>1. /\ budget[kind] \in Nat /\ budget[kind] > 0
        /\ budget' = [budget EXCEPT ![kind] = budget[kind] - 1]
    BY <1>2 DEF BudgetInv, Spend
  <2>2. budget[kind] - 1 \in Nat
    BY <2>1
  <2>3. budget' \in [{"request", "edit", "worker", "deny", "failure"} -> Nat]
    BY <2>1, <2>2 DEF BudgetInv
  <2>4. budget'.edit <= MaxEdits
    BY <1>1, <2>1 DEF BudgetInv
  <2> QED BY <2>3, <2>4 DEF BudgetInv
<1> QED BY <1>2 DEF BudgetInv

(* Every step keeps the types.                                             *)
LEMMA TypeStep == TypeInv /\ [Next]_vars => TypeInv'
<1> SUFFICES ASSUME TypeInv, [Next]_vars PROVE TypeInv'
  OBVIOUS
<1>1. CountInv' /\ RowsInv'
  BY CountStep, RowsStep DEF TypeInv
<1>2. overlapped \in BOOLEAN
  BY DEF TypeInv, BudgetInv
<1>3. overlapped' \in BOOLEAN
  BY <1>2 DEF Next, HandlerStep, HandlerFails, Receive, PassLimit, ReadLead,
       ReadCampaign, Reply, Commit, CommitClashes, Deny, ReplyRaises, Abort,
       EditRead, EditCommit, CreateCampaign, WorkerMessage, vars
<1>4. \/ budget' = budget
      \/ Spend("request") \/ Spend("edit") \/ Spend("worker")
      \/ Spend("deny") \/ Spend("failure")
  BY DEF Next, HandlerStep, HandlerFails, Receive, PassLimit, ReadLead,
       ReadCampaign, Reply, Commit, CommitClashes, Deny, ReplyRaises, Abort,
       EditRead, EditCommit, CreateCampaign, WorkerMessage, vars
<1>5. BudgetInv'
  BY <1>3, <1>4, SpendType DEF TypeInv
<1> QED BY <1>1, <1>5 DEF TypeInv

(* The tables, the sessions, the edits and the counters stay in their      *)
(* types, whatever the replicas, the editors and the workers do.           *)
THEOREM TypeCorrect == Spec => []TypeOK
<1>1. TypeInv => TypeOK
  <2> SUFFICES ASSUME TypeInv PROVE TypeOK
    OBVIOUS
  <2>1. newest \in Nat
    BY WebhookAssumption DEF TypeInv, CountInv, WebhookAssumption
  <2>2. /\ replyCount \in [Campaigns -> Nat] /\ counted \in [Campaigns -> Nat]
        /\ added \in [Replicas -> [Campaigns -> Nat]]
        /\ countRead \in [Replicas -> [Campaigns -> Nat]]
    BY DEF TypeInv, CountInv
  <2> QED BY <2>1, <2>2
          DEF TypeInv, RowsInv, LeadsInv, TodoInv, BudgetInv, TypeOK, NewLeads
<1> QED BY <1>1, TypeInit, TypeStep, PTL DEF Spec

(***************************************************************************)
(* One request after the other                                             *)
(***************************************************************************)
(* A replica that serves no request has nothing in its session.            *)
EmptyInv ==
  \A r \in Replicas : pc[r] = "idle" =>
    added[r] = NoCount /\ current[r] = Nobody /\ fresh[r] = <<>>

(* Until requests overlap there is one at a time, and it counts on top of  *)
(* what the table has.                                                     *)
OneAtATime ==
  \A r, s \in Replicas : pc[r] # "idle" /\ pc[s] # "idle" => r = s

AloneInv ==
  ~overlapped =>
    /\ OneAtATime
    /\ \A c \in Campaigns : replyCount[c] = counted[c]
    /\ \A r \in Replicas, c \in Campaigns :
         added[r][c] > 0 => countRead[r][c] = replyCount[c]

ExactInv == TypeInv /\ EmptyInv /\ AloneInv

(* It holds before the first request.                                      *)
LEMMA ExactInit == Init => ExactInv
BY TypeInit DEF Init, ExactInv, EmptyInv, AloneInv, OneAtATime, NoCount, Nobody

(* A session is empty when it is closed, and only a handler that runs      *)
(* fills it.                                                               *)
LEMMA EmptyStep == TypeInv /\ EmptyInv /\ [Next]_vars => EmptyInv'
<1> SUFFICES ASSUME TypeInv, EmptyInv, [Next]_vars PROVE EmptyInv'
  OBVIOUS
<1>1. ASSUME UNCHANGED <<pc, added, current, fresh>>
      PROVE  EmptyInv'
  BY <1>1 DEF EmptyInv
<1>2. /\ pc \in [Replicas -> {"idle", "limit", "lead", "campaign", "reply", "commit"}]
      /\ DOMAIN added = Replicas /\ DOMAIN current = Replicas
      /\ DOMAIN fresh = Replicas
  BY DEF TypeInv, RowsInv, LeadsInv, TodoInv, CountInv
<1>3. ASSUME NEW r \in Replicas, pc'[r] # "idle",
             \A s \in Replicas \ {r} : /\ pc'[s] = pc[s]
                                       /\ added'[s] = added[s]
                                       /\ current'[s] = current[s]
                                       /\ fresh'[s] = fresh[s]
      PROVE  EmptyInv'
  BY <1>3 DEF EmptyInv
<1>4. ASSUME NEW r \in Replicas, CloseSession(r)
      PROVE  EmptyInv'
  BY <1>2, <1>4 DEF CloseSession, EmptyInv
<1>5. ASSUME NEW r \in Replicas, Receive(r) \/ HandlerStep(r) \/ HandlerFails(r)
      PROVE  EmptyInv'
  <2>1. CASE Receive(r) \/ PassLimit(r) \/ Reply(r)
    BY <1>2, <1>3, <2>1 DEF Receive, PassLimit, Reply, session
  <2>2. CASE ReadLead(r)
    <3>1. ASSUME NEW s \in Replicas \ {r}
          PROVE  current'[s] = current[s] /\ fresh'[s] = fresh[s]
      BY <1>2, <2>2 DEF ReadLead
    <3>2. pc' = [pc EXCEPT ![r] = "campaign"] /\ added' = added
      BY <2>2 DEF ReadLead
    <3> QED BY <1>2, <1>3, <3>1, <3>2
  <2>3. CASE ReadCampaign(r)
    <3>1. ASSUME NEW s \in Replicas \ {r}
          PROVE  added'[s] = added[s]
      BY <1>2, <2>3 DEF ReadCampaign
    <3>2. /\ pc' = [pc EXCEPT ![r] = "reply"]
          /\ current' = current /\ fresh' = fresh
      BY <2>3 DEF ReadCampaign
    <3> QED BY <1>2, <1>3, <3>1, <3>2
  <2>4. CASE Commit(r) \/ CommitClashes(r) \/ HandlerFails(r)
    BY <1>4, <2>4 DEF Commit, CommitClashes, HandlerFails, Deny, ReplyRaises, Abort
  <2> QED BY <1>5, <2>1, <2>2, <2>3, <2>4 DEF HandlerStep
<1>6. ASSUME NEW e \in Editors, EditRead(e) \/ EditCommit(e)
      PROVE  EmptyInv'
  BY <1>1, <1>6 DEF EditRead, EditCommit, session
<1>7. CASE CreateCampaign \/ WorkerMessage \/ UNCHANGED vars
  BY <1>1, <1>7 DEF CreateCampaign, WorkerMessage, vars, session
<1> QED BY <1>5, <1>6, <1>7 DEF Next

(* A request that is the only one stays it: a second one is an overlap.    *)
LEMMA OneAtATimeStep ==
  ASSUME TypeInv, [Next]_vars, ~overlapped', ~overlapped => OneAtATime
  PROVE  ~overlapped /\ OneAtATime'
<1>1. pc \in [Replicas -> {"idle", "limit", "lead", "campaign", "reply", "commit"}]
  BY DEF TypeInv, RowsInv, TodoInv
<1>2. CASE \E r \in Replicas : Receive(r)
  <2>1. PICK r \in Replicas : Receive(r)
    BY <1>2
  <2>2. ~overlapped /\ \A q \in Replicas \ {r} : pc[q] = "idle"
    BY <2>1 DEF Receive
  <2>3. \A q \in Replicas \ {r} : pc'[q] = "idle"
    BY <1>1, <2>1, <2>2 DEF Receive
  <2> QED BY <2>2, <2>3 DEF OneAtATime
<1>3. ASSUME NEW r \in Replicas, HandlerStep(r) \/ HandlerFails(r)
      PROVE  ~overlapped /\ OneAtATime'
  <2>1. overlapped' = overlapped
    BY <1>3 DEF HandlerStep, HandlerFails, PassLimit, ReadLead, ReadCampaign,
                Reply, Commit, CommitClashes, Deny, ReplyRaises, Abort
  <2>2. pc[r] # "idle"
    BY <1>3 DEF HandlerStep, HandlerFails, PassLimit, ReadLead, ReadCampaign,
                Reply, Commit, CommitClashes, Deny, ReplyRaises, Abort
  <2>3. \A q \in Replicas \ {r} : pc'[q] = pc[q]
    BY <1>1, <1>3
       DEF HandlerStep, HandlerFails, PassLimit, ReadLead, ReadCampaign, Reply,
           Commit, CommitClashes, Deny, ReplyRaises, Abort, CloseSession
  <2> QED BY <2>1, <2>2, <2>3 DEF OneAtATime
<1>4. CASE \/ \E e \in Editors : EditRead(e) \/ EditCommit(e)
           \/ CreateCampaign \/ UNCHANGED vars
  <2>1. pc' = pc /\ overlapped' = overlapped
    BY <1>4 DEF EditRead, EditCommit, CreateCampaign, vars
  <2> QED BY <2>1 DEF OneAtATime
<1>5. CASE WorkerMessage
  <2>1. pc' = pc /\ ~overlapped
    BY <1>5 DEF WorkerMessage
  <2> QED BY <2>1 DEF OneAtATime
<1> QED BY <1>2, <1>3, <1>4, <1>5 DEF Next

(* The handler counts on top of what the table has.                        *)
LEMMA AloneReadCampaign ==
  ASSUME ExactInv, NEW r \in Replicas, ReadCampaign(r), OneAtATime'
  PROVE  AloneInv'
<1> USE DEF AloneInv
<1>1. /\ newest = 0 \/ newest \in Campaigns
      /\ added \in [Replicas -> [Campaigns -> Nat]]
      /\ countRead \in [Replicas -> [Campaigns -> Nat]]
  BY WebhookAssumption
     DEF ExactInv, TypeInv, CountInv, Campaigns, WebhookAssumption
<1>2. UNCHANGED <<overlapped, replyCount, counted>>
  BY DEF ReadCampaign, tables
<1>3. ASSUME NEW s \in Replicas, NEW c \in Campaigns, added'[s][c] > 0, ~overlapped
      PROVE  countRead'[s][c] = replyCount[c]
  <2>1. CASE newest # 0 /\ s = r /\ c = newest
    <3>1. countRead'[s][c] = IF added[s][c] > 0 THEN countRead[s][c]
                                                ELSE replyCount[c]
      BY <1>1, <2>1 DEF ReadCampaign
    <3> QED BY <1>3, <3>1 DEF ExactInv
  <2>2. CASE ~(newest # 0 /\ s = r /\ c = newest)
    <3>1. added'[s][c] = added[s][c] /\ countRead'[s][c] = countRead[s][c]
      BY <1>1, <2>2 DEF ReadCampaign
    <3> QED BY <1>3, <3>1 DEF ExactInv
  <2> QED BY <2>1, <2>2
<1> QED BY <1>2, <1>3 DEF ExactInv

(* What it commits is what the table has and what it counted: there is no  *)
(* other session that has read the table.                                  *)
LEMMA AloneCommit ==
  ASSUME ExactInv, NEW r \in Replicas, Commit(r), OneAtATime'
  PROVE  AloneInv'
<1> SUFFICES ASSUME ~overlapped'
             PROVE  /\ \A c \in Campaigns : replyCount'[c] = counted'[c]
                    /\ \A s \in Replicas, c \in Campaigns :
                         added'[s][c] > 0 => countRead'[s][c] = replyCount'[c]
  BY DEF AloneInv
<1>1. ~overlapped
  BY DEF Commit
<1>2. /\ added \in [Replicas -> [Campaigns -> Nat]]
      /\ replyCount \in [Campaigns -> Nat] /\ counted \in [Campaigns -> Nat]
  BY DEF ExactInv, TypeInv, CountInv
<1>3. /\ replyCount' = [c \in Campaigns |-> IF added[r][c] > 0
                                            THEN countRead[r][c] + added[r][c]
                                            ELSE replyCount[c]]
      /\ counted' = [c \in Campaigns |-> counted[c] + added[r][c]]
      /\ added' = [added EXCEPT ![r] = NoCount]
  BY DEF Commit, CloseSession
<1>4. ASSUME NEW c \in Campaigns
      PROVE  replyCount'[c] = counted'[c]
  <2>1. /\ replyCount[c] = counted[c]
        /\ added[r][c] > 0 => countRead[r][c] = replyCount[c]
    BY <1>1 DEF ExactInv, AloneInv
  <2> QED BY <1>2, <1>3, <2>1
<1>5. ASSUME NEW s \in Replicas, NEW c \in Campaigns
      PROVE  added'[s][c] = 0
  <2>1. CASE s = r
    BY <1>2, <1>3, <2>1 DEF NoCount
  <2>2. CASE s # r
    <3>1. pc[s] = "idle"
      BY <1>1, <2>2 DEF ExactInv, AloneInv, OneAtATime, Commit
    <3> QED BY <1>2, <1>3, <2>2, <3>1 DEF ExactInv, EmptyInv, NoCount
  <2> QED BY <2>1, <2>2
<1> QED BY <1>4, <1>5

(* A worker's event counts while no session is open.                       *)
LEMMA AloneWorker ==
  ASSUME ExactInv, WorkerMessage, OneAtATime'
  PROVE  AloneInv'
<1> SUFFICES ASSUME ~overlapped'
             PROVE  /\ \A c \in Campaigns : replyCount'[c] = counted'[c]
                    /\ \A s \in Replicas, c \in Campaigns :
                         added'[s][c] > 0 => countRead'[s][c] = replyCount'[c]
  BY DEF AloneInv
<1>1. ~overlapped /\ \A r \in Replicas : pc[r] = "idle"
  BY DEF WorkerMessage
<1>2. PICK c \in 1 .. newest :
        /\ replyCount' = [replyCount EXCEPT ![c] = replyCount[c] + 1]
        /\ counted' = [counted EXCEPT ![c] = counted[c] + 1]
  BY DEF WorkerMessage
<1>3. \A d \in Campaigns : replyCount'[d] = counted'[d]
  BY <1>1, <1>2 DEF ExactInv, TypeInv, CountInv, AloneInv
<1>4. \A s \in Replicas, d \in Campaigns : added'[s][d] = 0
  BY <1>1 DEF WorkerMessage, session, ExactInv, EmptyInv, NoCount
<1> QED BY <1>3, <1>4

(* Every step keeps it.                                                    *)
LEMMA ExactStep == ExactInv /\ [Next]_vars => ExactInv'
<1> SUFFICES ASSUME ExactInv, [Next]_vars PROVE ExactInv'
  OBVIOUS
<1>1. TypeInv' /\ EmptyInv'
  BY TypeStep, EmptyStep DEF ExactInv
<1>2. ~overlapped' => ~overlapped /\ OneAtATime'
  BY OneAtATimeStep DEF ExactInv, AloneInv
<1> SUFFICES ASSUME ~overlapped', ~overlapped, OneAtATime'
             PROVE  AloneInv'
  BY <1>1, <1>2 DEF ExactInv, AloneInv
<1>3. ASSUME UNCHANGED <<replyCount, counted, added, countRead>>
      PROVE  AloneInv'
  BY <1>3 DEF ExactInv, AloneInv
<1>4. ASSUME NEW r \in Replicas, Receive(r) \/ HandlerStep(r) \/ HandlerFails(r)
      PROVE  AloneInv'
  <2>1. CASE Receive(r) \/ PassLimit(r) \/ ReadLead(r) \/ Reply(r)
    BY <1>3, <2>1 DEF Receive, PassLimit, ReadLead, Reply, tables, session
  <2>2. CASE ReadCampaign(r)
    BY <2>2, AloneReadCampaign
  <2>3. CASE Commit(r)
    BY <2>3, AloneCommit
  <2>4. CASE CommitClashes(r) \/ HandlerFails(r)
    <3>1. CloseSession(r) /\ UNCHANGED <<replyCount, counted>>
      BY <2>4 DEF CommitClashes, HandlerFails, Deny, ReplyRaises, Abort, tables
    <3>2. /\ added' = [added EXCEPT ![r] = NoCount]
          /\ countRead' = [countRead EXCEPT ![r] = NoCount]
      BY <3>1 DEF CloseSession
    <3>3. ASSUME NEW s \in Replicas, NEW c \in Campaigns, added'[s][c] > 0
          PROVE  countRead'[s][c] = replyCount[c]
      <4>1. s # r
        BY <3>2, <3>3 DEF ExactInv, TypeInv, CountInv, NoCount
      <4>2. added'[s] = added[s] /\ countRead'[s] = countRead[s]
        BY <3>2, <4>1 DEF ExactInv, TypeInv, CountInv
      <4> QED BY <3>3, <4>2 DEF ExactInv, AloneInv
    <3> QED BY <3>1, <3>3 DEF ExactInv, AloneInv
  <2> QED BY <1>4, <2>1, <2>2, <2>3, <2>4 DEF HandlerStep
<1>5. ASSUME NEW e \in Editors, EditRead(e) \/ EditCommit(e)
      PROVE  AloneInv'
  BY <1>3, <1>5 DEF EditRead, EditCommit, tables, session
<1>6. CASE CreateCampaign \/ UNCHANGED vars
  BY <1>3, <1>6 DEF CreateCampaign, vars, tables, session
<1>7. CASE WorkerMessage
  BY <1>7, AloneWorker
<1> QED BY <1>4, <1>5, <1>6, <1>7 DEF Next

(* Requests that do not overlap, with each other or with a worker's event, *)
(* lose no reply: each campaign shows the messages that count for it,      *)
(* however many of them a session counted and whatever failed.             *)
THEOREM NoReplyIsMissed == Spec => []CountExact
<1>1. ExactInv => CountExact
  BY DEF ExactInv, AloneInv, CountExact
<1> QED BY <1>1, ExactInit, ExactStep, PTL DEF Spec

(***************************************************************************)
(* The message a lead is of                                                *)
(***************************************************************************)
OfOneMessage(row) ==
  /\ \E phone \in BOOLEAN : row.score = CalculateScore(row.interest, phone)
  /\ row.status = DetermineStatus(row.interest, row.score)

(* While requests do not overlap and nobody edits, the rows of the table   *)
(* and of the session are of one message each, and the table has what the  *)
(* session has loaded.                                                     *)
MessageInv ==
  ~overlapped /\ budget.edit = MaxEdits =>
    /\ \A e \in Editors : epc[e] = "idle"
    /\ \A u \in Users : leads[u] # NoLead => OfOneMessage(leads[u])
    /\ \A r \in Replicas, u \in Users : current[r][u] # NoLead =>
         loaded[r][u] = leads[u] /\ OfOneMessage(current[r][u])
    /\ \A r \in Replicas : \A i \in DOMAIN fresh[r] :
         OfOneMessage(fresh[r][i].row)

OneMessageInv == ExactInv /\ MessageInv

(* A new lead is of its message, and so is one a message changes.          *)
LEMMA MessageOfRow ==
  ASSUME NEW t \in Texts
  PROVE  /\ OfOneMessage(NewLead(t))
         /\ \A lead \in Leads : OfOneMessage(ChangedLead(lead, t))
<1>1. OfOneMessage(NewLead(t))
  BY DEF OfOneMessage, NewLead
<1>2. ASSUME NEW lead \in Leads
      PROVE  OfOneMessage(ChangedLead(lead, t))
  <2>1. (t.phone \/ lead.phone) \in BOOLEAN
    OBVIOUS
  <2> QED BY <2>1 DEF OfOneMessage, ChangedLead
<1> QED BY <1>1, <1>2

(* An UPDATE of the row that was loaded leaves the row of the session.     *)
LEMMA UpdatedAlone ==
  ASSUME NEW row \in Leads, NEW now \in Leads
  PROVE  Updated(row, row, now) = now
<1>1. now = [phone |-> now.phone, interest |-> now.interest, score |-> now.score,
             status |-> now.status, price |-> now.price]
  BY DEF Leads
<1>2. \A kept, new : Column(kept, kept, new) = new
  BY DEF Column
<1> QED BY <1>1, <1>2 DEF Updated

(* It holds before the first request.                                      *)
LEMMA OneMessageInit == Init => OneMessageInv
<1> SUFFICES ASSUME Init PROVE MessageInv
  BY ExactInit DEF OneMessageInv
<1>1. /\ \A e \in Editors : epc[e] = "idle"
      /\ \A u \in Users : leads[u] = NoLead
      /\ \A r \in Replicas, u \in Users : current[r][u] = NoLead
      /\ \A r \in Replicas : fresh[r] = <<>>
  BY DEF Init, Nobody
<1> QED BY <1>1 DEF MessageInv

(* The handler makes a row of the message it reads.                        *)
LEMMA MessageReadLead ==
  ASSUME OneMessageInv, NEW r \in Replicas, ReadLead(r)
  PROVE  MessageInv'
<1> SUFFICES ASSUME ~overlapped', budget'.edit = MaxEdits
             PROVE  /\ \A e \in Editors : epc'[e] = "idle"
                    /\ \A u \in Users : leads'[u] # NoLead => OfOneMessage(leads'[u])
                    /\ \A s \in Replicas, u \in Users : current'[s][u] # NoLead =>
                         /\ loaded'[s][u] = leads'[u]
                         /\ OfOneMessage(current'[s][u])
                    /\ \A s \in Replicas : \A i \in DOMAIN fresh'[s] :
                         OfOneMessage(fresh'[s][i].row)
  BY DEF MessageInv, OfOneMessage
<1> DEFINE u == Head(todo[r]).user
           t == Head(todo[r]).text
           row == IF current[r][u] # NoLead THEN current[r][u] ELSE leads[u]
<1>1. /\ ~overlapped /\ budget.edit = MaxEdits
      /\ UNCHANGED <<leads, epc>>
      /\ pc[r] = "lead"
  BY DEF ReadLead, tables, edits
<1>2. RowsInv
  BY DEF OneMessageInv, ExactInv, TypeInv
<1>3. u \in Users /\ t \in Texts
  BY <1>1, <1>2, HeadIsMessage DEF Messages
<1>4. /\ row \in Leads \cup {NoLead}
      /\ DOMAIN fresh = Replicas /\ fresh[r] \in Seq(NewLeads)
      /\ loaded \in [Replicas -> [Users -> Leads \cup {NoLead}]]
      /\ current \in [Replicas -> [Users -> Leads \cup {NoLead}]]
  BY <1>2, <1>3 DEF RowsInv, LeadsInv
<1>5. /\ \A e \in Editors : epc[e] = "idle"
      /\ \A v \in Users : leads[v] # NoLead => OfOneMessage(leads[v])
      /\ \A s \in Replicas, v \in Users : current[s][v] # NoLead =>
           loaded[s][v] = leads[v] /\ OfOneMessage(current[s][v])
      /\ \A s \in Replicas : \A i \in DOMAIN fresh[s] :
           OfOneMessage(fresh[s][i].row)
  BY <1>1 DEF OneMessageInv, MessageInv
<1>6. CASE row = NoLead
  <2> DEFINE x == [user |-> u, row |-> NewLead(t)]
  <2>1. fresh' = [fresh EXCEPT ![r] = Append(fresh[r], x)]
        /\ UNCHANGED <<loaded, current>>
    BY <1>6 DEF ReadLead
  <2>2. OfOneMessage(x.row)
    BY <1>3, MessageOfRow
  <2>3. x \in NewLeads
    BY <1>3, NewLeadType DEF NewLeads
  <2> HIDE DEF x
  <2>4. ASSUME NEW s \in Replicas, NEW i \in DOMAIN fresh'[s]
        PROVE  OfOneMessage(fresh'[s][i].row)
    <3>1. CASE s = r
      <4>1. fresh'[s] = Append(fresh[r], x)
        BY <1>4, <2>1, <3>1
      <4>2. \/ i \in DOMAIN fresh[r] /\ fresh'[s][i] = fresh[r][i]
            \/ fresh'[s][i] = x
        BY <1>4, <2>3, <2>4, <4>1
      <4> QED BY <1>5, <2>2, <4>2
    <3>2. CASE s # r
      <4>1. fresh'[s] = fresh[s]
        BY <1>4, <2>1, <3>2
      <4> QED BY <1>5, <2>4, <4>1
    <3> QED BY <3>1, <3>2
  <2> QED BY <1>1, <1>5, <2>1, <2>4
<1>7. CASE row # NoLead
  <2> DEFINE old == IF current[r][u] # NoLead THEN loaded[r][u] ELSE row
             new == ChangedLead(row, t)
  <2>1. /\ loaded' = [loaded EXCEPT ![r][u] = old]
        /\ current' = [current EXCEPT ![r][u] = new]
        /\ UNCHANGED fresh
    BY <1>7 DEF ReadLead
  <2>2. OfOneMessage(new)
    BY <1>3, <1>4, <1>7, MessageOfRow
  <2>3. old = leads[u]
    BY <1>3, <1>5
  <2> HIDE DEF old, new
  <2>4. ASSUME NEW s \in Replicas, NEW v \in Users, current'[s][v] # NoLead
        PROVE  loaded'[s][v] = leads[v] /\ OfOneMessage(current'[s][v])
    <3>1. CASE s = r /\ v = u
      <4>1. loaded'[s][v] = old /\ current'[s][v] = new
        BY <1>3, <1>4, <2>1, <3>1
      <4> QED BY <2>2, <2>3, <3>1, <4>1
    <3>2. CASE ~(s = r /\ v = u)
      <4>1. loaded'[s][v] = loaded[s][v] /\ current'[s][v] = current[s][v]
        BY <1>3, <1>4, <2>1, <3>2
      <4> QED BY <1>5, <2>4, <4>1
    <3> QED BY <3>1, <3>2
  <2> QED BY <1>1, <1>5, <2>1, <2>4
<1> QED BY <1>6, <1>7

(* A commit writes the rows of its session; no other session is open.      *)
LEMMA MessageCommit ==
  ASSUME OneMessageInv, NEW r \in Replicas, Commit(r)
  PROVE  MessageInv'
<1> SUFFICES ASSUME ~overlapped', budget'.edit = MaxEdits
             PROVE  /\ \A e \in Editors : epc'[e] = "idle"
                    /\ \A u \in Users : leads'[u] # NoLead => OfOneMessage(leads'[u])
                    /\ \A s \in Replicas, u \in Users : current'[s][u] = NoLead
                    /\ \A s \in Replicas : fresh'[s] = <<>>
  BY DEF MessageInv, OfOneMessage
<1>1. /\ ~overlapped /\ budget.edit = MaxEdits
      /\ epc' = epc /\ pc[r] = "commit" /\ ~Clash(r)
      /\ leads' = [u \in Users |-> WrittenLead(r, u)]
      /\ current' = [current EXCEPT ![r] = Nobody]
      /\ fresh' = [fresh EXCEPT ![r] = <<>>]
  BY DEF Commit, CloseSession, edits
<1>2. RowsInv
  BY DEF OneMessageInv, ExactInv, TypeInv
<1>3. /\ \A e \in Editors : epc[e] = "idle"
      /\ \A u \in Users : leads[u] # NoLead => OfOneMessage(leads[u])
      /\ \A u \in Users : current[r][u] # NoLead =>
           loaded[r][u] = leads[u] /\ OfOneMessage(current[r][u])
      /\ \A i \in DOMAIN fresh[r] : OfOneMessage(fresh[r][i].row)
  BY <1>1 DEF OneMessageInv, MessageInv
<1>4. ASSUME NEW s \in Replicas
      PROVE  current'[s] = Nobody /\ fresh'[s] = <<>>
  <2>1. DOMAIN current = Replicas /\ DOMAIN fresh = Replicas
    BY <1>2 DEF RowsInv, LeadsInv
  <2>2. s # r => pc[s] = "idle"
    BY <1>1 DEF OneMessageInv, ExactInv, AloneInv, OneAtATime
  <2>3. s # r => current[s] = Nobody /\ fresh[s] = <<>>
    BY <2>2 DEF OneMessageInv, ExactInv, EmptyInv
  <2> QED BY <1>1, <2>1, <2>3
<1>5. ASSUME NEW u \in Users, leads'[u] # NoLead
      PROVE  OfOneMessage(leads'[u])
  <2>1. leads'[u] = WrittenLead(r, u)
    BY <1>1
  <2>2. CASE Inserted(r, u) # {}
    <3>1. WrittenLead(r, u) \in Inserted(r, u)
      BY <2>2 DEF WrittenLead
    <3>2. \A row \in Inserted(r, u) : OfOneMessage(row)
      BY <1>3 DEF Inserted
    <3> QED BY <2>1, <3>1, <3>2
  <2>3. CASE Inserted(r, u) = {} /\ current[r][u] # NoLead
    <3>1. /\ loaded[r][u] = leads[u]
          /\ leads[u] \in Leads /\ current[r][u] \in Leads
      BY <1>2, <1>3, <2>3 DEF RowsInv, LeadsInv, SessionsInv
    <3>2. leads'[u] = current[r][u]
      BY <2>1, <2>3, <3>1, UpdatedAlone DEF WrittenLead
    <3> QED BY <1>3, <2>3, <3>2
  <2>4. CASE Inserted(r, u) = {} /\ current[r][u] = NoLead
    <3>1. leads'[u] = leads[u]
      BY <2>1, <2>4 DEF WrittenLead
    <3> QED BY <1>3, <1>5, <3>1
  <2> QED BY <2>2, <2>3, <2>4
<1>6. \A s \in Replicas, u \in Users : current'[s][u] = NoLead
  BY <1>4 DEF Nobody
<1> QED BY <1>1, <1>3, <1>4, <1>5, <1>6

(* Every step keeps it.                                                    *)
LEMMA OneMessageStep == OneMessageInv /\ [Next]_vars => OneMessageInv'
<1> SUFFICES ASSUME OneMessageInv, [Next]_vars PROVE MessageInv'
  BY ExactStep DEF OneMessageInv
<1> SUFFICES ASSUME ~overlapped', budget'.edit = MaxEdits PROVE MessageInv'
  BY DEF MessageInv
<1>1. ~overlapped
  BY OneAtATimeStep DEF OneMessageInv, ExactInv, AloneInv
<1>2. ASSUME UNCHANGED <<leads, loaded, current, fresh, epc>>,
             budget.edit = MaxEdits
      PROVE  MessageInv'
  BY <1>1, <1>2 DEF OneMessageInv, MessageInv, OfOneMessage
<1>3. ASSUME NEW kind \in {"request", "worker", "deny", "failure"}, Spend(kind)
      PROVE  budget.edit = MaxEdits
  BY <1>3 DEF Spend, OneMessageInv, ExactInv, TypeInv, BudgetInv
<1>4. ASSUME budget' = budget PROVE budget.edit = MaxEdits
  BY <1>4
<1>5. ASSUME NEW r \in Replicas, Receive(r) \/ HandlerStep(r) \/ HandlerFails(r)
      PROVE  MessageInv'
  <2>1. CASE Receive(r)
    BY <1>2, <1>3, <2>1 DEF Receive, tables, session, edits
  <2>2. CASE PassLimit(r) \/ ReadCampaign(r) \/ Reply(r)
    BY <1>2, <1>4, <2>2 DEF PassLimit, ReadCampaign, Reply, tables, session, edits
  <2>3. CASE ReadLead(r)
    BY <2>3, MessageReadLead
  <2>4. CASE Commit(r)
    BY <2>4, MessageCommit
  <2>5. CASE CommitClashes(r) \/ HandlerFails(r)
    <3>1. /\ CloseSession(r) /\ UNCHANGED <<leads, epc>>
          /\ budget.edit = MaxEdits
      BY <1>3, <1>4, <2>5
         DEF CommitClashes, HandlerFails, Deny, ReplyRaises, Abort, tables, edits
    <3>2. /\ \A e \in Editors : epc[e] = "idle"
          /\ \A u \in Users : leads[u] # NoLead => OfOneMessage(leads[u])
          /\ \A s \in Replicas, u \in Users : current[s][u] # NoLead =>
               loaded[s][u] = leads[u] /\ OfOneMessage(current[s][u])
          /\ \A s \in Replicas : \A i \in DOMAIN fresh[s] :
               OfOneMessage(fresh[s][i].row)
      BY <1>1, <3>1 DEF OneMessageInv, MessageInv
    <3>3. ASSUME NEW s \in Replicas
          PROVE  /\ s = r => current'[s] = Nobody /\ fresh'[s] = <<>>
                 /\ s # r => /\ loaded'[s] = loaded[s]
                             /\ current'[s] = current[s] /\ fresh'[s] = fresh[s]
      BY <3>1 DEF CloseSession, OneMessageInv, ExactInv, TypeInv, RowsInv, LeadsInv
    <3>4. \A s \in Replicas, u \in Users : current'[s][u] # NoLead =>
            loaded'[s][u] = leads[u] /\ OfOneMessage(current'[s][u])
      BY <3>2, <3>3 DEF Nobody
    <3>5. \A s \in Replicas : \A i \in DOMAIN fresh'[s] :
            OfOneMessage(fresh'[s][i].row)
      BY <3>2, <3>3
    <3> QED BY <3>1, <3>2, <3>4, <3>5 DEF MessageInv, OfOneMessage
  <2> QED BY <1>5, <2>1, <2>2, <2>3, <2>4, <2>5 DEF HandlerStep
<1>6. ASSUME NEW e \in Editors, EditRead(e) \/ EditCommit(e)
      PROVE  MessageInv'
  <2>1. ~EditRead(e)
    <3> SUFFICES ASSUME Spend("edit") PROVE FALSE
      BY DEF EditRead
    <3>1. /\ budget'.edit = budget.edit - 1
          /\ budget.edit \in Nat /\ budget.edit <= MaxEdits
      BY DEF Spend, OneMessageInv, ExactInv, TypeInv, BudgetInv
    <3>2. MaxEdits \in Nat
      BY WebhookAssumption DEF WebhookAssumption
    <3> QED BY <3>1, <3>2
  <2>2. ~EditCommit(e)
    <3> SUFFICES ASSUME EditCommit(e) PROVE FALSE
      OBVIOUS
    <3>1. epc[e] # "idle" /\ budget.edit = MaxEdits
      BY <1>4 DEF EditCommit
    <3> QED BY <1>1, <3>1 DEF OneMessageInv, MessageInv
  <2> QED BY <1>6, <2>1, <2>2
<1>7. CASE CreateCampaign \/ UNCHANGED vars
  BY <1>2, <1>4, <1>7 DEF CreateCampaign, vars, tables, session, edits
<1>8. CASE WorkerMessage
  BY <1>2, <1>3, <1>8 DEF WorkerMessage, session, edits
<1> QED BY <1>5, <1>6, <1>7, <1>8 DEF Next

(* A lead that only requests write, one after the other, has the score and *)
(* the status of one message: no session mixes two of a user, and one that *)
(* is rolled back leaves nothing of itself.                                *)
THEOREM LeadsAreOfOneMessage == Spec => []LeadIsOfOneMessage
<1>1. OneMessageInv => LeadIsOfOneMessage
  BY DEF OneMessageInv, MessageInv, OfOneMessage, LeadIsOfOneMessage
<1> QED BY <1>1, OneMessageInit, OneMessageStep, PTL DEF Spec
=============================================================================
