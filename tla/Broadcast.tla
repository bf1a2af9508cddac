----------------------------- MODULE Broadcast ------------------------------
(***************************************************************************)
(* A broadcast campaign from the API call to the LINE recipients.          *)
(*                                                                         *)
(*   create_broadcast (backend/api/main.py) commits a campaign, offers an  *)
(*   event to Redis, then to Kafka, and when both fail pushes to the       *)
(*   recipients itself.                                                    *)
(*   Worker.run (backend/worker/worker.py), in several replicas of one     *)
(*   Kafka consumer group, pops the Redis list, polls the Kafka topic,     *)
(*   delivers each event with process_broadcast inside one database        *)
(*   transaction, dead-letters what failed and commits the Kafka position. *)
(*                                                                         *)
(* Redis, Kafka, PostgreSQL and LINE are modelled from how the code uses   *)
(* them.  One Kafka partition stands for the topic `events.broadcasts`.    *)
(***************************************************************************)
EXTENDS Integers, Sequences, FiniteSets, SequencesExt

CONSTANTS
  Campaigns,       \* ids of the campaigns the API may create
  Leads,           \* user ids of the leads
  Tenants,
  CampaignTenant,  \* the tenant a campaign belongs to
  LeadTenant,      \* the tenant a lead belongs to
  Connected,       \* the tenants that have a line_channel_token
  Workers,         \* the worker replicas
  Statuses,        \* the lead statuses in play
  Targets,         \* the target statuses campaigns are created with
  RedisConfigured, \* whether REDIS_URL is set for the API
  MaxPoll,         \* most records one consumer.poll returns
  LineResults,     \* what a push request to LINE may come back with
  MaxFaults,       \* bound on each kind of fault
  Nobody           \* no worker, no record

LeadStatuses == {"new", "cold", "warm", "hot", "closed"}   \* STATUS_ORDER
None == "none"             \* target_status: null, in the row and in the JSON

(* accepted: 2xx.  refused: an HTTP error.  lostReply and unreachable:     *)
(* requests raises, after LINE took the message or before.                 *)
AllLineResults == {"accepted", "refused", "lostReply", "unreachable"}

(* What the environment may do, each kind at most MaxFaults times.         *)
(* crash: a worker dies.  stop: a worker gets SIGTERM.  api: a request     *)
(* handler dies.  db: a statement or the commit of a worker's transaction  *)
(* raises.  dlq: publishing a dead letter raises.  evict: the group takes  *)
(* the partition from a worker that did not poll in time.  relabel: a      *)
(* lead's status changes.                                                  *)
FaultKinds == {"crash", "stop", "api", "db", "dlq", "evict", "relabel"}

ASSUME ConstantsAssumption ==
  /\ IsFiniteSet(Leads)
  /\ CampaignTenant \in [Campaigns -> Tenants]
  /\ LeadTenant \in [Leads -> Tenants]
  /\ Connected \subseteq Tenants
  /\ RedisConfigured \in BOOLEAN
  /\ Statuses \subseteq LeadStatuses
  /\ Targets \subseteq Statuses \cup {None}
  /\ MaxPoll \in Nat \ {0}
  /\ LineResults \subseteq AllLineResults
  /\ MaxFaults \in [FaultKinds -> Nat]
  /\ Nobody \notin Workers \cup Campaigns

VARIABLES
  \* the database
  status, sentCount, rows,
  target,      \* campaigns.target_status
  leadStatus,  \* leads.status
  \* one create_broadcast request per campaign
  handler,     \* where the request is
  picked,      \* recipients of the synchronous fallback
  left,        \* those it has yet to push to
  \* the transports
  redis,       \* the list queue:broadcasts
  log,         \* the Kafka topic events.broadcasts
  committed,   \* the group's committed position
  owner,       \* the group member the partition is assigned to
  dlq,         \* campaigns with a record in events.dlq
  \* the workers
  wpc,         \* where Worker.run is
  cursor,      \* position of the last record taken from the polled batch
  position,    \* the consumer's position: the end of the polled batch
  record,      \* the record in process
  source,      \* "redis" or "kafka"
  rest,        \* recipients yet to be pushed to
  sent,        \* recipients with a message row in the open transaction
  failed,      \* whether failed_count is positive
  \* LINE, and history
  delivered,   \* how often LINE took a campaign's message for a lead
  copies,      \* deliveries asked for: events appended plus sync fallbacks
  matched,     \* leads a campaign's filter has selected at some time
  budget       \* faults left

ledgerVars  == <<status, sentCount, rows>>
apiVars     == <<target, handler, picked, left>>
queueVars   == <<redis, log, committed, owner, dlq>>
pollVars    == <<cursor, position>>
txVars      == <<record, source, rest, sent, failed>>
workerVars  == <<wpc, cursor, position, record, source, rest, sent, failed>>
historyVars == <<delivered, copies, matched>>
vars == <<ledgerVars, apiVars, leadStatus, queueVars, workerVars, historyVars,
          budget>>

Ledger == INSTANCE CampaignLedger

(***************************************************************************)
(* Helpers                                                                 *)
(***************************************************************************)
Spend(kind) ==
  /\ budget[kind] > 0
  /\ budget' = [budget EXCEPT ![kind] = @ - 1]

Spent(kind) == MaxFaults[kind] - budget[kind]

(* The API's query: the status filter is left out when target_status is    *)
(* NULL.                                                                   *)
ApiRecipients(c) ==
  {u \in Leads : /\ LeadTenant[u] = CampaignTenant[c]
                 /\ target[c] = None \/ leadStatus[u] = target[c]}

(* _optional_text: str(payload.get(key, "")) of a JSON null is the text    *)
(* "None", which is not blank.                                             *)
OptionalText(value) == IF value = None THEN "None" ELSE value

(* Mutant of WorkerRecipients: the query forgets the tenant.               *)
AnyTenantRecipients(c) ==
  {u \in Leads : leadStatus[u] = OptionalText(target[c])}

(* The worker's query.                                                     *)
WorkerRecipients(c) ==
  {u \in Leads : /\ LeadTenant[u] = CampaignTenant[c]
                 /\ leadStatus[u] = OptionalText(target[c])}

Deliver(c, u) == delivered' = [delivered EXCEPT ![<<c, u>>] = @ + 1]

Publish(c) == copies' = [copies EXCEPT ![c] = @ + 1]

(***************************************************************************)
(* POST /api/broadcast                                                     *)
(***************************************************************************)
(* The campaign is committed as "queued" before anything is published.     *)
CreateBroadcast(c, t) ==
  /\ handler[c] = "idle"
  /\ Ledger!Open(c)
  /\ target' = [target EXCEPT ![c] = t]
  /\ handler' = [handler EXCEPT ![c] = IF RedisConfigured THEN "redis"
                                                          ELSE "kafka"]
  /\ UNCHANGED <<picked, left, leadStatus, queueVars, workerVars, delivered,
                 copies, budget>>
  /\ matched' = [matched EXCEPT ![c] = @ \cup
                   {u \in Leads : /\ LeadTenant[u] = CampaignTenant[c]
                                  /\ t = None \/ leadStatus[u] = t}]

(* queue_broadcast_event, Redis branch: True once RPUSH answered; any      *)
(* exception, whether or not Redis took the element, falls to Kafka.       *)
QueueInRedis(c) ==
  /\ handler[c] = "redis"
  /\ \/ /\ handler' = [handler EXCEPT ![c] = "queued"]
        /\ redis' = Append(redis, c)
        /\ Publish(c)
     \/ /\ handler' = [handler EXCEPT ![c] = "kafka"]
        /\ redis' = Append(redis, c)
        /\ Publish(c)
     \/ /\ handler' = [handler EXCEPT ![c] = "kafka"]
        /\ UNCHANGED <<redis, copies>>
  /\ UNCHANGED <<ledgerVars, target, picked, left, leadStatus, log, committed,
                 owner, dlq, workerVars, delivered, matched, budget>>

(* queue_broadcast_event, Kafka branch: any exception of send().get,       *)
(* flush or close returns False, whether or not the topic has the record.  *)
QueueInKafka(c) ==
  /\ handler[c] = "kafka"
  /\ \/ /\ handler' = [handler EXCEPT ![c] = "queued"]
        /\ log' = Append(log, c)
        /\ Publish(c)
     \/ /\ handler' = [handler EXCEPT ![c] = "fallback"]
        /\ log' = Append(log, c)
        /\ Publish(c)
     \/ /\ handler' = [handler EXCEPT ![c] = "fallback"]
        /\ UNCHANGED <<log, copies>>
  /\ UNCHANGED <<ledgerVars, target, picked, left, leadStatus, redis,
                 committed, owner, dlq, workerVars, delivered, matched, budget>>

(* Not queued: the handler selects the recipients itself.                  *)
BeginFallback(c) ==
  /\ handler[c] = "fallback"
  /\ handler' = [handler EXCEPT ![c] = "pushing"]
  /\ picked' = [picked EXCEPT ![c] = ApiRecipients(c)]
  /\ left' = [left EXCEPT ![c] = ApiRecipients(c)]
  /\ Publish(c)
  /\ UNCHANGED <<ledgerVars, target, leadStatus, queueVars, workerVars,
                 delivered, matched, budget>>

(* send_line_push: without a token no request is made; the response is not *)
(* looked at; an exception of requests leaves the handler, whose session   *)
(* rolls back.                                                             *)
FallbackPush(c, u) ==
  /\ handler[c] = "pushing"
  /\ u \in left[c]
  /\ \/ /\ CampaignTenant[c] \notin Connected
        /\ left' = [left EXCEPT ![c] = @ \ {u}]
        /\ UNCHANGED <<handler, picked, delivered>>
     \/ /\ CampaignTenant[c] \in Connected
        /\ "accepted" \in LineResults
        /\ Deliver(c, u)
        /\ left' = [left EXCEPT ![c] = @ \ {u}]
        /\ UNCHANGED <<handler, picked>>
     \/ /\ CampaignTenant[c] \in Connected
        /\ "refused" \in LineResults
        /\ left' = [left EXCEPT ![c] = @ \ {u}]
        /\ UNCHANGED <<handler, picked, delivered>>
     \/ /\ CampaignTenant[c] \in Connected
        /\ \/ /\ "lostReply" \in LineResults
              /\ Deliver(c, u)
           \/ /\ "unreachable" \in LineResults
              /\ UNCHANGED delivered
        /\ handler' = [handler EXCEPT ![c] = "failed"]
        /\ left' = [left EXCEPT ![c] = {}]
        /\ picked' = [picked EXCEPT ![c] = {}]
  /\ UNCHANGED <<ledgerVars, target, leadStatus, queueVars, workerVars, copies,
                 matched, budget>>

(* sent_count = len(recipients) and "sent", with one row per recipient.    *)
FinishFallback(c) ==
  /\ handler[c] = "pushing"
  /\ left[c] = {}
  /\ Ledger!Settle(c, picked[c], FALSE)
  /\ handler' = [handler EXCEPT ![c] = "synced"]
  /\ UNCHANGED <<target, picked, left, leadStatus, queueVars, workerVars,
                 historyVars, budget>>

(* The API process dies, or a statement of the handler raises.             *)
HandlerDies(c) ==
  /\ handler[c] \in {"redis", "kafka", "fallback", "pushing"}
  /\ Spend("api")
  /\ handler' = [handler EXCEPT ![c] = "failed"]
  /\ left' = [left EXCEPT ![c] = {}]
  /\ picked' = [picked EXCEPT ![c] = {}]
  /\ UNCHANGED <<ledgerVars, target, leadStatus, queueVars, workerVars,
                 historyVars>>

(* The webhook or PATCH /api/leads moves a lead to another status.         *)
Relabel(u, s) ==
  /\ leadStatus[u] # s
  /\ Spend("relabel")
  /\ leadStatus' = [leadStatus EXCEPT ![u] = s]
  /\ matched' = [c \in Campaigns |->
                   IF /\ status[c] # "absent"
                      /\ LeadTenant[u] = CampaignTenant[c]
                      /\ s = target[c]
                   THEN matched[c] \cup {u} ELSE matched[c]]
  /\ UNCHANGED <<ledgerVars, apiVars, queueVars, workerVars, delivered, copies>>

(***************************************************************************)
(* Worker.run                                                              *)
(***************************************************************************)
NoTransaction(w) ==
  /\ rest' = [rest EXCEPT ![w] = {}]
  /\ sent' = [sent EXCEPT ![w] = {}]
  /\ failed' = [failed EXCEPT ![w] = FALSE]

(* `while self.running`, then BRPOP: the element pushed last leaves the    *)
(* list before it is processed.                                            *)
PopRedis(w) ==
  /\ wpc[w] = "loop"
  /\ redis # <<>>
  /\ record' = [record EXCEPT ![w] = Last(redis)]
  /\ redis' = Front(redis)
  /\ source' = [source EXCEPT ![w] = "redis"]
  /\ wpc' = [wpc EXCEPT ![w] = "begin"]
  /\ UNCHANGED <<ledgerVars, apiVars, leadStatus, log, committed, owner, dlq,
                 pollVars, rest, sent, failed, historyVars, budget>>

(* Mutant of PopNothing: `continue` when BRPOP returned nothing.           *)
PopAgain(w) ==
  /\ wpc[w] = "loop"
  /\ redis = <<>>
  /\ UNCHANGED vars

(* BRPOP timed out with nothing.                                           *)
PopNothing(w) ==
  /\ wpc[w] = "loop"
  /\ redis = <<>>
  /\ wpc' = [wpc EXCEPT ![w] = "poll"]
  /\ UNCHANGED <<ledgerVars, apiVars, leadStatus, queueVars, pollVars, txVars,
                 historyVars, budget>>

(* Mutant of JoinGroup: a new assignee starts from the beginning of the    *)
(* topic.                                                                  *)
JoinAtBeginning(w) ==
  /\ wpc[w] = "poll"
  /\ owner = Nobody
  /\ owner' = w
  /\ cursor' = [cursor EXCEPT ![w] = 0]
  /\ position' = [position EXCEPT ![w] = 0]
  /\ UNCHANGED <<ledgerVars, apiVars, leadStatus, redis, log, committed, dlq,
                 wpc, txVars, historyVars, budget>>

(* consumer.poll joins the group; a new assignee starts from the committed *)
(* position (auto_offset_reset "earliest" when there is none).             *)
JoinGroup(w) ==
  /\ wpc[w] = "poll"
  /\ owner = Nobody
  /\ owner' = w
  /\ cursor' = [cursor EXCEPT ![w] = committed]
  /\ position' = [position EXCEPT ![w] = committed]
  /\ UNCHANGED <<ledgerVars, apiVars, leadStatus, redis, log, committed, dlq,
                 wpc, txVars, historyVars, budget>>

(* consumer.poll returns a batch, and the position moves past all of it.   *)
PollBatch(w) ==
  /\ wpc[w] = "poll"
  /\ owner = w
  /\ \E n \in 1 .. MaxPoll :
       /\ position[w] + n <= Len(log)
       /\ cursor' = [cursor EXCEPT ![w] = position[w]]
       /\ position' = [position EXCEPT ![w] = position[w] + n]
  /\ wpc' = [wpc EXCEPT ![w] = "batch"]
  /\ UNCHANGED <<ledgerVars, apiVars, leadStatus, queueVars, txVars,
                 historyVars, budget>>

(* consumer.poll times out: there is nothing, the answer of the broker is  *)
(* late, or the partition is another member's.                             *)
PollNothing(w) ==
  /\ wpc[w] = "poll"
  /\ wpc' = [wpc EXCEPT ![w] = "loop"]
  /\ UNCHANGED <<ledgerVars, apiVars, leadStatus, queueVars, pollVars, txVars,
                 historyVars, budget>>

(* The next record of the batch.                                           *)
TakeRecord(w) ==
  /\ wpc[w] = "batch"
  /\ cursor[w] < position[w]
  /\ cursor' = [cursor EXCEPT ![w] = @ + 1]
  /\ record' = [record EXCEPT ![w] = log[cursor[w] + 1]]
  /\ source' = [source EXCEPT ![w] = "kafka"]
  /\ wpc' = [wpc EXCEPT ![w] = "begin"]
  /\ UNCHANGED <<ledgerVars, apiVars, leadStatus, queueVars, position, rest,
                 sent, failed, historyVars, budget>>

EndBatch(w) ==
  /\ wpc[w] = "batch"
  /\ cursor[w] = position[w]
  /\ wpc' = [wpc EXCEPT ![w] = "loop"]
  /\ UNCHANGED <<ledgerVars, apiVars, leadStatus, queueVars, pollVars, txVars,
                 historyVars, budget>>

(* process_broadcast opens its transaction and reads the recipients.  (Its *)
(* tenant and campaign exist: no code deletes either, and the API commits  *)
(* the campaign before it publishes, which EventsAreCommitted checks.)     *)
BeginBroadcast(w) ==
  /\ wpc[w] = "begin"
  /\ rest' = [rest EXCEPT ![w] = WorkerRecipients(record[w])]
  /\ sent' = [sent EXCEPT ![w] = {}]
  /\ failed' = [failed EXCEPT ![w] = FALSE]
  /\ wpc' = [wpc EXCEPT ![w] = "push"]
  /\ UNCHANGED <<ledgerVars, apiVars, leadStatus, queueVars, pollVars, record,
                 source, historyVars, budget>>

(* Mutant of WorkerPush: the message row is committed on its own.          *)
PushWithRow(w, u) ==
  /\ wpc[w] = "push"
  /\ u \in rest[w]
  /\ rest' = [rest EXCEPT ![w] = @ \ {u}]
  /\ Deliver(record[w], u)
  /\ rows' = [rows EXCEPT ![<<record[w], u>>] = @ + 1]
  /\ UNCHANGED <<status, sentCount, apiVars, leadStatus, queueVars, wpc,
                 pollVars, record, source, sent, failed, copies, matched,
                 budget>>

(* line_push and, when it returned True, the insert into messages.         *)
WorkerPush(w, u) ==
  /\ wpc[w] = "push"
  /\ u \in rest[w]
  /\ rest' = [rest EXCEPT ![w] = @ \ {u}]
  /\ \/ /\ CampaignTenant[record[w]] \notin Connected
        /\ failed' = [failed EXCEPT ![w] = TRUE]
        /\ UNCHANGED <<sent, delivered>>
     \/ /\ CampaignTenant[record[w]] \in Connected
        /\ "accepted" \in LineResults
        /\ Deliver(record[w], u)
        /\ sent' = [sent EXCEPT ![w] = @ \cup {u}]
        /\ UNCHANGED failed
     \/ /\ CampaignTenant[record[w]] \in Connected
        /\ \/ /\ "lostReply" \in LineResults
              /\ Deliver(record[w], u)
           \/ /\ LineResults \cap {"refused", "unreachable"} # {}
              /\ UNCHANGED delivered
        /\ failed' = [failed EXCEPT ![w] = TRUE]
        /\ UNCHANGED sent
  /\ UNCHANGED <<ledgerVars, apiVars, leadStatus, queueVars, wpc, pollVars,
                 record, source, copies, matched, budget>>

(* After a record: a Redis record goes back to the top of the loop, a      *)
(* Kafka record to consumer.commit.                                        *)
AfterRecord(w) == IF source[w] = "redis" THEN "loop" ELSE "commit"

(* Mutant of FinishBroadcast: the message rows are not in the transaction. *)
FinishWithoutRows(w) ==
  /\ wpc[w] = "push"
  /\ rest[w] = {}
  /\ status' = [status EXCEPT ![record[w]] =
                  Ledger!OutcomeOf(sent[w], failed[w])]
  /\ sentCount' = [sentCount EXCEPT ![record[w]] = Cardinality(sent[w])]
  /\ wpc' = [wpc EXCEPT ![w] = AfterRecord(w)]
  /\ NoTransaction(w)
  /\ record' = [record EXCEPT ![w] = Nobody]
  /\ UNCHANGED <<rows, apiVars, leadStatus, queueVars, pollVars, source,
                 historyVars, budget>>

(* The update of the campaign and the commit of the transaction.           *)
FinishBroadcast(w) ==
  /\ wpc[w] = "push"
  /\ rest[w] = {}
  /\ Ledger!Settle(record[w], sent[w], failed[w])
  /\ wpc' = [wpc EXCEPT ![w] = AfterRecord(w)]
  /\ NoTransaction(w)
  /\ record' = [record EXCEPT ![w] = Nobody]
  /\ UNCHANGED <<apiVars, leadStatus, queueVars, pollVars, source,
                 historyVars, budget>>

(* Mutants of RollBack: the record is tried again, or its error swallowed. *)
RollBackAnd(w, next) ==
  /\ wpc[w] \in {"begin", "push"}
  /\ Spend("db")
  /\ wpc' = [wpc EXCEPT ![w] = next]
  /\ NoTransaction(w)
  /\ UNCHANGED <<ledgerVars, apiVars, leadStatus, queueVars, pollVars, source,
                 historyVars>>

RollBackAndRetry(w) == RollBackAnd(w, "begin") /\ UNCHANGED record
RollBackSilently(w) ==
  RollBackAnd(w, AfterRecord(w)) /\ record' = [record EXCEPT ![w] = Nobody]

(* The database raises: the transaction is rolled back.                    *)
RollBack(w) ==
  /\ wpc[w] \in {"begin", "push"}
  /\ Spend("db")
  /\ wpc' = [wpc EXCEPT ![w] = "dlq"]
  /\ NoTransaction(w)
  /\ UNCHANGED <<ledgerVars, apiVars, leadStatus, queueVars, pollVars, record,
                 source, historyVars>>

(* The commit took effect, but its answer was lost and raises.             *)
CommitRaises(w) ==
  /\ wpc[w] = "push"
  /\ rest[w] = {}
  /\ Spend("db")
  /\ Ledger!Settle(record[w], sent[w], failed[w])
  /\ wpc' = [wpc EXCEPT ![w] = "dlq"]
  /\ NoTransaction(w)
  /\ UNCHANGED <<apiVars, leadStatus, queueVars, pollVars, record, source,
                 historyVars>>

(* publish_dead_letter got its acknowledgement.                            *)
DeadLetter(w) ==
  /\ wpc[w] = "dlq"
  /\ dlq' = dlq \cup {record[w]}
  /\ wpc' = [wpc EXCEPT ![w] = AfterRecord(w)]
  /\ record' = [record EXCEPT ![w] = Nobody]
  /\ UNCHANGED <<ledgerVars, apiVars, leadStatus, redis, log, committed, owner,
                 pollVars, source, rest, sent, failed, historyVars, budget>>

(* publish_dead_letter raised: a Redis record is dropped and the iteration *)
(* goes on to Kafka; a Kafka record is left uncommitted and the batch goes *)
(* on.                                                                     *)
DeadLetterRaises(w) ==
  /\ wpc[w] = "dlq"
  /\ Spend("dlq")
  /\ wpc' = [wpc EXCEPT ![w] = IF source[w] = "redis" THEN "poll" ELSE "batch"]
  /\ record' = [record EXCEPT ![w] = Nobody]
  /\ UNCHANGED <<ledgerVars, apiVars, leadStatus, queueVars, pollVars, source,
                 rest, sent, failed, historyVars>>

(* consumer.commit() without arguments commits the consumer's position,    *)
(* the end of the whole polled batch.                                      *)
CommitPosition(w) ==
  /\ wpc[w] = "commit"
  /\ owner = w
  /\ committed' = position[w]
  /\ wpc' = [wpc EXCEPT ![w] = "batch"]
  /\ UNCHANGED <<ledgerVars, apiVars, leadStatus, redis, log, owner, dlq,
                 pollVars, txVars, historyVars, budget>>

(* What a worker that ends leaves behind: its transaction rolls back, what *)
(* it holds in memory is gone, and the group takes the partition back.     *)
Leave(w) ==
  /\ wpc' = [wpc EXCEPT ![w] = "down"]
  /\ owner' = IF owner = w THEN Nobody ELSE owner
  /\ cursor' = [cursor EXCEPT ![w] = 0]
  /\ position' = [position EXCEPT ![w] = 0]
  /\ record' = [record EXCEPT ![w] = Nobody]
  /\ NoTransaction(w)
  /\ UNCHANGED <<ledgerVars, apiVars, leadStatus, redis, log, committed, dlq,
                 source, historyVars>>

(* CommitFailedError is outside the try: it ends the process.              *)
CommitRefused(w) ==
  /\ wpc[w] = "commit"
  /\ owner # w
  /\ Leave(w)
  /\ UNCHANGED budget

(* SIGTERM clears `running`, which is read at the top of the loop only.    *)
Stop(w) ==
  /\ wpc[w] = "loop"
  /\ Spend("stop")
  /\ Leave(w)

Crash(w) ==
  /\ wpc[w] # "down"
  /\ Spend("crash")
  /\ Leave(w)

(* restart: always                                                         *)
Restart(w) ==
  /\ wpc[w] = "down"
  /\ wpc' = [wpc EXCEPT ![w] = "loop"]
  /\ UNCHANGED <<ledgerVars, apiVars, leadStatus, queueVars, pollVars, txVars,
                 historyVars, budget>>

(* The member did not poll within max.poll.interval.ms, which a slow       *)
(* process_broadcast makes possible.                                       *)
Evict(w) ==
  /\ owner = w
  /\ wpc[w] \in {"begin", "push", "dlq", "commit"}
  /\ Spend("evict")
  /\ owner' = Nobody
  /\ UNCHANGED <<ledgerVars, apiVars, leadStatus, redis, log, committed, dlq,
                 workerVars, historyVars>>

(***************************************************************************)
(* The specification                                                       *)
(***************************************************************************)
Init ==
  /\ Ledger!LedgerInit
  /\ target = [c \in Campaigns |-> None]
  /\ leadStatus \in [Leads -> Statuses]
  /\ handler = [c \in Campaigns |-> "idle"]
  /\ picked = [c \in Campaigns |-> {}]
  /\ left = [c \in Campaigns |-> {}]
  /\ redis = <<>>
  /\ log = <<>>
  /\ committed = 0
  /\ owner = Nobody
  /\ dlq = {}
  /\ wpc = [w \in Workers |-> "loop"]
  /\ cursor = [w \in Workers |-> 0]
  /\ position = [w \in Workers |-> 0]
  /\ record = [w \in Workers |-> Nobody]
  /\ source = [w \in Workers |-> "redis"]
  /\ rest = [w \in Workers |-> {}]
  /\ sent = [w \in Workers |-> {}]
  /\ failed = [w \in Workers |-> FALSE]
  /\ delivered = [p \in Campaigns \X Leads |-> 0]
  /\ copies = [c \in Campaigns |-> 0]
  /\ matched = [c \in Campaigns |-> {}]
  /\ budget = MaxFaults

HandlerStep(c) ==
  \/ QueueInRedis(c)
  \/ QueueInKafka(c)
  \/ BeginFallback(c)
  \/ \E u \in Leads : FallbackPush(c, u)
  \/ FinishFallback(c)

WorkerStep(w) ==
  \/ PopRedis(w)
  \/ PopNothing(w)
  \/ JoinGroup(w)
  \/ PollBatch(w)
  \/ PollNothing(w)
  \/ TakeRecord(w)
  \/ EndBatch(w)
  \/ BeginBroadcast(w)
  \/ \E u \in Leads : WorkerPush(w, u)
  \/ FinishBroadcast(w)
  \/ DeadLetter(w)
  \/ CommitPosition(w)
  \/ CommitRefused(w)
  \/ Restart(w)

Next ==
  \/ \E c \in Campaigns :
       \/ \E t \in Targets : CreateBroadcast(c, t)
       \/ HandlerStep(c)
       \/ HandlerDies(c)
  \/ \E u \in Leads, s \in Statuses : Relabel(u, s)
  \/ \E w \in Workers :
       \/ WorkerStep(w)
       \/ RollBack(w)
       \/ CommitRaises(w)
       \/ DeadLetterRaises(w)
       \/ Stop(w)
       \/ Crash(w)
       \/ Evict(w)

Spec == Init /\ [][Next]_vars

(* Fairness: the API's thread pool runs a started handler; a live worker   *)
(* takes its steps and the container runtime restarts a dead one; a member *)
(* that polls again and again is answered by the broker some time.         *)
FairSpec ==
  /\ Spec
  /\ \A c \in Campaigns : WF_vars(HandlerStep(c))
  /\ \A w \in Workers : /\ WF_vars(WorkerStep(w))
                         /\ SF_vars(JoinGroup(w))
                         /\ SF_vars(PollBatch(w))

(***************************************************************************)
(* Properties                                                              *)
(***************************************************************************)
Working == {"begin", "push", "dlq"}     \* wpc while a record is in process

LedgerTypeOK ==
  /\ status \in [Campaigns -> {"absent", "queued"} \cup Ledger!Outcomes]
  /\ sentCount \in [Campaigns -> Nat]
  /\ rows \in [Campaigns \X Leads -> Nat]

ApiTypeOK ==
  /\ target \in [Campaigns -> Statuses \cup {None}]
  /\ leadStatus \in [Leads -> Statuses]
  /\ handler \in [Campaigns -> {"idle", "redis", "kafka", "fallback",
                                "pushing", "queued", "synced", "failed"}]
  /\ picked \in [Campaigns -> SUBSET Leads]
  /\ left \in [Campaigns -> SUBSET Leads]

QueueTypeOK ==
  /\ redis \in Seq(Campaigns)
  /\ log \in Seq(Campaigns)
  /\ committed \in 0 .. Len(log)
  /\ owner \in Workers \cup {Nobody}
  /\ dlq \in SUBSET Campaigns

PositionTypeOK ==
  /\ cursor \in [Workers -> Nat]
  /\ position \in [Workers -> Nat]
  /\ \A w \in Workers : cursor[w] <= position[w] /\ position[w] <= Len(log)

WorkerTypeOK ==
  /\ wpc \in [Workers -> {"loop", "poll", "batch", "commit", "down"}
                           \cup Working]
  /\ record \in [Workers -> Campaigns \cup {Nobody}]
  /\ \A w \in Workers : wpc[w] \in Working <=> record[w] # Nobody
  /\ source \in [Workers -> {"redis", "kafka"}]

TransactionTypeOK ==
  /\ rest \in [Workers -> SUBSET Leads]
  /\ sent \in [Workers -> SUBSET Leads]
  /\ failed \in [Workers -> BOOLEAN]

HistoryTypeOK ==
  /\ delivered \in [Campaigns \X Leads -> Nat]
  /\ copies \in [Campaigns -> Nat]
  /\ matched \in [Campaigns -> SUBSET Leads]
  /\ budget \in [FaultKinds -> Nat]

(* Every variable has its type; a worker has a record exactly while it     *)
(* processes one; positions stay within the topic.                         *)
TypeOK ==
  /\ LedgerTypeOK
  /\ ApiTypeOK
  /\ QueueTypeOK
  /\ PositionTypeOK
  /\ WorkerTypeOK
  /\ TransactionTypeOK
  /\ HistoryTypeOK

(* What is on its way to a worker, or with one, is a committed campaign:   *)
(* create_broadcast commits before it publishes, so process_broadcast      *)
(* never raises "campaign not found".                                      *)
EventsAreCommitted ==
  /\ \A i \in 1 .. Len(redis) : status[redis[i]] # "absent"
  /\ \A i \in 1 .. Len(log) : status[log[i]] # "absent"
  /\ \A w \in Workers : record[w] # Nobody => status[record[w]] # "absent"

(* sent_count never promises more recipients than have a message row, over *)
(* any number of redeliveries, fallbacks, roll-backs and crashes.          *)
SentCountBacked ==
  \A c \in Campaigns :
    sentCount[c] <= Cardinality({u \in Leads : rows[<<c, u>>] > 0})

(* A lead gets a campaign only when it is of the campaign's tenant and the *)
(* campaign's filter selected it at some time, however its status moves    *)
(* while events wait and recipients are pushed to one by one.              *)
DeliveredOnlyToMatched ==
  \A c \in Campaigns, u \in Leads :
    delivered[<<c, u>>] > 0 => /\ u \in matched[c]
                           /\ LeadTenant[u] = CampaignTenant[c]

(* How often a lead can get the same campaign: once per copy of the event  *)
(* that was made, and once more per crash, eviction or lost dead letter,   *)
(* which each make Kafka hand out an uncommitted record again.             *)
DuplicatesAreBounded ==
  \A c \in Campaigns, u \in Leads :
    delivered[<<c, u>>] <=
      copies[c] + Spent("crash") + Spent("evict") + Spent("dlq")

(* Where a campaign whose request was answered "queued" may be.            *)
Handled(c) == status[c] \notin {"absent", "queued"} \/ c \in dlq

InTransit(c) ==
  \/ \E i \in 1 .. Len(redis) : redis[i] = c
  \/ \E i \in committed + 1 .. Len(log) : log[i] = c
  \/ \E w \in Workers : record[w] = c
  \/ \E w \in Workers : \E i \in cursor[w] + 1 .. position[w] : log[i] = c

(* Accepted, and neither handled nor anywhere on its way.                  *)
Lost ==
  {c \in Campaigns : handler[c] = "queued" /\ ~Handled(c) /\ ~InTransit(c)}

(* What the faults so far can have cost.  BRPOP and the commit of a whole  *)
(* batch let go of records before they are processed: a crash takes the    *)
(* popped record, or what is committed of the batch in memory; after an    *)
(* eviction the rest of a committed batch is dropped at the next commit;   *)
(* a dead letter that is not taken was the last of its record.             *)
MostLost == Max({1, MaxPoll - 1}) * Spent("crash")
            + Max({0, MaxPoll - 2}) * Spent("evict") + Spent("dlq")

(* An accepted broadcast is not forgotten: it is delivered, dead-lettered, *)
(* or still held by a queue or a worker, but for what those three faults   *)
(* cost.  SIGTERM, roll-backs, lost replies of commits and changes of the  *)
(* partition's owner lose nothing.                                         *)
LossIsBounded == Cardinality(Lost) <= MostLost

(* The group's committed position never moves back, whoever owns the       *)
(* partition.                                                              *)
CommittedMovesForward == [][committed' >= committed]_vars

(* Readers of the database see campaigns created and settled atomically:   *)
(* every step of API and workers is one of CampaignLedger, or none.        *)
LedgerIsImplemented == Ledger!LedgerSpec

(* An accepted broadcast is delivered or dead-lettered in the end, or one  *)
(* of those faults has lost it: none stays in a queue or with a worker.    *)
AcceptedIsHandled ==
  \A c \in Campaigns : handler[c] = "queued" ~> Handled(c) \/ c \in Lost

(***************************************************************************)
(* What the documentation claims, and the code does not keep.              *)
(***************************************************************************)
(* A campaign without a target status goes to all leads of its tenant      *)
(* (process_broadcast itself reports `target_status or "all"`).            *)
UntargetedReachesAll ==
  \A c \in Campaigns :
    target[c] = None /\ status[c] = "sent" =>
      sentCount[c] =
        Cardinality({u \in Leads : LeadTenant[u] = CampaignTenant[c]})

(* FEATURES.md:33, DLQ fallback on processing errors: the committed        *)
(* position passes a record only when it was delivered or dead-lettered,   *)
(* or a worker still has it.                                               *)
CommittedIsHandled ==
  \A i \in 1 .. committed :
    \/ Handled(log[i])
    \/ \E w \in Workers : \/ record[w] = log[i]
                          \/ i \in cursor[w] + 1 .. position[w]
=============================================================================
