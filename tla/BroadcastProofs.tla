--------------------------- MODULE BroadcastProofs --------------------------
(***************************************************************************)
(* What TLAPS proves of Broadcast, for any number of campaigns, leads,     *)
(* tenants and workers and any budget of faults: first of the ledger, then *)
(* of the events: how often a lead may get a campaign, whatever crashes,   *)
(* is evicted or loses a dead letter; and how many accepted campaigns that *)
(* can cost at most.                                                       *)
(***************************************************************************)
EXTENDS Broadcast, FiniteSetTheorems, TLAPS

USE DEF ledgerVars, apiVars, queueVars, pollVars, txVars, workerVars,
        historyVars

(***************************************************************************)
(* Facts about the parts the actions are made of                           *)
(***************************************************************************)
(* Spending a fault keeps the budget a function to naturals.               *)
LEMMA SpendType ==
  ASSUME NEW k \in FaultKinds, budget \in [FaultKinds -> Nat], Spend(k)
  PROVE  budget' \in [FaultKinds -> Nat]
BY DEF Spend

(* The faults an action spends are kinds of faults.                        *)
LEMMA Kinds ==
  {"crash", "stop", "api", "db", "dlq", "evict", "relabel"} = FaultKinds
BY DEF FaultKinds

(* A message taken by LINE keeps `delivered` a function to naturals.       *)
LEMMA DeliverType ==
  ASSUME NEW c \in Campaigns, NEW u \in Leads, Deliver(c, u),
         delivered \in [Campaigns \X Leads -> Nat]
  PROVE  delivered' \in [Campaigns \X Leads -> Nat]
BY DEF Deliver

(* Counting a copy keeps `copies` a function to naturals.                  *)
LEMMA PublishType ==
  ASSUME NEW c \in Campaigns, Publish(c), copies \in [Campaigns -> Nat]
  PROVE  copies' \in [Campaigns -> Nat]
BY DEF Publish

(* The recipients of a delivery are a finite set of leads.                 *)
LEMMA LeadsFinite ==
  ASSUME NEW S \in SUBSET Leads
  PROVE  IsFiniteSet(S) /\ Cardinality(S) \in Nat
BY ConstantsAssumption, FS_Subset, FS_CardinalityType DEF ConstantsAssumption

(* The instance's Cardinality is that of FiniteSets.                       *)
LEMMA SameCardinality == \A S : Ledger!Cardinality(S) = Cardinality(S)
BY DEF Ledger!Cardinality, Cardinality

(* Settling a delivery keeps the types of the ledger.                      *)
LEMMA SettleType ==
  ASSUME LedgerTypeOK, NEW c \in Campaigns, NEW S \in SUBSET Leads,
         NEW f \in BOOLEAN, Ledger!Settle(c, S, f)
  PROVE  LedgerTypeOK'
<1>1. status' \in [Campaigns -> {"absent", "queued"} \cup Ledger!Outcomes]
  BY DEF LedgerTypeOK, Ledger!Settle, Ledger!OutcomeOf, Ledger!Outcomes
<1>2. sentCount' \in [Campaigns -> Nat]
  BY LeadsFinite, SameCardinality DEF LedgerTypeOK, Ledger!Settle
<1>3. rows' \in [Campaigns \X Leads -> Nat]
  <2>1. \A p \in Campaigns \X Leads : rows[p] \in Nat /\ rows[p] + 1 \in Nat
    BY DEF LedgerTypeOK
  <2> QED BY <2>1 DEF Ledger!Settle
<1> QED BY <1>1, <1>2, <1>3 DEF LedgerTypeOK

(* A transaction that is closed leaves nothing pending.                    *)
LEMMA NoTransactionType ==
  ASSUME TransactionTypeOK, NEW w \in Workers, NoTransaction(w)
  PROVE  TransactionTypeOK'
BY DEF TransactionTypeOK, NoTransaction

(***************************************************************************)
(* Type correctness, one lemma per action                                  *)
(***************************************************************************)
(* Creating a campaign keeps every variable of its type.                   *)
LEMMA CreateBroadcastType ==
  ASSUME TypeOK, NEW c \in Campaigns, NEW t \in Targets,
       CreateBroadcast(c, t)
  PROVE  TypeOK'
<1>1. LedgerTypeOK'
  BY DEF CreateBroadcast, TypeOK, LedgerTypeOK, Ledger!Open
<1>2. ApiTypeOK'
  <2>1. t \in Statuses \cup {None}
    BY ConstantsAssumption DEF ConstantsAssumption
  <2> QED
    BY <2>1 DEF CreateBroadcast, TypeOK, ApiTypeOK
<1>3. HistoryTypeOK'
  BY DEF CreateBroadcast, TypeOK, HistoryTypeOK
<1>4. QueueTypeOK' /\ PositionTypeOK' /\ WorkerTypeOK' /\ TransactionTypeOK'
  BY DEF CreateBroadcast, TypeOK, QueueTypeOK, PositionTypeOK, WorkerTypeOK,
       TransactionTypeOK
<1> QED BY <1>1, <1>2, <1>3, <1>4 DEF TypeOK

(* A push to the Redis list keeps every variable of its type.              *)
LEMMA QueueInRedisType ==
  ASSUME TypeOK, NEW c \in Campaigns, QueueInRedis(c)
  PROVE  TypeOK'
<1>1. ApiTypeOK'
  BY DEF QueueInRedis, TypeOK, ApiTypeOK
<1>2. QueueTypeOK'
  <2>1. redis' = redis \/ redis' = Append(redis, c)
    BY DEF QueueInRedis
  <2>2. redis' \in Seq(Campaigns)
    BY <2>1 DEF TypeOK, QueueTypeOK
  <2> QED BY <2>2 DEF QueueInRedis, TypeOK, QueueTypeOK
<1>3. HistoryTypeOK'
  <2>1. copies' = copies \/ Publish(c)
    BY DEF QueueInRedis
  <2>2. copies' \in [Campaigns -> Nat]
    BY <2>1, PublishType DEF TypeOK, HistoryTypeOK
  <2> QED BY <2>2 DEF QueueInRedis, TypeOK, HistoryTypeOK
<1>4. LedgerTypeOK' /\ PositionTypeOK' /\ WorkerTypeOK' /\ TransactionTypeOK'
  BY DEF QueueInRedis, TypeOK, LedgerTypeOK, PositionTypeOK, WorkerTypeOK,
       TransactionTypeOK
<1> QED BY <1>1, <1>2, <1>3, <1>4 DEF TypeOK

(* A send to Kafka keeps every variable of its type.                       *)
LEMMA QueueInKafkaType ==
  ASSUME TypeOK, NEW c \in Campaigns, QueueInKafka(c)
  PROVE  TypeOK'
<1>1. ApiTypeOK'
  BY DEF QueueInKafka, TypeOK, ApiTypeOK
<1>2. QueueTypeOK'
  <2>1. log' = log \/ log' = Append(log, c)
    BY DEF QueueInKafka
  <2>2. log' \in Seq(Campaigns) /\ Len(log) <= Len(log')
    BY <2>1 DEF TypeOK, QueueTypeOK
  <2> QED BY <2>2 DEF QueueInKafka, TypeOK, QueueTypeOK
<1>3. PositionTypeOK'
  <2>1. log' = log \/ log' = Append(log, c)
    BY DEF QueueInKafka
  <2>2. Len(log) <= Len(log') /\ Len(log) \in Nat /\ Len(log') \in Nat
    BY <2>1 DEF TypeOK, QueueTypeOK
  <2> QED BY <2>2 DEF QueueInKafka, TypeOK, PositionTypeOK
<1>4. HistoryTypeOK'
  <2>1. copies' = copies \/ Publish(c)
    BY DEF QueueInKafka
  <2>2. copies' \in [Campaigns -> Nat]
    BY <2>1, PublishType DEF TypeOK, HistoryTypeOK
  <2> QED BY <2>2 DEF QueueInKafka, TypeOK, HistoryTypeOK
<1>5. LedgerTypeOK' /\ WorkerTypeOK' /\ TransactionTypeOK'
  BY DEF QueueInKafka, TypeOK, LedgerTypeOK, WorkerTypeOK, TransactionTypeOK
<1> QED BY <1>1, <1>2, <1>3, <1>4, <1>5 DEF TypeOK

(* Selecting the fallback's recipients keeps every variable of its type.   *)
LEMMA BeginFallbackType ==
  ASSUME TypeOK, NEW c \in Campaigns, BeginFallback(c)
  PROVE  TypeOK'
<1>1. ApiTypeOK'
  BY DEF BeginFallback, TypeOK, ApiTypeOK, ApiRecipients
<1>2. HistoryTypeOK'
  <2>1. copies' = copies \/ Publish(c)
    BY DEF BeginFallback
  <2>2. copies' \in [Campaigns -> Nat]
    BY <2>1, PublishType DEF TypeOK, HistoryTypeOK
  <2> QED BY <2>2 DEF BeginFallback, TypeOK, HistoryTypeOK
<1>3. LedgerTypeOK' /\ QueueTypeOK' /\ PositionTypeOK' /\ WorkerTypeOK' /\
     TransactionTypeOK'
  BY DEF BeginFallback, TypeOK, LedgerTypeOK, QueueTypeOK, PositionTypeOK,
       WorkerTypeOK, TransactionTypeOK
<1> QED BY <1>1, <1>2, <1>3 DEF TypeOK

(* A push of the fallback keeps every variable of its type.                *)
LEMMA FallbackPushType ==
  ASSUME TypeOK, NEW c \in Campaigns, NEW u \in Leads, FallbackPush(c, u)
  PROVE  TypeOK'
<1>1. ApiTypeOK'
  BY DEF FallbackPush, TypeOK, ApiTypeOK
<1>2. HistoryTypeOK'
  <2>3. delivered' = delivered \/ Deliver(c, u)
    BY DEF FallbackPush
  <2>4. delivered' \in [Campaigns \X Leads -> Nat]
    BY <2>3, DeliverType DEF TypeOK, HistoryTypeOK
  <2> QED BY <2>4 DEF FallbackPush, TypeOK, HistoryTypeOK
<1>3. LedgerTypeOK' /\ QueueTypeOK' /\ PositionTypeOK' /\ WorkerTypeOK' /\
     TransactionTypeOK'
  BY DEF FallbackPush, TypeOK, LedgerTypeOK, QueueTypeOK, PositionTypeOK,
       WorkerTypeOK, TransactionTypeOK
<1> QED BY <1>1, <1>2, <1>3 DEF TypeOK

(* Settling the fallback keeps every variable of its type.                 *)
LEMMA FinishFallbackType ==
  ASSUME TypeOK, NEW c \in Campaigns, FinishFallback(c)
  PROVE  TypeOK'
<1>1. LedgerTypeOK'
  <2>1. picked[c] \in SUBSET Leads
    BY DEF TypeOK, ApiTypeOK
  <2> QED BY <2>1, SettleType DEF FinishFallback, TypeOK
<1>2. ApiTypeOK'
  BY DEF FinishFallback, TypeOK, ApiTypeOK
<1>3. QueueTypeOK' /\ PositionTypeOK' /\ WorkerTypeOK' /\ TransactionTypeOK' /\
     HistoryTypeOK'
  BY DEF FinishFallback, TypeOK, QueueTypeOK, PositionTypeOK, WorkerTypeOK,
       TransactionTypeOK, HistoryTypeOK
<1> QED BY <1>1, <1>2, <1>3 DEF TypeOK

(* A request that dies keeps every variable of its type.                   *)
LEMMA HandlerDiesType ==
  ASSUME TypeOK, NEW c \in Campaigns, HandlerDies(c)
  PROVE  TypeOK'
<1>1. ApiTypeOK'
  BY DEF HandlerDies, TypeOK, ApiTypeOK
<1>2. HistoryTypeOK'
  <2>6. budget' \in [FaultKinds -> Nat]
    BY SpendType, Kinds DEF HandlerDies, TypeOK, HistoryTypeOK
  <2> QED BY <2>6 DEF HandlerDies, TypeOK, HistoryTypeOK
<1>3. LedgerTypeOK' /\ QueueTypeOK' /\ PositionTypeOK' /\ WorkerTypeOK' /\
     TransactionTypeOK'
  BY DEF HandlerDies, TypeOK, LedgerTypeOK, QueueTypeOK, PositionTypeOK,
       WorkerTypeOK, TransactionTypeOK
<1> QED BY <1>1, <1>2, <1>3 DEF TypeOK

(* A lead's change of status keeps every variable of its type.             *)
LEMMA RelabelType ==
  ASSUME TypeOK, NEW u \in Leads, NEW s \in Statuses, Relabel(u, s)
  PROVE  TypeOK'
<1>1. ApiTypeOK'
  BY DEF Relabel, TypeOK, ApiTypeOK
<1>2. HistoryTypeOK'
  <2>1. matched' \in [Campaigns -> SUBSET Leads]
    BY DEF Relabel, TypeOK, HistoryTypeOK
  <2>6. budget' \in [FaultKinds -> Nat]
    BY SpendType, Kinds DEF Relabel, TypeOK, HistoryTypeOK
  <2> QED BY <2>1, <2>6 DEF Relabel, TypeOK, HistoryTypeOK
<1>3. LedgerTypeOK' /\ QueueTypeOK' /\ PositionTypeOK' /\ WorkerTypeOK' /\
     TransactionTypeOK'
  BY DEF Relabel, TypeOK, LedgerTypeOK, QueueTypeOK, PositionTypeOK,
       WorkerTypeOK, TransactionTypeOK
<1> QED BY <1>1, <1>2, <1>3 DEF TypeOK

(* Taking an event off the list keeps every variable of its type.          *)
LEMMA PopRedisType ==
  ASSUME TypeOK, NEW w \in Workers, PopRedis(w)
  PROVE  TypeOK'
<1>1. QueueTypeOK'
  BY DEF PopRedis, TypeOK, QueueTypeOK, Front
<1>2. WorkerTypeOK'
  <2>1. Last(redis) \in Campaigns
    BY DEF PopRedis, TypeOK, QueueTypeOK, Last
  <2> QED BY <2>1, ConstantsAssumption
      DEF PopRedis, TypeOK, WorkerTypeOK, Working, ConstantsAssumption
<1>3. LedgerTypeOK' /\ ApiTypeOK' /\ PositionTypeOK' /\ TransactionTypeOK' /\
     HistoryTypeOK'
  BY DEF PopRedis, TypeOK, LedgerTypeOK, ApiTypeOK, PositionTypeOK,
       TransactionTypeOK, HistoryTypeOK
<1> QED BY <1>1, <1>2, <1>3 DEF TypeOK

(* An empty list keeps every variable of its type.                         *)
LEMMA PopNothingType ==
  ASSUME TypeOK, NEW w \in Workers, PopNothing(w)
  PROVE  TypeOK'
<1>1. WorkerTypeOK'
  BY ConstantsAssumption DEF PopNothing, TypeOK, WorkerTypeOK, Working,
       ConstantsAssumption
<1>2. LedgerTypeOK' /\ ApiTypeOK' /\ QueueTypeOK' /\ PositionTypeOK' /\
     TransactionTypeOK' /\ HistoryTypeOK'
  BY DEF PopNothing, TypeOK, LedgerTypeOK, ApiTypeOK, QueueTypeOK,
       PositionTypeOK, TransactionTypeOK, HistoryTypeOK
<1> QED BY <1>1, <1>2 DEF TypeOK

(* Getting the partition assigned keeps every variable of its type.        *)
LEMMA JoinGroupType ==
  ASSUME TypeOK, NEW w \in Workers, JoinGroup(w)
  PROVE  TypeOK'
<1>1. QueueTypeOK'
  BY DEF JoinGroup, TypeOK, QueueTypeOK
<1>2. PositionTypeOK'
  BY DEF JoinGroup, TypeOK, PositionTypeOK, QueueTypeOK
<1>3. LedgerTypeOK' /\ ApiTypeOK' /\ WorkerTypeOK' /\ TransactionTypeOK' /\
     HistoryTypeOK'
  BY DEF JoinGroup, TypeOK, LedgerTypeOK, ApiTypeOK, WorkerTypeOK,
       TransactionTypeOK, HistoryTypeOK
<1> QED BY <1>1, <1>2, <1>3 DEF TypeOK

(* Polling a batch within the topic keeps every variable of its type.      *)
LEMMA PollBatchType ==
  ASSUME TypeOK, NEW w \in Workers, PollBatch(w)
  PROVE  TypeOK'
<1>1. PositionTypeOK'
  <2>1. PICK n \in 1 .. MaxPoll :
          /\ position[w] + n <= Len(log)
          /\ cursor' = [cursor EXCEPT ![w] = position[w]]
          /\ position' = [position EXCEPT ![w] = position[w] + n]
    BY DEF PollBatch
  <2>2. n \in Nat
    BY ConstantsAssumption DEF ConstantsAssumption
  <2> QED BY <2>1, <2>2 DEF PollBatch, TypeOK, PositionTypeOK
<1>2. WorkerTypeOK'
  BY ConstantsAssumption DEF PollBatch, TypeOK, WorkerTypeOK, Working,
       ConstantsAssumption
<1>3. LedgerTypeOK' /\ ApiTypeOK' /\ QueueTypeOK' /\ TransactionTypeOK' /\
     HistoryTypeOK'
  BY DEF PollBatch, TypeOK, LedgerTypeOK, ApiTypeOK, QueueTypeOK,
       TransactionTypeOK, HistoryTypeOK
<1> QED BY <1>1, <1>2, <1>3 DEF TypeOK

(* An empty poll keeps every variable of its type.                         *)
LEMMA PollNothingType ==
  ASSUME TypeOK, NEW w \in Workers, PollNothing(w)
  PROVE  TypeOK'
<1>1. WorkerTypeOK'
  BY ConstantsAssumption DEF PollNothing, TypeOK, WorkerTypeOK, Working,
       ConstantsAssumption
<1>2. LedgerTypeOK' /\ ApiTypeOK' /\ QueueTypeOK' /\ PositionTypeOK' /\
     TransactionTypeOK' /\ HistoryTypeOK'
  BY DEF PollNothing, TypeOK, LedgerTypeOK, ApiTypeOK, QueueTypeOK,
       PositionTypeOK, TransactionTypeOK, HistoryTypeOK
<1> QED BY <1>1, <1>2 DEF TypeOK

(* Taking a record of the batch keeps every variable of its type.          *)
LEMMA TakeRecordType ==
  ASSUME TypeOK, NEW w \in Workers, TakeRecord(w)
  PROVE  TypeOK'
<1>1. PositionTypeOK'
  BY DEF TakeRecord, TypeOK, PositionTypeOK
<1>2. WorkerTypeOK'
  <2>1. log[cursor[w] + 1] \in Campaigns
    BY DEF TakeRecord, TypeOK, QueueTypeOK, PositionTypeOK
  <2> QED BY <2>1, ConstantsAssumption
      DEF TakeRecord, TypeOK, WorkerTypeOK, Working, ConstantsAssumption
<1>3. LedgerTypeOK' /\ ApiTypeOK' /\ QueueTypeOK' /\ TransactionTypeOK' /\
     HistoryTypeOK'
  BY DEF TakeRecord, TypeOK, LedgerTypeOK, ApiTypeOK, QueueTypeOK,
       TransactionTypeOK, HistoryTypeOK
<1> QED BY <1>1, <1>2, <1>3 DEF TypeOK

(* The end of a batch keeps every variable of its type.                    *)
LEMMA EndBatchType ==
  ASSUME TypeOK, NEW w \in Workers, EndBatch(w)
  PROVE  TypeOK'
<1>1. WorkerTypeOK'
  BY ConstantsAssumption DEF EndBatch, TypeOK, WorkerTypeOK, Working,
       ConstantsAssumption
<1>2. LedgerTypeOK' /\ ApiTypeOK' /\ QueueTypeOK' /\ PositionTypeOK' /\
     TransactionTypeOK' /\ HistoryTypeOK'
  BY DEF EndBatch, TypeOK, LedgerTypeOK, ApiTypeOK, QueueTypeOK,
       PositionTypeOK, TransactionTypeOK, HistoryTypeOK
<1> QED BY <1>1, <1>2 DEF TypeOK

(* Opening the transaction keeps every variable of its type.               *)
LEMMA BeginBroadcastType ==
  ASSUME TypeOK, NEW w \in Workers, BeginBroadcast(w)
  PROVE  TypeOK'
<1>1. WorkerTypeOK'
  BY ConstantsAssumption DEF BeginBroadcast, TypeOK, WorkerTypeOK, Working,
       ConstantsAssumption
<1>2. TransactionTypeOK'
  BY DEF BeginBroadcast, TypeOK, TransactionTypeOK, WorkerRecipients
<1>3. LedgerTypeOK' /\ ApiTypeOK' /\ QueueTypeOK' /\ PositionTypeOK' /\
     HistoryTypeOK'
  BY DEF BeginBroadcast, TypeOK, LedgerTypeOK, ApiTypeOK, QueueTypeOK,
       PositionTypeOK, HistoryTypeOK
<1> QED BY <1>1, <1>2, <1>3 DEF TypeOK

(* A push of a worker keeps every variable of its type.                    *)
LEMMA WorkerPushType ==
  ASSUME TypeOK, NEW w \in Workers, NEW u \in Leads, WorkerPush(w, u)
  PROVE  TypeOK'
<1>1. TransactionTypeOK'
  BY DEF WorkerPush, TypeOK, TransactionTypeOK
<1>2. HistoryTypeOK'
  <2>3. delivered' = delivered \/ Deliver(record[w], u)
    BY DEF WorkerPush
  <2>5. record[w] \in Campaigns
    BY ConstantsAssumption
    DEF WorkerPush, TypeOK, WorkerTypeOK, Working, ConstantsAssumption
  <2>4. delivered' \in [Campaigns \X Leads -> Nat]
    BY <2>3, <2>5, DeliverType DEF TypeOK, HistoryTypeOK
  <2> QED BY <2>4 DEF WorkerPush, TypeOK, HistoryTypeOK
<1>3. LedgerTypeOK' /\ ApiTypeOK' /\ QueueTypeOK' /\ PositionTypeOK' /\
     WorkerTypeOK'
  BY DEF WorkerPush, TypeOK, LedgerTypeOK, ApiTypeOK, QueueTypeOK,
       PositionTypeOK, WorkerTypeOK
<1> QED BY <1>1, <1>2, <1>3 DEF TypeOK

(* Committing the transaction keeps every variable of its type.            *)
LEMMA FinishBroadcastType ==
  ASSUME TypeOK, NEW w \in Workers, FinishBroadcast(w)
  PROVE  TypeOK'
<1>1. LedgerTypeOK'
  <2>1. record[w] \in Campaigns
    BY ConstantsAssumption
    DEF FinishBroadcast, TypeOK, WorkerTypeOK, Working, ConstantsAssumption
  <2>2. sent[w] \in SUBSET Leads /\ failed[w] \in BOOLEAN
    BY DEF TypeOK, TransactionTypeOK
  <2> QED BY <2>1, <2>2, SettleType DEF FinishBroadcast, TypeOK
<1>2. WorkerTypeOK'
  BY ConstantsAssumption DEF FinishBroadcast, TypeOK, WorkerTypeOK, Working,
       ConstantsAssumption, AfterRecord
<1>3. TransactionTypeOK'
  BY NoTransactionType DEF FinishBroadcast, TypeOK
<1>4. ApiTypeOK' /\ QueueTypeOK' /\ PositionTypeOK' /\ HistoryTypeOK'
  BY DEF FinishBroadcast, TypeOK, ApiTypeOK, QueueTypeOK, PositionTypeOK,
       HistoryTypeOK
<1> QED BY <1>1, <1>2, <1>3, <1>4 DEF TypeOK

(* Rolling back keeps every variable of its type.                          *)
LEMMA RollBackType ==
  ASSUME TypeOK, NEW w \in Workers, RollBack(w)
  PROVE  TypeOK'
<1>1. WorkerTypeOK'
  BY ConstantsAssumption DEF RollBack, TypeOK, WorkerTypeOK, Working,
       ConstantsAssumption
<1>2. TransactionTypeOK'
  BY NoTransactionType DEF RollBack, TypeOK
<1>3. HistoryTypeOK'
  <2>6. budget' \in [FaultKinds -> Nat]
    BY SpendType, Kinds DEF RollBack, TypeOK, HistoryTypeOK
  <2> QED BY <2>6 DEF RollBack, TypeOK, HistoryTypeOK
<1>4. LedgerTypeOK' /\ ApiTypeOK' /\ QueueTypeOK' /\ PositionTypeOK'
  BY DEF RollBack, TypeOK, LedgerTypeOK, ApiTypeOK, QueueTypeOK, PositionTypeOK
<1> QED BY <1>1, <1>2, <1>3, <1>4 DEF TypeOK

(* A commit whose answer is lost keeps every variable of its type.         *)
LEMMA CommitRaisesType ==
  ASSUME TypeOK, NEW w \in Workers, CommitRaises(w)
  PROVE  TypeOK'
<1>1. LedgerTypeOK'
  <2>1. record[w] \in Campaigns
    BY ConstantsAssumption
    DEF CommitRaises, TypeOK, WorkerTypeOK, Working, ConstantsAssumption
  <2>2. sent[w] \in SUBSET Leads /\ failed[w] \in BOOLEAN
    BY DEF TypeOK, TransactionTypeOK
  <2> QED BY <2>1, <2>2, SettleType DEF CommitRaises, TypeOK
<1>2. WorkerTypeOK'
  BY ConstantsAssumption DEF CommitRaises, TypeOK, WorkerTypeOK, Working,
       ConstantsAssumption
<1>3. TransactionTypeOK'
  BY NoTransactionType DEF CommitRaises, TypeOK
<1>4. HistoryTypeOK'
  <2>6. budget' \in [FaultKinds -> Nat]
    BY SpendType, Kinds DEF CommitRaises, TypeOK, HistoryTypeOK
  <2> QED BY <2>6 DEF CommitRaises, TypeOK, HistoryTypeOK
<1>5. ApiTypeOK' /\ QueueTypeOK' /\ PositionTypeOK'
  BY DEF CommitRaises, TypeOK, ApiTypeOK, QueueTypeOK, PositionTypeOK
<1> QED BY <1>1, <1>2, <1>3, <1>4, <1>5 DEF TypeOK

(* Dead-lettering keeps every variable of its type.                        *)
LEMMA DeadLetterType ==
  ASSUME TypeOK, NEW w \in Workers, DeadLetter(w)
  PROVE  TypeOK'
<1>1. QueueTypeOK'
  <2>1. record[w] \in Campaigns
    BY ConstantsAssumption
    DEF DeadLetter, TypeOK, WorkerTypeOK, Working, ConstantsAssumption
  <2> QED BY <2>1 DEF DeadLetter, TypeOK, QueueTypeOK
<1>2. WorkerTypeOK'
  BY ConstantsAssumption DEF DeadLetter, TypeOK, WorkerTypeOK, Working,
       ConstantsAssumption, AfterRecord
<1>3. LedgerTypeOK' /\ ApiTypeOK' /\ PositionTypeOK' /\ TransactionTypeOK' /\
     HistoryTypeOK'
  BY DEF DeadLetter, TypeOK, LedgerTypeOK, ApiTypeOK, PositionTypeOK,
       TransactionTypeOK, HistoryTypeOK
<1> QED BY <1>1, <1>2, <1>3 DEF TypeOK

(* A dead letter that fails keeps every variable of its type.              *)
LEMMA DeadLetterRaisesType ==
  ASSUME TypeOK, NEW w \in Workers, DeadLetterRaises(w)
  PROVE  TypeOK'
<1>1. WorkerTypeOK'
  BY ConstantsAssumption DEF DeadLetterRaises, TypeOK, WorkerTypeOK, Working,
       ConstantsAssumption
<1>2. HistoryTypeOK'
  <2>6. budget' \in [FaultKinds -> Nat]
    BY SpendType, Kinds DEF DeadLetterRaises, TypeOK, HistoryTypeOK
  <2> QED BY <2>6 DEF DeadLetterRaises, TypeOK, HistoryTypeOK
<1>3. LedgerTypeOK' /\ ApiTypeOK' /\ QueueTypeOK' /\ PositionTypeOK' /\
     TransactionTypeOK'
  BY DEF DeadLetterRaises, TypeOK, LedgerTypeOK, ApiTypeOK, QueueTypeOK,
       PositionTypeOK, TransactionTypeOK
<1> QED BY <1>1, <1>2, <1>3 DEF TypeOK

(* Committing the position keeps every variable of its type.               *)
LEMMA CommitPositionType ==
  ASSUME TypeOK, NEW w \in Workers, CommitPosition(w)
  PROVE  TypeOK'
<1>1. QueueTypeOK'
  BY DEF CommitPosition, TypeOK, QueueTypeOK, PositionTypeOK
<1>2. WorkerTypeOK'
  BY ConstantsAssumption DEF CommitPosition, TypeOK, WorkerTypeOK, Working,
       ConstantsAssumption
<1>3. LedgerTypeOK' /\ ApiTypeOK' /\ PositionTypeOK' /\ TransactionTypeOK' /\
     HistoryTypeOK'
  BY DEF CommitPosition, TypeOK, LedgerTypeOK, ApiTypeOK, PositionTypeOK,
       TransactionTypeOK, HistoryTypeOK
<1> QED BY <1>1, <1>2, <1>3 DEF TypeOK

(* A worker that ends keeps every type but, perhaps, that of the budget.   *)
LEMMA LeaveType ==
  ASSUME TypeOK, NEW w \in Workers, Leave(w), budget' \in [FaultKinds -> Nat]
  PROVE  TypeOK'
<1>1. QueueTypeOK'
  BY DEF Leave, TypeOK, QueueTypeOK
<1>2. PositionTypeOK'
  BY DEF Leave, TypeOK, QueueTypeOK, PositionTypeOK
<1>3. WorkerTypeOK'
  BY ConstantsAssumption
  DEF Leave, TypeOK, WorkerTypeOK, Working, ConstantsAssumption
<1>4. TransactionTypeOK'
  BY NoTransactionType DEF Leave, TypeOK
<1>5. LedgerTypeOK' /\ ApiTypeOK' /\ HistoryTypeOK'
  BY DEF Leave, TypeOK, LedgerTypeOK, ApiTypeOK, HistoryTypeOK
<1> QED BY <1>1, <1>2, <1>3, <1>4, <1>5 DEF TypeOK

(* SIGTERM, a crash or a refused commit keeps every variable of its type.  *)
LEMMA EndsType ==
  ASSUME TypeOK, NEW w \in Workers, CommitRefused(w) \/ Stop(w) \/ Crash(w)
  PROVE  TypeOK'
<1>1. Leave(w) /\ budget' \in [FaultKinds -> Nat]
  BY SpendType, Kinds DEF CommitRefused, Stop, Crash, TypeOK, HistoryTypeOK
<1> QED BY <1>1, LeaveType

(* A restart keeps every variable of its type.                             *)
LEMMA RestartType ==
  ASSUME TypeOK, NEW w \in Workers, Restart(w)
  PROVE  TypeOK'
<1>1. WorkerTypeOK'
  BY ConstantsAssumption DEF Restart, TypeOK, WorkerTypeOK, Working,
       ConstantsAssumption
<1>2. LedgerTypeOK' /\ ApiTypeOK' /\ QueueTypeOK' /\ PositionTypeOK' /\
     TransactionTypeOK' /\ HistoryTypeOK'
  BY DEF Restart, TypeOK, LedgerTypeOK, ApiTypeOK, QueueTypeOK, PositionTypeOK,
       TransactionTypeOK, HistoryTypeOK
<1> QED BY <1>1, <1>2 DEF TypeOK

(* An eviction keeps every variable of its type.                           *)
LEMMA EvictType ==
  ASSUME TypeOK, NEW w \in Workers, Evict(w)
  PROVE  TypeOK'
<1>1. QueueTypeOK'
  BY DEF Evict, TypeOK, QueueTypeOK
<1>2. HistoryTypeOK'
  <2>6. budget' \in [FaultKinds -> Nat]
    BY SpendType, Kinds DEF Evict, TypeOK, HistoryTypeOK
  <2> QED BY <2>6 DEF Evict, TypeOK, HistoryTypeOK
<1>3. LedgerTypeOK' /\ ApiTypeOK' /\ PositionTypeOK' /\ WorkerTypeOK' /\
     TransactionTypeOK'
  BY DEF Evict, TypeOK, LedgerTypeOK, ApiTypeOK, PositionTypeOK, WorkerTypeOK,
       TransactionTypeOK
<1> QED BY <1>1, <1>2, <1>3 DEF TypeOK

(***************************************************************************)
(* Type correctness of the specification                                   *)
(***************************************************************************)
(* The initial states are of the type.                                     *)
LEMMA InitType == Init => TypeOK
<1> SUFFICES ASSUME Init PROVE TypeOK
  OBVIOUS
<1>1. LedgerTypeOK
  BY DEF Init, LedgerTypeOK, Ledger!LedgerInit
<1>2. ApiTypeOK
  BY DEF Init, ApiTypeOK
<1>3. QueueTypeOK /\ PositionTypeOK
  BY DEF Init, QueueTypeOK, PositionTypeOK
<1>4. WorkerTypeOK /\ TransactionTypeOK
  BY DEF Init, WorkerTypeOK, TransactionTypeOK, Working
<1>5. HistoryTypeOK
  BY ConstantsAssumption DEF Init, HistoryTypeOK, ConstantsAssumption
<1> QED BY <1>1, <1>2, <1>3, <1>4, <1>5 DEF TypeOK

(* Every step keeps the type.                                              *)
LEMMA NextType == TypeOK /\ [Next]_vars => TypeOK'
<1> SUFFICES ASSUME TypeOK, [Next]_vars PROVE TypeOK'
  OBVIOUS
<1>1. CASE UNCHANGED vars
  BY <1>1 DEF vars, TypeOK, LedgerTypeOK, ApiTypeOK, QueueTypeOK,
     PositionTypeOK, WorkerTypeOK, TransactionTypeOK, HistoryTypeOK
<1>2. ASSUME NEW c \in Campaigns, NEW t \in Targets,
             CreateBroadcast(c, t)
      PROVE  TypeOK'
  BY <1>2, CreateBroadcastType
<1>3. ASSUME NEW c \in Campaigns, HandlerStep(c) PROVE TypeOK'
  BY <1>3, QueueInRedisType, QueueInKafkaType, BeginFallbackType,
     FallbackPushType, FinishFallbackType DEF HandlerStep
<1>4. ASSUME NEW c \in Campaigns, HandlerDies(c) PROVE TypeOK'
  BY <1>4, HandlerDiesType
<1>5. ASSUME NEW u \in Leads, NEW s \in Statuses, Relabel(u, s) PROVE TypeOK'
  BY <1>5, RelabelType
<1>6. ASSUME NEW w \in Workers, WorkerStep(w) PROVE TypeOK'
  BY <1>6, PopRedisType, PopNothingType, JoinGroupType, PollBatchType,
     PollNothingType, TakeRecordType, EndBatchType, BeginBroadcastType,
     WorkerPushType, FinishBroadcastType, DeadLetterType, CommitPositionType,
     EndsType, RestartType DEF WorkerStep
<1>7. ASSUME NEW w \in Workers,
             \/ RollBack(w) \/ CommitRaises(w) \/ DeadLetterRaises(w)
             \/ Stop(w) \/ Crash(w) \/ Evict(w)
      PROVE  TypeOK'
  BY <1>7, RollBackType, CommitRaisesType, DeadLetterRaisesType, EndsType,
     EvictType
<1> QED BY <1>1, <1>2, <1>3, <1>4, <1>5, <1>6, <1>7 DEF Next

(* Every variable keeps its type whatever handlers, workers and faults do; *)
(* in particular no worker's position passes the end of the topic.         *)
THEOREM TypeCorrect == Spec => []TypeOK
BY InitType, NextType, PTL DEF Spec

(***************************************************************************)
(* The ledger                                                              *)
(***************************************************************************)
(* Every step is a step of CampaignLedger, or leaves the ledger alone.     *)
LEMMA LedgerStep == TypeOK /\ [Next]_vars => [Ledger!LedgerNext]_ledgerVars
<1> SUFFICES ASSUME TypeOK, [Next]_vars
             PROVE  Ledger!LedgerNext \/ UNCHANGED ledgerVars
  OBVIOUS
<1>1. CASE UNCHANGED vars
  BY <1>1 DEF vars
<1>2. ASSUME NEW c \in Campaigns, NEW t \in Targets,
             CreateBroadcast(c, t)
      PROVE  Ledger!LedgerNext
  BY <1>2 DEF CreateBroadcast, Ledger!LedgerNext
<1>3. ASSUME NEW c \in Campaigns, HandlerStep(c)
      PROVE  Ledger!LedgerNext \/ UNCHANGED ledgerVars
  <2>1. CASE FinishFallback(c)
    <3>1. picked[c] \in SUBSET Leads
      BY DEF TypeOK, ApiTypeOK
    <3> QED BY <2>1, <3>1 DEF FinishFallback, Ledger!LedgerNext
  <2>2. CASE QueueInRedis(c) \/ QueueInKafka(c) \/ BeginFallback(c)
    BY <2>2 DEF QueueInRedis, QueueInKafka, BeginFallback
  <2>3. ASSUME NEW u \in Leads, FallbackPush(c, u) PROVE UNCHANGED ledgerVars
    BY <2>3 DEF FallbackPush
  <2> QED BY <1>3, <2>1, <2>2, <2>3 DEF HandlerStep
<1>4. ASSUME NEW c \in Campaigns, HandlerDies(c) PROVE UNCHANGED ledgerVars
  BY <1>4 DEF HandlerDies
<1>5. ASSUME NEW u \in Leads, NEW s \in Statuses, Relabel(u, s)
      PROVE  UNCHANGED ledgerVars
  BY <1>5 DEF Relabel
<1>6. ASSUME NEW w \in Workers, FinishBroadcast(w) \/ CommitRaises(w)
      PROVE  Ledger!LedgerNext
  <2>1. record[w] \in Campaigns
    BY <1>6, ConstantsAssumption
    DEF FinishBroadcast, CommitRaises, TypeOK, WorkerTypeOK, Working,
        ConstantsAssumption
  <2>2. sent[w] \in SUBSET Leads /\ failed[w] \in BOOLEAN
    BY DEF TypeOK, TransactionTypeOK
  <2>3. Ledger!Settle(record[w], sent[w], failed[w])
    BY <1>6 DEF FinishBroadcast, CommitRaises
  <2> QED BY <2>1, <2>2, <2>3 DEF Ledger!LedgerNext
<1>7. ASSUME NEW w \in Workers, WorkerStep(w), ~FinishBroadcast(w)
      PROVE  UNCHANGED ledgerVars
  <2>1. ASSUME NEW u \in Leads, WorkerPush(w, u) PROVE UNCHANGED ledgerVars
    BY <2>1 DEF WorkerPush
  <2> QED
    BY <1>7, <2>1
    DEF WorkerStep, PopRedis, PopNothing, JoinGroup, PollBatch, PollNothing,
        TakeRecord, EndBatch, BeginBroadcast, DeadLetter, CommitPosition,
        CommitRefused, Leave, Restart
<1>8. ASSUME NEW w \in Workers,
             \/ RollBack(w) \/ DeadLetterRaises(w)
             \/ Stop(w) \/ Crash(w) \/ Evict(w)
      PROVE  UNCHANGED ledgerVars
  BY <1>8 DEF RollBack, DeadLetterRaises, Stop, Crash, Leave, Evict
<1> QED
  BY <1>1, <1>2, <1>3, <1>4, <1>5, <1>6, <1>7, <1>8 DEF Next

(* The whole system, read through the database, implements the ledger:     *)
(* rows, count and status of a delivery always appear together, however    *)
(* many handlers and workers deliver the same campaign.                    *)
THEOREM ImplementsLedger == Spec => LedgerIsImplemented
<1>1. Init => Ledger!LedgerInit
  BY DEF Init
<1> QED BY <1>1, TypeCorrect, LedgerStep, PTL
        DEF Spec, LedgerIsImplemented, Ledger!LedgerSpec, Ledger!ledgerVars

(* A step of the ledger keeps every count backed by rows.                  *)
LEMMA SettleBacked ==
  ASSUME LedgerTypeOK, SentCountBacked,
         NEW c \in Campaigns, NEW S \in SUBSET Leads, NEW f \in BOOLEAN,
         Ledger!Settle(c, S, f)
  PROVE  SentCountBacked'
<1> SUFFICES ASSUME NEW d \in Campaigns
             PROVE  sentCount'[d] <= Cardinality({u \in Leads : rows'[<<d, u>>]
                  > 0})
  BY DEF SentCountBacked
<1> DEFINE After == {u \in Leads : rows'[<<d, u>>] > 0}
<1>1. \A u \in Leads :
        rows'[<<d, u>>] = IF d = c /\ u \in S THEN rows[<<d, u>>] + 1 ELSE
             rows[<<d, u>>]
  BY DEF Ledger!Settle
<1>2. \A u \in Leads : rows[<<d, u>>] \in Nat
  BY DEF LedgerTypeOK
<1>3. CASE d = c
  <2>1. S \subseteq After
    BY <1>1, <1>2, <1>3
  <2>2. Cardinality(S) <= Cardinality(After)
    BY <2>1, LeadsFinite, FS_Subset
  <2>3. sentCount'[d] = Cardinality(S)
    BY <1>3, SameCardinality DEF Ledger!Settle, LedgerTypeOK
  <2> QED BY <2>2, <2>3
<1>4. CASE d # c
  <2>1. After = {u \in Leads : rows[<<d, u>>] > 0}
    BY <1>1, <1>4
  <2>2. sentCount'[d] = sentCount[d]
    BY <1>4 DEF Ledger!Settle, LedgerTypeOK
  <2> QED BY <2>1, <2>2 DEF SentCountBacked
<1> QED BY <1>3, <1>4

(* Every step keeps every count backed by rows.                            *)
LEMMA SentCountStep ==
  TypeOK /\ SentCountBacked /\ [Next]_vars => SentCountBacked'
<1> SUFFICES ASSUME TypeOK, SentCountBacked, [Next]_vars PROVE SentCountBacked'
  OBVIOUS
<1>1. CASE UNCHANGED ledgerVars
  BY <1>1 DEF SentCountBacked
<1>2. ASSUME NEW c \in Campaigns, Ledger!Open(c) PROVE SentCountBacked'
  BY <1>2 DEF SentCountBacked, Ledger!Open
<1>3. ASSUME NEW c \in Campaigns, NEW S \in SUBSET Leads, NEW f \in BOOLEAN,
             Ledger!Settle(c, S, f)
      PROVE  SentCountBacked'
  BY <1>3, SettleBacked DEF TypeOK
<1> QED BY <1>1, <1>2, <1>3, LedgerStep DEF Ledger!LedgerNext

(* sent_count never exceeds the recipients that have a message row, through *)
(* any redelivery, roll-back, crash or concurrent fallback.                 *)
THEOREM SentCountIsBacked == Spec => []SentCountBacked
<1>1. Init => SentCountBacked
  <2> SUFFICES ASSUME Init, NEW c \in Campaigns
               PROVE  sentCount[c] <=
                        Cardinality({u \in Leads : rows[<<c, u>>] > 0})
    BY DEF SentCountBacked
  <2>1. sentCount[c] = 0
    BY DEF Init, Ledger!LedgerInit
  <2>2. Cardinality({u \in Leads : rows[<<c, u>>] > 0}) \in Nat
    BY LeadsFinite
  <2> QED BY <2>1, <2>2
<1> QED BY <1>1, SentCountStep, TypeCorrect, PTL DEF Spec

(***************************************************************************)
(* What one step may do to the queues, the records in process and the      *)
(* handlers                                                                *)
(***************************************************************************)
(* The list grows by the campaign of a handler, or loses its last element. *)
RedisMove ==
  \/ redis' = redis
  \/ \E c \in Campaigns : handler[c] = "redis" /\ redis' = Append(redis, c)
  \/ redis # <<>> /\ redis' = Front(redis)

(* The topic grows by the campaign of a handler.                           *)
LogMove ==
  \/ log' = log
  \/ \E c \in Campaigns : handler[c] = "kafka" /\ log' = Append(log, c)

(* A request starts with the insert of its campaign.                       *)
HandlerMove ==
  \A c \in Campaigns :
    handler'[c] # "idle" => handler[c] # "idle" \/ Ledger!Open(c)

(* A worker gets a record from the end of the list or from the topic.      *)
RecordMove ==
  \A w \in Workers :
    \/ record'[w] \in {record[w], Nobody}
    \/ redis # <<>> /\ record'[w] = Last(redis)
    \/ \E i \in 1 .. Len(log) : record'[w] = log[i]

(* Every step moves the list so, or not at all.                            *)
LEMMA RedisStep ==
  ASSUME TypeOK, [Next]_vars
  PROVE  RedisMove
<1>1. CASE UNCHANGED vars
  BY <1>1 DEF vars, RedisMove
<1>2. ASSUME NEW c \in Campaigns, NEW t \in Targets,
             CreateBroadcast(c, t)
      PROVE  RedisMove
  BY <1>2 DEF CreateBroadcast, RedisMove
<1>3. ASSUME NEW c \in Campaigns, QueueInRedis(c)
      PROVE  RedisMove
  BY <1>3 DEF QueueInRedis, RedisMove
<1>4. ASSUME NEW c \in Campaigns,
             QueueInKafka(c) \/ BeginFallback(c) \/ FinishFallback(c) \/
                  HandlerDies(c)
      PROVE  RedisMove
  BY <1>4 DEF QueueInKafka, BeginFallback, FinishFallback, HandlerDies,
       RedisMove
<1>5. ASSUME NEW c \in Campaigns, NEW u \in Leads, FallbackPush(c, u)
      PROVE  RedisMove
  BY <1>5 DEF FallbackPush, RedisMove
<1>6. ASSUME NEW u \in Leads, NEW s \in Statuses, Relabel(u, s)
      PROVE  RedisMove
  BY <1>6 DEF Relabel, RedisMove
<1>7. ASSUME NEW w \in Workers, PopRedis(w)
      PROVE  RedisMove
  BY <1>7 DEF PopRedis, RedisMove
<1>8. ASSUME NEW w \in Workers, NEW u \in Leads, WorkerPush(w, u)
      PROVE  RedisMove
  BY <1>8 DEF WorkerPush, RedisMove
<1>9. ASSUME NEW w \in Workers,
             PopNothing(w) \/ JoinGroup(w) \/ PollBatch(w) \/
             PollNothing(w) \/ TakeRecord(w) \/ EndBatch(w) \/
             BeginBroadcast(w) \/ FinishBroadcast(w) \/ DeadLetter(w) \/
             CommitPosition(w) \/ CommitRefused(w) \/ Restart(w) \/
             RollBack(w) \/ CommitRaises(w) \/ DeadLetterRaises(w) \/
             Stop(w) \/ Crash(w) \/ Evict(w)
      PROVE  RedisMove
  BY <1>9 DEF PopNothing, JoinGroup, PollBatch, PollNothing, TakeRecord,
       EndBatch, BeginBroadcast, FinishBroadcast, DeadLetter, CommitPosition,
       CommitRefused, Restart, RollBack, CommitRaises, DeadLetterRaises, Stop,
       Crash, Evict, Leave, RedisMove
<1> QED BY <1>1, <1>2, <1>3, <1>4, <1>5, <1>6, <1>7, <1>8, <1>9
    DEF Next, HandlerStep, WorkerStep

(* Every step moves the topic so, or not at all.                           *)
LEMMA LogStep ==
  ASSUME TypeOK, [Next]_vars
  PROVE  LogMove
<1>1. CASE UNCHANGED vars
  BY <1>1 DEF vars, LogMove
<1>2. ASSUME NEW c \in Campaigns, NEW t \in Targets,
             CreateBroadcast(c, t)
      PROVE  LogMove
  BY <1>2 DEF CreateBroadcast, LogMove
<1>3. ASSUME NEW c \in Campaigns, QueueInKafka(c)
      PROVE  LogMove
  BY <1>3 DEF QueueInKafka, LogMove
<1>4. ASSUME NEW c \in Campaigns,
             QueueInRedis(c) \/ BeginFallback(c) \/ FinishFallback(c) \/
                  HandlerDies(c)
      PROVE  LogMove
  BY <1>4 DEF QueueInRedis, BeginFallback, FinishFallback, HandlerDies, LogMove
<1>5. ASSUME NEW c \in Campaigns, NEW u \in Leads, FallbackPush(c, u)
      PROVE  LogMove
  BY <1>5 DEF FallbackPush, LogMove
<1>6. ASSUME NEW u \in Leads, NEW s \in Statuses, Relabel(u, s)
      PROVE  LogMove
  BY <1>6 DEF Relabel, LogMove
<1>7. ASSUME NEW w \in Workers, NEW u \in Leads, WorkerPush(w, u)
      PROVE  LogMove
  BY <1>7 DEF WorkerPush, LogMove
<1>8. ASSUME NEW w \in Workers,
             PopRedis(w) \/ PopNothing(w) \/ JoinGroup(w) \/ PollBatch(w)
             \/ PollNothing(w) \/ TakeRecord(w) \/ EndBatch(w) \/
             BeginBroadcast(w) \/ FinishBroadcast(w) \/ DeadLetter(w) \/
             CommitPosition(w) \/ CommitRefused(w) \/ Restart(w) \/
             RollBack(w) \/ CommitRaises(w) \/ DeadLetterRaises(w) \/
             Stop(w) \/ Crash(w) \/ Evict(w)
      PROVE  LogMove
  BY <1>8 DEF PopRedis, PopNothing, JoinGroup, PollBatch, PollNothing,
       TakeRecord, EndBatch, BeginBroadcast, FinishBroadcast, DeadLetter,
       CommitPosition, CommitRefused, Restart, RollBack, CommitRaises,
       DeadLetterRaises, Stop, Crash, Evict, Leave, LogMove
<1> QED BY <1>1, <1>2, <1>3, <1>4, <1>5, <1>6, <1>7, <1>8
    DEF Next, HandlerStep, WorkerStep

(* Every step moves the request handlers so, or not at all.                *)
LEMMA HandlerStarts ==
  ASSUME TypeOK, [Next]_vars
  PROVE  HandlerMove
<1>1. CASE UNCHANGED vars
  BY <1>1 DEF vars, HandlerMove, TypeOK, ApiTypeOK
<1>2. ASSUME NEW c \in Campaigns, NEW t \in Targets,
             CreateBroadcast(c, t)
      PROVE  HandlerMove
  BY <1>2 DEF CreateBroadcast, HandlerMove, TypeOK, ApiTypeOK
<1>3. ASSUME NEW c \in Campaigns,
             QueueInRedis(c) \/ QueueInKafka(c) \/ BeginFallback(c) \/
                  FinishFallback(c) \/ HandlerDies(c)
      PROVE  HandlerMove
  BY <1>3 DEF QueueInRedis, QueueInKafka, BeginFallback, FinishFallback,
       HandlerDies, HandlerMove, TypeOK, ApiTypeOK
<1>4. ASSUME NEW c \in Campaigns, NEW u \in Leads, FallbackPush(c, u)
      PROVE  HandlerMove
  BY <1>4 DEF FallbackPush, HandlerMove, TypeOK, ApiTypeOK
<1>5. ASSUME NEW u \in Leads, NEW s \in Statuses, Relabel(u, s)
      PROVE  HandlerMove
  BY <1>5 DEF Relabel, HandlerMove, TypeOK, ApiTypeOK
<1>6. ASSUME NEW w \in Workers, NEW u \in Leads, WorkerPush(w, u)
      PROVE  HandlerMove
  BY <1>6 DEF WorkerPush, HandlerMove, TypeOK, ApiTypeOK
<1>7. ASSUME NEW w \in Workers,
             PopRedis(w) \/ PopNothing(w) \/ JoinGroup(w) \/ PollBatch(w)
             \/ PollNothing(w) \/ TakeRecord(w) \/ EndBatch(w) \/
             BeginBroadcast(w) \/ FinishBroadcast(w) \/ DeadLetter(w) \/
             CommitPosition(w) \/ CommitRefused(w) \/ Restart(w) \/
             RollBack(w) \/ CommitRaises(w) \/ DeadLetterRaises(w) \/
             Stop(w) \/ Crash(w) \/ Evict(w)
      PROVE  HandlerMove
  BY <1>7 DEF PopRedis, PopNothing, JoinGroup, PollBatch, PollNothing,
       TakeRecord, EndBatch, BeginBroadcast, FinishBroadcast, DeadLetter,
       CommitPosition, CommitRefused, Restart, RollBack, CommitRaises,
       DeadLetterRaises, Stop, Crash, Evict, Leave, HandlerMove, TypeOK,
       ApiTypeOK
<1> QED BY <1>1, <1>2, <1>3, <1>4, <1>5, <1>6, <1>7
    DEF Next, HandlerStep, WorkerStep

(* Every step moves the records in process so, or not at all.              *)
LEMMA RecordStep ==
  ASSUME TypeOK, [Next]_vars
  PROVE  RecordMove
<1>1. CASE UNCHANGED vars
  BY <1>1 DEF vars, RecordMove, TypeOK, WorkerTypeOK
<1>2. ASSUME NEW c \in Campaigns, NEW t \in Targets,
             CreateBroadcast(c, t)
      PROVE  RecordMove
  BY <1>2 DEF CreateBroadcast, RecordMove, TypeOK, WorkerTypeOK
<1>3. ASSUME NEW c \in Campaigns,
             QueueInRedis(c) \/ QueueInKafka(c) \/ BeginFallback(c) \/
                  FinishFallback(c) \/ HandlerDies(c)
      PROVE  RecordMove
  BY <1>3 DEF QueueInRedis, QueueInKafka, BeginFallback, FinishFallback,
       HandlerDies, RecordMove, TypeOK, WorkerTypeOK
<1>4. ASSUME NEW c \in Campaigns, NEW u \in Leads, FallbackPush(c, u)
      PROVE  RecordMove
  BY <1>4 DEF FallbackPush, RecordMove, TypeOK, WorkerTypeOK
<1>5. ASSUME NEW u \in Leads, NEW s \in Statuses, Relabel(u, s)
      PROVE  RecordMove
  BY <1>5 DEF Relabel, RecordMove, TypeOK, WorkerTypeOK
<1>6. ASSUME NEW w \in Workers, TakeRecord(w)
      PROVE  RecordMove
  <2>1. cursor[w] + 1 \in 1 .. Len(log)
    BY <1>6 DEF TakeRecord, TypeOK, PositionTypeOK, QueueTypeOK
  <2> QED BY <1>6, <2>1 DEF TakeRecord, RecordMove, TypeOK, WorkerTypeOK
<1>7. ASSUME NEW w \in Workers, NEW u \in Leads, WorkerPush(w, u)
      PROVE  RecordMove
  BY <1>7 DEF WorkerPush, RecordMove, TypeOK, WorkerTypeOK
<1>8. ASSUME NEW w \in Workers,
             PopRedis(w) \/ PopNothing(w) \/ JoinGroup(w) \/ PollBatch(w)
             \/ PollNothing(w) \/ EndBatch(w) \/ BeginBroadcast(w) \/
             FinishBroadcast(w) \/ DeadLetter(w) \/ CommitPosition(w) \/
             CommitRefused(w) \/ Restart(w) \/ RollBack(w) \/
             CommitRaises(w) \/ DeadLetterRaises(w) \/ Stop(w) \/
             Crash(w) \/ Evict(w)
      PROVE  RecordMove
  BY <1>8 DEF PopRedis, PopNothing, JoinGroup, PollBatch, PollNothing,
       EndBatch, BeginBroadcast, FinishBroadcast, DeadLetter, CommitPosition,
       CommitRefused, Restart, RollBack, CommitRaises, DeadLetterRaises, Stop,
       Crash, Evict, Leave, RecordMove, TypeOK, WorkerTypeOK
<1> QED BY <1>1, <1>2, <1>3, <1>4, <1>5, <1>6, <1>7, <1>8
    DEF Next, HandlerStep, WorkerStep

(***************************************************************************)
(* Events are of committed campaigns                                       *)
(***************************************************************************)
(* EventsAreCommitted is not inductive: that a handler only publishes what *)
(* it has committed must be known as well.                                 *)
EventsInv ==
  /\ EventsAreCommitted
  /\ \A c \in Campaigns : handler[c] # "idle" => status[c] # "absent"

(* A campaign that was committed stays.                                    *)
LEMMA StatusStays ==
  ASSUME TypeOK, [Next]_vars, NEW c \in Campaigns, status[c] # "absent"
  PROVE  status'[c] # "absent"
<1>1. CASE UNCHANGED ledgerVars
  BY <1>1
<1>2. ASSUME NEW d \in Campaigns, Ledger!Open(d) PROVE status'[c] # "absent"
  BY <1>2 DEF Ledger!Open, TypeOK, LedgerTypeOK
<1>3. ASSUME NEW d \in Campaigns, NEW S \in SUBSET Leads, NEW f \in BOOLEAN,
             Ledger!Settle(d, S, f)
      PROVE  status'[c] # "absent"
  BY <1>3 DEF Ledger!Settle, Ledger!OutcomeOf, TypeOK, LedgerTypeOK
<1> QED BY <1>1, <1>2, <1>3, LedgerStep DEF Ledger!LedgerNext

(* Every step keeps queues and workers on committed campaigns.             *)
LEMMA EventsStep == TypeOK /\ EventsInv /\ [Next]_vars => EventsInv'
<1> SUFFICES ASSUME TypeOK, EventsInv, [Next]_vars PROVE EventsInv'
  OBVIOUS
<1>1. \A c \in Campaigns : handler'[c] # "idle" => status'[c] # "absent"
  <2> SUFFICES ASSUME NEW c \in Campaigns, handler'[c] # "idle"
               PROVE  status'[c] # "absent"
    OBVIOUS
  <2>1. CASE handler[c] # "idle"
    BY <2>1, StatusStays DEF EventsInv
  <2>2. CASE Ledger!Open(c)
    BY <2>2 DEF Ledger!Open, TypeOK, LedgerTypeOK
  <2> QED BY <2>1, <2>2, HandlerStarts DEF HandlerMove
<1>2. \A i \in 1 .. Len(redis') : status'[redis'[i]] # "absent"
  <2>1. \A i \in 1 .. Len(redis) : status'[redis[i]] # "absent"
    BY StatusStays DEF EventsInv, EventsAreCommitted, TypeOK, QueueTypeOK
  <2>2. CASE redis' = redis
    BY <2>1, <2>2
  <2>3. ASSUME NEW c \in Campaigns, handler[c] = "redis", redis' =
       Append(redis, c)
        PROVE  \A i \in 1 .. Len(redis') : status'[redis'[i]] # "absent"
    <3>1. status'[c] # "absent"
      BY <2>3, StatusStays DEF EventsInv
    <3> QED BY <2>1, <2>3, <3>1 DEF TypeOK, QueueTypeOK
  <2>4. CASE redis # <<>> /\ redis' = Front(redis)
    BY <2>1, <2>4 DEF Front, TypeOK, QueueTypeOK
  <2> QED BY <2>2, <2>3, <2>4, RedisStep DEF RedisMove
<1>3. \A i \in 1 .. Len(log) : log[i] \in Campaigns /\ status'[log[i]] #
     "absent"
  BY StatusStays DEF EventsInv, EventsAreCommitted, TypeOK, QueueTypeOK
<1>4. \A i \in 1 .. Len(log') : status'[log'[i]] # "absent"
  <2>1. CASE log' = log
    BY <1>3, <2>1
  <2>2. ASSUME NEW c \in Campaigns, handler[c] = "kafka", log' = Append(log, c)
        PROVE  \A i \in 1 .. Len(log') : status'[log'[i]] # "absent"
    <3>1. status'[c] # "absent"
      BY <2>2, StatusStays DEF EventsInv
    <3> QED BY <1>3, <2>2, <3>1 DEF TypeOK, QueueTypeOK
  <2> QED BY <2>1, <2>2, LogStep DEF LogMove
<1>5. ASSUME NEW w \in Workers, record'[w] # Nobody
      PROVE  status'[record'[w]] # "absent"
  <2>1. CASE record'[w] = record[w]
    BY <1>5, <2>1, StatusStays
    DEF EventsInv, EventsAreCommitted, TypeOK, WorkerTypeOK
  <2>2. CASE redis # <<>> /\ record'[w] = Last(redis)
    <3>1. Len(redis) \in 1 .. Len(redis) /\ Last(redis) = redis[Len(redis)]
      BY <2>2 DEF Last, TypeOK, QueueTypeOK
    <3>2. Last(redis) \in Campaigns /\ status[Last(redis)] # "absent"
      BY <3>1 DEF EventsInv, EventsAreCommitted, TypeOK, QueueTypeOK
    <3> QED BY <2>2, <3>2, StatusStays
  <2>3. CASE \E i \in 1 .. Len(log) : record'[w] = log[i]
    BY <1>3, <2>3
  <2> QED BY <1>5, <2>1, <2>2, <2>3, RecordStep DEF RecordMove
<1> QED BY <1>1, <1>2, <1>4, <1>5 DEF EventsInv, EventsAreCommitted

(* No worker ever gets an event whose campaign the database does not have: *)
(* process_broadcast never raises "campaign not found".                    *)
THEOREM EventsOfCommitted == Spec => []EventsAreCommitted
<1>1. Init => EventsInv
  BY DEF Init, EventsInv, EventsAreCommitted
<1>2. EventsInv => EventsAreCommitted
  BY DEF EventsInv
<1> QED BY <1>1, <1>2, EventsStep, TypeCorrect, PTL DEF Spec

(***************************************************************************)
(* The committed position                                                  *)
(***************************************************************************)
(* The partition's owner is never behind what the group has committed.     *)
OwnerAhead == \A w \in Workers : owner = w => committed <= position[w]

(* Positions and the owner change only in these actions.                   *)
PositionMove ==
  \/ UNCHANGED <<owner, committed, position>>
  \/ \E w \in Workers :
       \/ JoinGroup(w) \/ PollBatch(w) \/ CommitPosition(w)
       \/ Leave(w) \/ Evict(w)

(* Every step moves the positions and the owner so, or not at all.         *)
LEMMA PositionStep ==
  ASSUME TypeOK, [Next]_vars
  PROVE  PositionMove
<1>1. CASE UNCHANGED vars
  BY <1>1 DEF vars, PositionMove
<1>2. ASSUME NEW c \in Campaigns, NEW t \in Targets,
             CreateBroadcast(c, t)
      PROVE  PositionMove
  BY <1>2 DEF CreateBroadcast, PositionMove
<1>3. ASSUME NEW c \in Campaigns,
             QueueInRedis(c) \/ QueueInKafka(c) \/ BeginFallback(c) \/
                  FinishFallback(c) \/ HandlerDies(c)
      PROVE  PositionMove
  BY <1>3 DEF QueueInRedis, QueueInKafka, BeginFallback, FinishFallback,
       HandlerDies, PositionMove
<1>4. ASSUME NEW c \in Campaigns, NEW u \in Leads, FallbackPush(c, u)
      PROVE  PositionMove
  BY <1>4 DEF FallbackPush, PositionMove
<1>5. ASSUME NEW u \in Leads, NEW s \in Statuses, Relabel(u, s)
      PROVE  PositionMove
  BY <1>5 DEF Relabel, PositionMove
<1>6. ASSUME NEW w \in Workers, JoinGroup(w)
      PROVE  PositionMove
  BY <1>6 DEF PositionMove
<1>7. ASSUME NEW w \in Workers, PollBatch(w)
      PROVE  PositionMove
  BY <1>7 DEF PositionMove
<1>8. ASSUME NEW w \in Workers, CommitPosition(w)
      PROVE  PositionMove
  BY <1>8 DEF PositionMove
<1>9. ASSUME NEW w \in Workers, CommitRefused(w)
      PROVE  PositionMove
  BY <1>9 DEF CommitRefused, PositionMove
<1>10. ASSUME NEW w \in Workers, Stop(w)
      PROVE  PositionMove
  BY <1>10 DEF Stop, PositionMove
<1>11. ASSUME NEW w \in Workers, Crash(w)
      PROVE  PositionMove
  BY <1>11 DEF Crash, PositionMove
<1>12. ASSUME NEW w \in Workers, Evict(w)
      PROVE  PositionMove
  BY <1>12 DEF PositionMove
<1>13. ASSUME NEW w \in Workers, NEW u \in Leads, WorkerPush(w, u)
      PROVE  PositionMove
  BY <1>13 DEF WorkerPush, PositionMove
<1>14. ASSUME NEW w \in Workers,
             PopRedis(w) \/ PopNothing(w) \/ PollNothing(w) \/
             TakeRecord(w) \/ EndBatch(w) \/ BeginBroadcast(w) \/
             FinishBroadcast(w) \/ DeadLetter(w) \/ Restart(w) \/
             RollBack(w) \/ CommitRaises(w) \/ DeadLetterRaises(w)
      PROVE  PositionMove
  BY <1>14 DEF PopRedis, PopNothing, PollNothing, TakeRecord, EndBatch,
       BeginBroadcast, FinishBroadcast, DeadLetter, Restart, RollBack,
       CommitRaises, DeadLetterRaises, Leave, PositionMove
<1> QED BY <1>1, <1>2, <1>3, <1>4, <1>5, <1>6, <1>7, <1>8, <1>9, <1>10, <1>11,
     <1>12, <1>13, <1>14
    DEF Next, HandlerStep, WorkerStep

(* It stays so, and the committed position does not move back.             *)
LEMMA OwnerAheadStep ==
  ASSUME TypeOK, OwnerAhead, [Next]_vars
  PROVE  OwnerAhead' /\ committed' >= committed
<1> USE DEF TypeOK, PositionTypeOK, QueueTypeOK, OwnerAhead
<1>1. CASE UNCHANGED <<owner, committed, position>>
  BY <1>1
<1>2. ASSUME NEW w \in Workers, JoinGroup(w)
      PROVE  OwnerAhead' /\ committed' >= committed
  BY <1>2 DEF JoinGroup
<1>3. ASSUME NEW w \in Workers, PollBatch(w)
      PROVE  OwnerAhead' /\ committed' >= committed
  <2>1. PICK n \in 1 .. MaxPoll :
          position' = [position EXCEPT ![w] = position[w] + n]
    BY <1>3 DEF PollBatch
  <2>2. n \in Nat
    BY ConstantsAssumption DEF ConstantsAssumption
  <2> QED BY <1>3, <2>1, <2>2 DEF PollBatch
<1>4. ASSUME NEW w \in Workers, CommitPosition(w)
      PROVE  OwnerAhead' /\ committed' >= committed
  BY <1>4 DEF CommitPosition
<1>5. ASSUME NEW w \in Workers, Leave(w) \/ Evict(w)
      PROVE  OwnerAhead' /\ committed' >= committed
  BY <1>5, ConstantsAssumption DEF Leave, Evict, ConstantsAssumption
<1> QED BY <1>1, <1>2, <1>3, <1>4, <1>5, PositionStep DEF PositionMove

(* The group's position never moves back, though the partition changes     *)
(* hands and workers die between taking a batch and committing it.         *)
THEOREM CommitsForward == Spec => CommittedMovesForward
<1>1. Init => OwnerAhead
  BY ConstantsAssumption DEF Init, OwnerAhead, ConstantsAssumption
<1>2. TypeOK /\ OwnerAhead /\ [Next]_vars => OwnerAhead' /\ [committed' >=
     committed]_vars
  BY OwnerAheadStep
<1> QED BY <1>1, <1>2, TypeCorrect, PTL DEF Spec, CommittedMovesForward

(***************************************************************************)
(* Tenant isolation and targeting                                          *)
(***************************************************************************)
(* The leads a campaign may reach: its own tenant's, selected some time.   *)
Reachable(c) == {u \in matched[c] : LeadTenant[u] = CampaignTenant[c]}

(* What has been selected and waits to be pushed to is reachable, and what *)
(* the filter selects now has been recorded as selected.                   *)
TargetsInv ==
  /\ DeliveredOnlyToMatched
  /\ \A c \in Campaigns :
       status[c] # "absent" => ApiRecipients(c) \subseteq Reachable(c)
  /\ \A c \in Campaigns : left[c] \subseteq Reachable(c)
  /\ \A w \in Workers :
       wpc[w] = "push" => rest[w] \subseteq Reachable(record[w])

(* The worker's query selects no lead that the API's would not.            *)
LEMMA WorkerSelectsLess ==
  ASSUME NEW c \in Campaigns
  PROVE  WorkerRecipients(c) \subseteq ApiRecipients(c)
BY DEF WorkerRecipients, ApiRecipients, OptionalText

(* LINE takes messages for leads that wait to be pushed to.                *)
DeliveredMove ==
  \/ delivered' = delivered
  \/ \E c \in Campaigns, u \in Leads : u \in left[c] /\ Deliver(c, u)
  \/ \E w \in Workers, u \in Leads :
       wpc[w] = "push" /\ u \in rest[w] /\ Deliver(record[w], u)

(* A handler's recipients are those of its query, and then only fewer.     *)
LeftMove ==
  \A c \in Campaigns :
    \/ left'[c] \subseteq left[c]
    \/ handler[c] # "idle" /\ left'[c] = ApiRecipients(c)

(* A worker's recipients are those of its query, and then only fewer.      *)
RestMove ==
  \A w \in Workers :
    wpc'[w] = "push" =>
      /\ record'[w] = record[w] /\ record[w] # Nobody
      /\ \/ wpc[w] = "push" /\ rest'[w] \subseteq rest[w]
         \/ rest'[w] = WorkerRecipients(record[w])

(* What the filter selects is recorded as selected.                        *)
MatchedMove ==
  \A c \in Campaigns :
    /\ matched[c] \subseteq matched'[c]
    /\ status'[c] # "absent" =>
         ApiRecipients(c)' \subseteq
           matched'[c] \cup (IF status[c] # "absent" THEN ApiRecipients(c)
                                                      ELSE {})

(* Every step moves the deliveries so, or not at all.                      *)
LEMMA DeliveredStep ==
  ASSUME TypeOK, [Next]_vars
  PROVE  DeliveredMove
<1>1. CASE UNCHANGED vars
  BY <1>1 DEF vars, DeliveredMove
<1>2. ASSUME NEW c \in Campaigns, NEW t \in Targets,
             CreateBroadcast(c, t)
      PROVE  DeliveredMove
  BY <1>2 DEF CreateBroadcast, DeliveredMove
<1>3. ASSUME NEW c \in Campaigns,
             QueueInRedis(c) \/ QueueInKafka(c) \/ BeginFallback(c) \/
                  FinishFallback(c) \/ HandlerDies(c)
      PROVE  DeliveredMove
  BY <1>3 DEF QueueInRedis, QueueInKafka, BeginFallback, FinishFallback,
       HandlerDies, DeliveredMove
<1>4. ASSUME NEW c \in Campaigns, NEW u \in Leads, FallbackPush(c, u)
      PROVE  DeliveredMove
  BY <1>4 DEF FallbackPush, DeliveredMove
<1>5. ASSUME NEW u \in Leads, NEW s \in Statuses, Relabel(u, s)
      PROVE  DeliveredMove
  BY <1>5 DEF Relabel, DeliveredMove
<1>6. ASSUME NEW w \in Workers, NEW u \in Leads, WorkerPush(w, u)
      PROVE  DeliveredMove
  BY <1>6 DEF WorkerPush, DeliveredMove
<1>7. ASSUME NEW w \in Workers,
             PopRedis(w) \/ PopNothing(w) \/ JoinGroup(w) \/ PollBatch(w)
             \/ PollNothing(w) \/ TakeRecord(w) \/ EndBatch(w) \/
             BeginBroadcast(w) \/ FinishBroadcast(w) \/ DeadLetter(w) \/
             CommitPosition(w) \/ CommitRefused(w) \/ Restart(w) \/
             RollBack(w) \/ CommitRaises(w) \/ DeadLetterRaises(w) \/
             Stop(w) \/ Crash(w) \/ Evict(w)
      PROVE  DeliveredMove
  BY <1>7 DEF PopRedis, PopNothing, JoinGroup, PollBatch, PollNothing,
       TakeRecord, EndBatch, BeginBroadcast, FinishBroadcast, DeadLetter,
       CommitPosition, CommitRefused, Restart, RollBack, CommitRaises,
       DeadLetterRaises, Stop, Crash, Evict, Leave, DeliveredMove
<1> QED BY <1>1, <1>2, <1>3, <1>4, <1>5, <1>6, <1>7
    DEF Next, HandlerStep, WorkerStep

(* Every step moves the fallback's recipients so, or not at all.           *)
LEMMA LeftStep ==
  ASSUME TypeOK, [Next]_vars
  PROVE  LeftMove
<1>1. CASE UNCHANGED vars
  BY <1>1 DEF vars, LeftMove, TypeOK, ApiTypeOK
<1>2. ASSUME NEW c \in Campaigns, NEW t \in Targets,
             CreateBroadcast(c, t)
      PROVE  LeftMove
  BY <1>2 DEF CreateBroadcast, LeftMove, TypeOK, ApiTypeOK
<1>3. ASSUME NEW c \in Campaigns, BeginFallback(c)
      PROVE  LeftMove
  BY <1>3 DEF BeginFallback, LeftMove, TypeOK, ApiTypeOK
<1>4. ASSUME NEW c \in Campaigns,
             QueueInRedis(c) \/ QueueInKafka(c) \/ FinishFallback(c) \/
                  HandlerDies(c)
      PROVE  LeftMove
  BY <1>4 DEF QueueInRedis, QueueInKafka, FinishFallback, HandlerDies,
       LeftMove, TypeOK, ApiTypeOK
<1>5. ASSUME NEW c \in Campaigns, NEW u \in Leads, FallbackPush(c, u)
      PROVE  LeftMove
  <2>1. left' = [left EXCEPT ![c] = left[c] \ {u}] \/ left' = [left EXCEPT ![c]
       = {}]
    BY <1>5 DEF FallbackPush
  <2> QED BY <2>1 DEF LeftMove, TypeOK, ApiTypeOK
<1>6. ASSUME NEW u \in Leads, NEW s \in Statuses, Relabel(u, s)
      PROVE  LeftMove
  BY <1>6 DEF Relabel, LeftMove, TypeOK, ApiTypeOK
<1>7. ASSUME NEW w \in Workers, NEW u \in Leads, WorkerPush(w, u)
      PROVE  LeftMove
  BY <1>7 DEF WorkerPush, LeftMove, TypeOK, ApiTypeOK
<1>8. ASSUME NEW w \in Workers,
             PopRedis(w) \/ PopNothing(w) \/ JoinGroup(w) \/ PollBatch(w)
             \/ PollNothing(w) \/ TakeRecord(w) \/ EndBatch(w) \/
             BeginBroadcast(w) \/ FinishBroadcast(w) \/ DeadLetter(w) \/
             CommitPosition(w) \/ CommitRefused(w) \/ Restart(w) \/
             RollBack(w) \/ CommitRaises(w) \/ DeadLetterRaises(w) \/
             Stop(w) \/ Crash(w) \/ Evict(w)
      PROVE  LeftMove
  BY <1>8 DEF PopRedis, PopNothing, JoinGroup, PollBatch, PollNothing,
       TakeRecord, EndBatch, BeginBroadcast, FinishBroadcast, DeadLetter,
       CommitPosition, CommitRefused, Restart, RollBack, CommitRaises,
       DeadLetterRaises, Stop, Crash, Evict, Leave, LeftMove, TypeOK, ApiTypeOK
<1> QED BY <1>1, <1>2, <1>3, <1>4, <1>5, <1>6, <1>7, <1>8
    DEF Next, HandlerStep, WorkerStep

(* Every step moves the transactions' recipients so, or not at all.        *)
LEMMA RestStep ==
  ASSUME TypeOK, [Next]_vars
  PROVE  RestMove
<1>1. CASE UNCHANGED vars
  BY <1>1 DEF vars, RestMove, TypeOK, WorkerTypeOK, TransactionTypeOK, Working,
       NoTransaction, AfterRecord
<1>2. ASSUME NEW c \in Campaigns, NEW t \in Targets,
             CreateBroadcast(c, t)
      PROVE  RestMove
  BY <1>2 DEF CreateBroadcast, RestMove, TypeOK, WorkerTypeOK,
       TransactionTypeOK, Working, NoTransaction, AfterRecord
<1>3. ASSUME NEW c \in Campaigns,
             QueueInRedis(c) \/ QueueInKafka(c) \/ BeginFallback(c) \/
                  FinishFallback(c) \/ HandlerDies(c)
      PROVE  RestMove
  BY <1>3 DEF QueueInRedis, QueueInKafka, BeginFallback, FinishFallback,
       HandlerDies, RestMove, TypeOK, WorkerTypeOK, TransactionTypeOK, Working,
       NoTransaction, AfterRecord
<1>4. ASSUME NEW c \in Campaigns, NEW u \in Leads, FallbackPush(c, u)
      PROVE  RestMove
  BY <1>4 DEF FallbackPush, RestMove, TypeOK, WorkerTypeOK, TransactionTypeOK,
       Working, NoTransaction, AfterRecord
<1>5. ASSUME NEW u \in Leads, NEW s \in Statuses, Relabel(u, s)
      PROVE  RestMove
  BY <1>5 DEF Relabel, RestMove, TypeOK, WorkerTypeOK, TransactionTypeOK,
       Working, NoTransaction, AfterRecord
<1>6. ASSUME NEW w \in Workers, BeginBroadcast(w)
      PROVE  RestMove
  BY <1>6 DEF BeginBroadcast, RestMove, TypeOK, WorkerTypeOK,
     TransactionTypeOK, Working
<1>7. ASSUME NEW w \in Workers, NEW u \in Leads, WorkerPush(w, u)
      PROVE  RestMove
  <2>1. UNCHANGED <<wpc, record>> /\ rest' = [rest EXCEPT ![w] = rest[w] \ {u}]
    BY <1>7 DEF WorkerPush
  <2> QED BY <2>1 DEF RestMove, TypeOK, WorkerTypeOK, TransactionTypeOK,
       Working
<1>8. ASSUME NEW w \in Workers,
             PopRedis(w) \/ PopNothing(w) \/ JoinGroup(w) \/ PollBatch(w)
             \/ PollNothing(w) \/ TakeRecord(w) \/ EndBatch(w) \/
             FinishBroadcast(w) \/ DeadLetter(w) \/ CommitPosition(w) \/
             CommitRefused(w) \/ Restart(w) \/ RollBack(w) \/
             CommitRaises(w) \/ DeadLetterRaises(w) \/ Stop(w) \/
             Crash(w) \/ Evict(w)
      PROVE  RestMove
  BY <1>8 DEF PopRedis, PopNothing, JoinGroup, PollBatch, PollNothing,
       TakeRecord, EndBatch, FinishBroadcast, DeadLetter, CommitPosition,
       CommitRefused, Restart, RollBack, CommitRaises, DeadLetterRaises, Stop,
       Crash, Evict, Leave, RestMove, TypeOK, WorkerTypeOK, TransactionTypeOK,
       Working, NoTransaction, AfterRecord
<1> QED BY <1>1, <1>2, <1>3, <1>4, <1>5, <1>6, <1>7, <1>8
    DEF Next, HandlerStep, WorkerStep

(* Only the API's insert and a change of a lead's status bear on filters.  *)
FilterMove ==
  \/ \E c \in Campaigns, t \in Targets : CreateBroadcast(c, t)
  \/ \E u \in Leads, s \in Statuses : Relabel(u, s)
  \/ /\ UNCHANGED <<target, leadStatus, matched>>
     /\ \A c \in Campaigns : status'[c] # "absent" => status[c] # "absent"

(* Every step moves the campaigns' filters so, or not at all.              *)
LEMMA FilterStep ==
  ASSUME TypeOK, [Next]_vars
  PROVE  FilterMove
<1>1. CASE UNCHANGED vars
  BY <1>1 DEF vars, FilterMove
<1>2. ASSUME NEW c \in Campaigns, NEW t \in Targets,
             CreateBroadcast(c, t)
      PROVE  FilterMove
  BY <1>2 DEF FilterMove
<1>3. ASSUME NEW c \in Campaigns, FinishFallback(c)
      PROVE  FilterMove
  <2>1. c \in Campaigns /\ status[c] # "absent"
    BY <1>3, ConstantsAssumption
    DEF FinishFallback, Ledger!Settle, TypeOK, WorkerTypeOK, Working,
         ConstantsAssumption
  <2> QED BY <1>3, <2>1 DEF FinishFallback, Ledger!Settle, FilterMove, TypeOK,
       LedgerTypeOK
<1>4. ASSUME NEW c \in Campaigns,
             QueueInRedis(c) \/ QueueInKafka(c) \/ BeginFallback(c) \/
                  HandlerDies(c)
      PROVE  FilterMove
  BY <1>4 DEF QueueInRedis, QueueInKafka, BeginFallback, HandlerDies,
       FilterMove
<1>5. ASSUME NEW c \in Campaigns, NEW u \in Leads, FallbackPush(c, u)
      PROVE  FilterMove
  BY <1>5 DEF FallbackPush, FilterMove
<1>6. ASSUME NEW u \in Leads, NEW s \in Statuses, Relabel(u, s)
      PROVE  FilterMove
  BY <1>6 DEF FilterMove
<1>7. ASSUME NEW w \in Workers, FinishBroadcast(w)
      PROVE  FilterMove
  <2>1. record[w] \in Campaigns /\ status[record[w]] # "absent"
    BY <1>7, ConstantsAssumption
    DEF FinishBroadcast, Ledger!Settle, TypeOK, WorkerTypeOK, Working,
         ConstantsAssumption
  <2> QED BY <1>7, <2>1 DEF FinishBroadcast, Ledger!Settle, FilterMove, TypeOK,
       LedgerTypeOK
<1>8. ASSUME NEW w \in Workers, CommitRaises(w)
      PROVE  FilterMove
  <2>1. record[w] \in Campaigns /\ status[record[w]] # "absent"
    BY <1>8, ConstantsAssumption
    DEF CommitRaises, Ledger!Settle, TypeOK, WorkerTypeOK, Working,
         ConstantsAssumption
  <2> QED BY <1>8, <2>1 DEF CommitRaises, Ledger!Settle, FilterMove, TypeOK,
       LedgerTypeOK
<1>9. ASSUME NEW w \in Workers, NEW u \in Leads, WorkerPush(w, u)
      PROVE  FilterMove
  BY <1>9 DEF WorkerPush, FilterMove
<1>10. ASSUME NEW w \in Workers,
             PopRedis(w) \/ PopNothing(w) \/ JoinGroup(w) \/ PollBatch(w)
             \/ PollNothing(w) \/ TakeRecord(w) \/ EndBatch(w) \/
             BeginBroadcast(w) \/ DeadLetter(w) \/ CommitPosition(w) \/
             CommitRefused(w) \/ Restart(w) \/ RollBack(w) \/
             DeadLetterRaises(w) \/ Stop(w) \/ Crash(w) \/ Evict(w)
      PROVE  FilterMove
  BY <1>10 DEF PopRedis, PopNothing, JoinGroup, PollBatch, PollNothing,
       TakeRecord, EndBatch, BeginBroadcast, DeadLetter, CommitPosition,
       CommitRefused, Restart, RollBack, DeadLetterRaises, Stop, Crash, Evict,
       Leave, FilterMove
<1> QED BY <1>1, <1>2, <1>3, <1>4, <1>5, <1>6, <1>7, <1>8, <1>9, <1>10
    DEF Next, HandlerStep, WorkerStep

(* Every step moves the selected leads so, or not at all.                  *)
LEMMA MatchedStep ==
  ASSUME TypeOK, [Next]_vars
  PROVE  MatchedMove
<1> USE DEF MatchedMove, ApiRecipients, TypeOK, LedgerTypeOK, ApiTypeOK,
     HistoryTypeOK
<1>1. ASSUME NEW c \in Campaigns, NEW t \in Targets,
             CreateBroadcast(c, t)
      PROVE  MatchedMove
  BY <1>1 DEF CreateBroadcast, Ledger!Open
<1>2. ASSUME NEW u \in Leads, NEW s \in Statuses, Relabel(u, s)
      PROVE  MatchedMove
  BY <1>2 DEF Relabel
<1>3. ASSUME UNCHANGED <<target, leadStatus, matched>>,
             \A c \in Campaigns : status'[c] # "absent" => status[c] # "absent"
      PROVE  MatchedMove
  BY <1>3
<1> QED BY <1>1, <1>2, <1>3, FilterStep DEF FilterMove

(* TargetsInv is kept by every step.                                       *)
LEMMA TargetsStep ==
  ASSUME TypeOK, EventsInv, TargetsInv, [Next]_vars
  PROVE  TargetsInv'
<1>1. \A c \in Campaigns : Reachable(c) \subseteq Reachable(c)'
  BY MatchedStep DEF MatchedMove, Reachable
<1>2. ASSUME NEW c \in Campaigns, status'[c] # "absent"
      PROVE  ApiRecipients(c)' \subseteq Reachable(c)'
  <2>1. ApiRecipients(c)' \subseteq matched'[c]
    BY <1>1, <1>2, MatchedStep DEF MatchedMove, TargetsInv, Reachable
  <2> QED BY <2>1 DEF ApiRecipients, Reachable
<1>3. ASSUME NEW c \in Campaigns PROVE left'[c] \subseteq Reachable(c)'
  <2>1. left[c] \subseteq Reachable(c)
    BY DEF TargetsInv
  <2>2. handler[c] # "idle" => ApiRecipients(c) \subseteq Reachable(c)
    BY DEF TargetsInv, EventsInv
  <2> QED BY <1>1, <2>1, <2>2, LeftStep DEF LeftMove
<1>4. ASSUME NEW w \in Workers, wpc'[w] = "push"
      PROVE  rest'[w] \subseteq Reachable(record[w])' /\ record'[w] = record[w]
  <2>1. record'[w] = record[w] /\ record[w] # Nobody /\ record[w] \in Campaigns
    BY <1>4, RestStep DEF RestMove, TypeOK, WorkerTypeOK
  <2>2. wpc[w] = "push" => rest[w] \subseteq Reachable(record[w])
    BY DEF TargetsInv
  <2>3. WorkerRecipients(record[w]) \subseteq Reachable(record[w])
    BY <2>1, WorkerSelectsLess DEF TargetsInv, EventsInv, EventsAreCommitted
  <2>4. rest'[w] \subseteq Reachable(record[w])
    BY <1>4, <2>2, <2>3, RestStep DEF RestMove
  <2> QED BY <1>1, <2>1, <2>4
<1>5. DeliveredOnlyToMatched'
  <2> SUFFICES ASSUME NEW c \in Campaigns, NEW u \in Leads,
                      delivered'[<<c, u>>] > 0
               PROVE  u \in Reachable(c)'
    BY DEF DeliveredOnlyToMatched, Reachable
  <2>1. CASE delivered[<<c, u>>] > 0
    BY <1>1, <2>1 DEF TargetsInv, DeliveredOnlyToMatched, Reachable
  <2>2. ASSUME NEW d \in Campaigns, NEW v \in Leads, v \in left[d],
               Deliver(d, v), ~ (delivered[<<c, u>>] > 0)
        PROVE  u \in Reachable(c)
    <3>1. d = c /\ v = u
      BY <2>2 DEF Deliver, TypeOK, HistoryTypeOK
    <3> QED BY <2>2, <3>1 DEF TargetsInv
  <2>3. ASSUME NEW w \in Workers, NEW v \in Leads, wpc[w] = "push",
               v \in rest[w], Deliver(record[w], v),
               ~ (delivered[<<c, u>>] > 0)
        PROVE  u \in Reachable(c)
    <3>1. record[w] \in Campaigns
      BY <2>3 DEF TypeOK, WorkerTypeOK, Working
    <3>2. record[w] = c /\ v = u
      BY <2>3, <3>1 DEF Deliver, TypeOK, HistoryTypeOK
    <3> QED BY <2>3, <3>2 DEF TargetsInv
  <2> QED BY <1>1, <2>1, <2>2, <2>3, DeliveredStep DEF DeliveredMove
<1> QED
  <2>1. \A w \in Workers :
          (wpc[w] = "push" => rest[w] \subseteq Reachable(record[w]))'
    BY <1>4 DEF Reachable
  <2> QED BY <1>2, <1>3, <1>5, <2>1 DEF TargetsInv

(* No lead ever gets a campaign of another tenant, nor one whose filter    *)
(* never selected it: through both delivery paths, all redeliveries, and   *)
(* any change of statuses while events wait.                               *)
THEOREM DeliveriesAreTargeted == Spec => []DeliveredOnlyToMatched
<1>1. Init => EventsInv /\ TargetsInv
  <2> SUFFICES ASSUME Init PROVE EventsInv /\ TargetsInv
    OBVIOUS
  <2>1. EventsInv
    BY DEF Init, EventsInv, EventsAreCommitted
  <2>2. TargetsInv
    BY DEF Init, TargetsInv, DeliveredOnlyToMatched, Ledger!LedgerInit
  <2> QED BY <2>1, <2>2
<1>2. TargetsInv => DeliveredOnlyToMatched
  BY DEF TargetsInv
<1>3. TypeOK /\ EventsInv /\ TargetsInv /\ [Next]_vars => EventsInv' /\
     TargetsInv'
  BY EventsStep, TargetsStep
<1> QED BY <1>1, <1>2, <1>3, TypeCorrect, PTL DEF Spec

(***************************************************************************)
(* Batches                                                                 *)
(***************************************************************************)
(* While a worker works off the batch it polled.                           *)
Kafka(w) == wpc[w] \in Working /\ source[w] = "kafka"
InBatch(w) == wpc[w] \in {"batch", "commit"} \/ Kafka(w)

(* Else it has worked off all of the last one.                             *)
BatchInv == \A w \in Workers : ~InBatch(w) => cursor[w] = position[w]

(* The steps of a worker; every other step leaves the workers alone.       *)
WorkerMove(w) ==
  \/ PopRedis(w) \/ PopNothing(w) \/ JoinGroup(w) \/ PollBatch(w)
  \/ PollNothing(w) \/ TakeRecord(w) \/ EndBatch(w) \/ BeginBroadcast(w)
  \/ \E u \in Leads : WorkerPush(w, u)
  \/ FinishBroadcast(w) \/ DeadLetter(w) \/ CommitPosition(w)
  \/ CommitRefused(w) \/ Restart(w) \/ RollBack(w) \/ CommitRaises(w)
  \/ DeadLetterRaises(w) \/ Stop(w) \/ Crash(w) \/ Evict(w)

(* The steps of the API and of the leads.                                  *)
ApiMove ==
  \/ UNCHANGED vars
  \/ \E c \in Campaigns :
       \/ \E t \in Targets : CreateBroadcast(c, t)
       \/ QueueInRedis(c) \/ QueueInKafka(c) \/ BeginFallback(c)
       \/ \E u \in Leads : FallbackPush(c, u)
       \/ FinishFallback(c) \/ HandlerDies(c)
  \/ \E u \in Leads, s \in Statuses : Relabel(u, s)

(* A step is of a worker or of the API.                                    *)
LEMMA Moves ==
  ASSUME [Next]_vars
  PROVE  ApiMove \/ \E w \in Workers : WorkerMove(w)
BY DEF Next, HandlerStep, WorkerStep, ApiMove, WorkerMove

(* The API leaves the workers, and what the group has committed, alone.    *)
LEMMA ApiLeavesWorkers ==
  ASSUME ApiMove
  PROVE  UNCHANGED <<workerVars, committed, owner, dlq>>
<1>1. ASSUME NEW c \in Campaigns, NEW u \in Leads, FallbackPush(c, u)
      PROVE  UNCHANGED <<workerVars, committed, owner, dlq>>
  BY <1>1 DEF FallbackPush
<1> QED BY <1>1 DEF ApiMove, vars, CreateBroadcast, QueueInRedis, QueueInKafka,
       BeginFallback, FinishFallback, HandlerDies, Relabel

(* A worker leaves the others, the topic and the handlers alone.           *)
LEMMA WorkerLeavesOthers ==
  ASSUME TypeOK, NEW w \in Workers, WorkerMove(w)
  PROVE  /\ UNCHANGED <<log, handler, left, copies>>
         /\ \A v \in Workers \ {w} :
              /\ wpc'[v] = wpc[v] /\ source'[v] = source[v]
              /\ record'[v] = record[v] /\ rest'[v] = rest[v]
              /\ cursor'[v] = cursor[v] /\ position'[v] = position[v]
<1> DEFINE Rest ==
             /\ UNCHANGED <<log, handler, left, copies>>
             /\ \A v \in Workers \ {w} :
                  /\ wpc'[v] = wpc[v] /\ source'[v] = source[v]
                  /\ record'[v] = record[v] /\ rest'[v] = rest[v]
                  /\ cursor'[v] = cursor[v] /\ position'[v] = position[v]
<1> USE DEF TypeOK, WorkerTypeOK, PositionTypeOK, TransactionTypeOK
<1>1. CASE \/ PopRedis(w) \/ PopNothing(w) \/ JoinGroup(w) \/ PollNothing(w)
           \/ TakeRecord(w) \/ EndBatch(w) \/ BeginBroadcast(w)
  BY <1>1 DEF PopRedis, PopNothing, JoinGroup, PollNothing, TakeRecord,
              EndBatch, BeginBroadcast
<1>2. CASE \/ FinishBroadcast(w) \/ DeadLetter(w) \/ CommitPosition(w)
           \/ Restart(w) \/ RollBack(w) \/ CommitRaises(w)
           \/ DeadLetterRaises(w) \/ Evict(w)
  BY <1>2 DEF FinishBroadcast, DeadLetter, CommitPosition, Restart, RollBack,
              CommitRaises, DeadLetterRaises, Evict, NoTransaction
<1>3. CASE CommitRefused(w) \/ Stop(w) \/ Crash(w)
  BY <1>3 DEF CommitRefused, Stop, Crash, Leave, NoTransaction
<1>4. CASE PollBatch(w)
  <2>1. PICK n \in 1 .. MaxPoll :
          /\ cursor' = [cursor EXCEPT ![w] = position[w]]
          /\ position' = [position EXCEPT ![w] = position[w] + n]
    BY <1>4 DEF PollBatch
  <2> QED BY <1>4, <2>1 DEF PollBatch
<1>5. ASSUME NEW u \in Leads, WorkerPush(w, u) PROVE Rest
  BY <1>5 DEF WorkerPush
<1> QED BY <1>1, <1>2, <1>3, <1>4, <1>5 DEF WorkerMove

(* Every step keeps the batches so.                                        *)
LEMMA BatchStep == TypeOK /\ BatchInv /\ [Next]_vars => BatchInv'
<1> SUFFICES ASSUME TypeOK, BatchInv, [Next]_vars PROVE BatchInv'
  OBVIOUS
<1> USE DEF BatchInv, InBatch, Kafka, Working
<1>1. CASE ApiMove
  BY <1>1, ApiLeavesWorkers
<1>2. ASSUME NEW w \in Workers, WorkerMove(w) PROVE BatchInv'
  <2>1. \A v \in Workers \ {w} : ~InBatch(v)' => cursor'[v] = position'[v]
    BY <1>2, WorkerLeavesOthers
  <2> SUFFICES ASSUME ~InBatch(w)' PROVE cursor'[w] = position'[w]
    BY <2>1
  <2> USE DEF TypeOK, WorkerTypeOK, PositionTypeOK
  <2>2. CASE \/ PopRedis(w) \/ PopNothing(w) \/ JoinGroup(w) \/ PollNothing(w)
             \/ TakeRecord(w) \/ EndBatch(w) \/ BeginBroadcast(w)
    BY <2>2 DEF PopRedis, PopNothing, JoinGroup, PollNothing, TakeRecord,
                EndBatch, BeginBroadcast
  <2>3. CASE \/ FinishBroadcast(w) \/ DeadLetter(w) \/ CommitPosition(w)
             \/ Restart(w) \/ RollBack(w) \/ CommitRaises(w)
             \/ DeadLetterRaises(w) \/ Evict(w)
    BY <2>3 DEF FinishBroadcast, DeadLetter, CommitPosition, Restart, RollBack,
                CommitRaises, DeadLetterRaises, Evict, AfterRecord
  <2>4. CASE CommitRefused(w) \/ Stop(w) \/ Crash(w)
    BY <2>4 DEF CommitRefused, Stop, Crash, Leave
  <2>5. CASE PollBatch(w)
    BY <2>5 DEF PollBatch
  <2>6. ASSUME NEW u \in Leads, WorkerPush(w, u) PROVE cursor'[w] = position'[w]
    BY <2>6 DEF WorkerPush
  <2> QED BY <1>2, <2>2, <2>3, <2>4, <2>5, <2>6 DEF WorkerMove
<1> QED BY <1>1, <1>2, Moves

(***************************************************************************)
(* One copy of an event in each queue                                      *)
(***************************************************************************)
(* A handler offers its event to a queue once, and then goes on.           *)
RedisOnce ==
  /\ \A i, j \in 1 .. Len(redis) : redis[i] = redis[j] => i = j
  /\ \A i \in 1 .. Len(redis) : handler[redis[i]] \notin {"idle", "redis"}

LogOnce ==
  /\ \A i, j \in 1 .. Len(log) : log[i] = log[j] => i = j
  /\ \A i \in 1 .. Len(log) :
       handler[log[i]] \notin {"idle", "redis", "kafka"}

(* A handler that has gone on does not come back.                          *)
LEMMA HandlerGoesOn ==
  ASSUME TypeOK, [Next]_vars, NEW c \in Campaigns
  PROVE  /\ handler'[c] \in {"idle", "redis"} => handler[c] \in {"idle", "redis"}
         /\ handler'[c] \in {"idle", "redis", "kafka"}
              => handler[c] \in {"idle", "redis", "kafka"}
<1>1. handler \in [Campaigns -> {"idle", "redis", "kafka", "fallback",
                                 "pushing", "queued", "synced", "failed"}]
  BY DEF TypeOK, ApiTypeOK
<1>2. CASE ApiMove
  <2>1. ASSUME NEW d \in Campaigns, NEW t \in Targets, CreateBroadcast(d, t)
        PROVE  /\ handler[d] = "idle"
               /\ \E x \in {"redis", "kafka"} : handler' = [handler EXCEPT ![d] = x]
    BY <2>1 DEF CreateBroadcast
  <2>2. ASSUME NEW d \in Campaigns, QueueInRedis(d)
        PROVE  /\ handler[d] = "redis"
               /\ \E x \in {"queued", "kafka"} : handler' = [handler EXCEPT ![d] = x]
    BY <2>2 DEF QueueInRedis
  <2>3. ASSUME NEW d \in Campaigns,
               \/ QueueInKafka(d) \/ BeginFallback(d) \/ FinishFallback(d)
               \/ HandlerDies(d)
        PROVE  \E x \in {"queued", "fallback", "pushing", "synced", "failed"} :
                 handler' = [handler EXCEPT ![d] = x]
    BY <2>3 DEF QueueInKafka, BeginFallback, FinishFallback, HandlerDies
  <2>4. ASSUME NEW d \in Campaigns, NEW u \in Leads, FallbackPush(d, u)
        PROVE  handler' = handler \/ handler' = [handler EXCEPT ![d] = "failed"]
    BY <2>4 DEF FallbackPush
  <2>5. CASE UNCHANGED vars \/ \E u \in Leads, s \in Statuses : Relabel(u, s)
    BY <2>5 DEF vars, Relabel
  <2> QED BY <1>1, <1>2, <2>1, <2>2, <2>3, <2>4, <2>5 DEF ApiMove
<1>3. ASSUME NEW w \in Workers, WorkerMove(w) PROVE handler' = handler
  BY <1>3, WorkerLeavesOthers
<1> QED BY <1>2, <1>3, Moves

(* A handler that publishes to a queue goes on.                            *)
LEMMA PublishesOnce ==
  ASSUME TypeOK, [Next]_vars
  PROVE  /\ \/ redis' = redis
            \/ \E c \in Campaigns : /\ handler[c] = "redis"
                                    /\ handler'[c] \in {"kafka", "queued"}
                                    /\ redis' = Append(redis, c)
            \/ redis # <<>> /\ redis' = Front(redis)
         /\ \/ log' = log
            \/ \E c \in Campaigns : /\ handler[c] = "kafka"
                                    /\ handler'[c] \in {"fallback", "queued"}
                                    /\ log' = Append(log, c)
<1>1. CASE ApiMove
  <2>1. ASSUME NEW c \in Campaigns, QueueInRedis(c)
        PROVE  /\ log' = log /\ handler[c] = "redis"
               /\ handler'[c] \in {"kafka", "queued"}
               /\ redis' = redis \/ redis' = Append(redis, c)
    BY <2>1 DEF QueueInRedis, TypeOK, ApiTypeOK
  <2>2. ASSUME NEW c \in Campaigns, QueueInKafka(c)
        PROVE  /\ redis' = redis /\ handler[c] = "kafka"
               /\ handler'[c] \in {"fallback", "queued"}
               /\ log' = log \/ log' = Append(log, c)
    BY <2>2 DEF QueueInKafka, TypeOK, ApiTypeOK
  <2>3. ASSUME NEW c \in Campaigns, NEW u \in Leads, FallbackPush(c, u)
        PROVE  log' = log /\ redis' = redis
    BY <2>3 DEF FallbackPush
  <2>4. CASE \/ UNCHANGED vars
             \/ \E c \in Campaigns :
                  \/ \E t \in Targets : CreateBroadcast(c, t)
                  \/ BeginFallback(c) \/ FinishFallback(c) \/ HandlerDies(c)
             \/ \E u \in Leads, s \in Statuses : Relabel(u, s)
    BY <2>4 DEF vars, CreateBroadcast, BeginFallback, FinishFallback,
                HandlerDies, Relabel
  <2> QED BY <1>1, <2>1, <2>2, <2>3, <2>4 DEF ApiMove
<1>2. ASSUME NEW w \in Workers, WorkerMove(w)
      PROVE  log' = log /\ (redis' = redis \/ (redis # <<>> /\ redis' = Front(redis)))
  <2>1. log' = log /\ handler' = handler
    BY <1>2, WorkerLeavesOthers
  <2>2. ASSUME NEW u \in Leads, WorkerPush(w, u) PROVE redis' = redis
    BY <2>2 DEF WorkerPush
  <2>3. ASSUME PopRedis(w) PROVE redis # <<>> /\ redis' = Front(redis)
    BY <2>3 DEF PopRedis
  <2>4. ASSUME \/ PopNothing(w) \/ JoinGroup(w) \/ PollBatch(w) \/ PollNothing(w)
               \/ TakeRecord(w) \/ EndBatch(w) \/ BeginBroadcast(w)
        PROVE  redis' = redis
    BY <2>4 DEF PopNothing, JoinGroup, PollBatch, PollNothing, TakeRecord,
                EndBatch, BeginBroadcast
  <2>5. ASSUME \/ FinishBroadcast(w) \/ DeadLetter(w) \/ CommitPosition(w)
               \/ Restart(w) \/ RollBack(w) \/ CommitRaises(w)
               \/ DeadLetterRaises(w) \/ Evict(w)
        PROVE  redis' = redis
    BY <2>5 DEF FinishBroadcast, DeadLetter, CommitPosition, Restart, RollBack,
                CommitRaises, DeadLetterRaises, Evict
  <2>6. ASSUME CommitRefused(w) \/ Stop(w) \/ Crash(w) PROVE redis' = redis
    BY <2>6 DEF CommitRefused, Stop, Crash, Leave
  <2>7. PopRedis(w) \/ redis' = redis
    BY <1>2, <2>2, <2>4, <2>5, <2>6 DEF WorkerMove
  <2> QED BY <2>1, <2>3, <2>7
<1> QED BY <1>1, <1>2, Moves

(* What a list loses its last element to.                                  *)
LEMMA FrontOf ==
  ASSUME NEW S, NEW s \in Seq(S), s # <<>>
  PROVE  /\ Len(s) \in 1 .. Len(s) /\ Len(Front(s)) = Len(s) - 1
         /\ \A i \in 1 .. Len(Front(s)) : Front(s)[i] = s[i]
<1>1. Len(s) \in Nat /\ Len(s) # 0
  OBVIOUS
<1> DEFINE n == Len(s) - 1
<1>2. Front(s) = SubSeq(s, 1, n)
  BY DEF Front
<1>4. n \in Nat
  BY <1>1
<1> HIDE DEF n
<1>5. Len(SubSeq(s, 1, n)) = n /\ \A i \in 1 .. n : SubSeq(s, 1, n)[i] = s[i]
  BY <1>4
<1>6. /\ Len(Front(s)) = n
      /\ \A i \in 1 .. Len(Front(s)) : Front(s)[i] = s[i]
  BY <1>2, <1>5, Zenon
<1>7. Len(Front(s)) = Len(s) - 1
  BY <1>6 DEF n
<1>8. Len(s) \in 1 .. Len(s)
  BY <1>1
<1> QED BY <1>6, <1>7, <1>8

(* A campaign is in the list once at most.                                 *)
LEMMA RedisOnceStep == TypeOK /\ RedisOnce /\ [Next]_vars => RedisOnce'
<1> SUFFICES ASSUME TypeOK, RedisOnce, [Next]_vars PROVE RedisOnce'
  OBVIOUS
<1>1. redis \in Seq(Campaigns)
  BY DEF TypeOK, QueueTypeOK
<1>2. \A i \in 1 .. Len(redis) : handler'[redis[i]] \notin {"idle", "redis"}
  BY <1>1, HandlerGoesOn DEF RedisOnce
<1>3. CASE redis' = redis
  BY <1>2, <1>3 DEF RedisOnce
<1>4. ASSUME NEW c \in Campaigns, handler[c] = "redis",
             handler'[c] \in {"kafka", "queued"}, redis' = Append(redis, c)
      PROVE  RedisOnce'
  <2>1. /\ Len(redis') = Len(redis) + 1 /\ redis'[Len(redis) + 1] = c
        /\ \A i \in 1 .. Len(redis) : redis'[i] = redis[i]
    BY <1>1, <1>4
  <2>2. \A i \in 1 .. Len(redis) : redis[i] # c
    BY <1>4 DEF RedisOnce
  <2>3. \A i \in 1 .. Len(redis') : i = Len(redis) + 1 \/ i \in 1 .. Len(redis)
    BY <1>1, <2>1
  <2>4. \A i, j \in 1 .. Len(redis') : redis'[i] = redis'[j] => i = j
    BY <2>1, <2>2, <2>3 DEF RedisOnce
  <2>5. \A i \in 1 .. Len(redis') : handler'[redis'[i]] \notin {"idle", "redis"}
    BY <1>2, <1>4, <2>1, <2>3
  <2> QED BY <2>4, <2>5 DEF RedisOnce
<1>5. CASE redis # <<>> /\ redis' = Front(redis)
  <2>1. /\ 1 .. Len(redis') \subseteq 1 .. Len(redis)
        /\ \A i \in 1 .. Len(redis') : redis'[i] = redis[i]
    BY <1>1, <1>5 DEF Front
  <2> QED BY <1>2, <2>1 DEF RedisOnce
<1> QED BY <1>3, <1>4, <1>5, PublishesOnce

(* It is in the topic once at most.                                        *)
LEMMA LogOnceStep == TypeOK /\ LogOnce /\ [Next]_vars => LogOnce'
<1> SUFFICES ASSUME TypeOK, LogOnce, [Next]_vars PROVE LogOnce'
  OBVIOUS
<1>1. log \in Seq(Campaigns)
  BY DEF TypeOK, QueueTypeOK
<1>2. \A i \in 1 .. Len(log) : handler'[log[i]] \notin {"idle", "redis", "kafka"}
  BY <1>1, HandlerGoesOn DEF LogOnce
<1>3. CASE log' = log
  BY <1>2, <1>3 DEF LogOnce
<1>4. ASSUME NEW c \in Campaigns, handler[c] = "kafka",
             handler'[c] \in {"fallback", "queued"}, log' = Append(log, c)
      PROVE  LogOnce'
  <2>1. /\ Len(log') = Len(log) + 1 /\ log'[Len(log) + 1] = c
        /\ \A i \in 1 .. Len(log) : log'[i] = log[i]
    BY <1>1, <1>4
  <2>2. \A i \in 1 .. Len(log) : log[i] # c
    BY <1>4 DEF LogOnce
  <2>3. \A i \in 1 .. Len(log') : i = Len(log) + 1 \/ i \in 1 .. Len(log)
    BY <1>1, <2>1
  <2>4. \A i, j \in 1 .. Len(log') : log'[i] = log'[j] => i = j
    BY <2>1, <2>2, <2>3 DEF LogOnce
  <2>5. \A i \in 1 .. Len(log') :
          handler'[log'[i]] \notin {"idle", "redis", "kafka"}
    BY <1>2, <1>4, <2>1, <2>3
  <2> QED BY <2>4, <2>5 DEF LogOnce
<1> QED BY <1>3, <1>4, PublishesOnce

(***************************************************************************)
(* How often a lead may still get a campaign                               *)
(***************************************************************************)
(* The group hands out a record again when its owner has not taken it yet, *)
(* or when the owner has gone past it without a commit to come.            *)
Due(i) ==
  \A w \in Workers : owner = w /\ i <= position[w] =>
    i <= cursor[w] /\ wpc[w] # "commit" /\ ~(cursor[w] = i /\ Kafka(w))

(* Where a message for the lead may still come from: the handler, the      *)
(* list, the topic, the rest of a batch, the transaction of a worker.      *)
ByHandler(c, u) == handler[c] = "pushing" /\ u \in left[c]
InRedis(c) == \E i \in 1 .. Len(redis) : redis[i] = c
InTopic(c) == \E i \in committed + 1 .. Len(log) : log[i] = c /\ Due(i)
Batches(c) == {w \in Workers : \E i \in cursor[w] + 1 .. position[w] : log[i] = c}
Transactions(c, u) ==
  {w \in Workers : /\ record[w] = c
                   /\ \/ wpc[w] = "begin"
                      \/ wpc[w] = "push" /\ u \in rest[w]}

One(p) == IF p THEN 1 ELSE 0

Singles(c, u) == One(ByHandler(c, u)) + One(InRedis(c)) + One(InTopic(c))

Outstanding(c, u) ==
  Singles(c, u) + Cardinality(Batches(c)) + Cardinality(Transactions(c, u))

Allowed(c) == copies[c] + Spent("crash") + Spent("evict") + Spent("dlq")

(* What the lead got and may still get is what was asked for, and one more *)
(* for each crash, eviction and lost dead letter.                          *)
Bounded(c, u) ==
  /\ IsFiniteSet(Batches(c)) /\ IsFiniteSet(Transactions(c, u))
  /\ delivered[<<c, u>>] + Outstanding(c, u) <= Allowed(c)

CopiesInv == \A c \in Campaigns, u \in Leads : Bounded(c, u)

(* A set within a finite set is no larger.                                 *)
LEMMA NotMore ==
  ASSUME NEW S, NEW T, IsFiniteSet(S), T \subseteq S
  PROVE  /\ IsFiniteSet(T) /\ Cardinality(T) \in Nat
         /\ Cardinality(T) <= Cardinality(S) + 0
<1>1. IsFiniteSet(T) /\ Cardinality(T) <= Cardinality(S)
  BY FS_Subset
<1>2. Cardinality(S) \in Nat /\ Cardinality(T) \in Nat
  BY <1>1, FS_CardinalityType
<1> QED BY <1>1, <1>2

(* One that gains an element is larger by one at most.                     *)
LEMMA OneElementMore ==
  ASSUME NEW S, NEW T, NEW x, IsFiniteSet(S), T \subseteq S \cup {x}
  PROVE  /\ IsFiniteSet(T) /\ Cardinality(T) \in Nat
         /\ Cardinality(T) <= Cardinality(S) + 1
<1>1. /\ IsFiniteSet(S \cup {x})
      /\ Cardinality(S \cup {x}) \in {Cardinality(S), Cardinality(S) + 1}
  BY FS_AddElement
<1>2. IsFiniteSet(T) /\ Cardinality(T) <= Cardinality(S \cup {x})
  BY <1>1, FS_Subset
<1>3. Cardinality(S) \in Nat /\ Cardinality(T) \in Nat
  BY <1>2, FS_CardinalityType
<1> QED BY <1>1, <1>2, <1>3

(* One that loses an element is smaller by one.                            *)
LEMMA OneElementLess ==
  ASSUME NEW S, NEW T, NEW x, IsFiniteSet(S), x \in S, T \subseteq S \ {x}
  PROVE  /\ IsFiniteSet(T) /\ Cardinality(T) \in Nat
         /\ Cardinality(T) <= Cardinality(S) + (-1)
<1>1. /\ IsFiniteSet(S \ {x})
      /\ Cardinality(S \ {x}) = Cardinality(S) - 1
  BY FS_RemoveElement
<1>2. IsFiniteSet(T) /\ Cardinality(T) <= Cardinality(S \ {x})
  BY <1>1, FS_Subset
<1>3. Cardinality(S) \in Nat /\ Cardinality(T) \in Nat
  BY <1>2, FS_CardinalityType
<1> QED BY <1>1, <1>2, <1>3

(* The parts of the bound are numbers.                                     *)
LEMMA BoundTypes ==
  ASSUME TypeOK, NEW c \in Campaigns, NEW u \in Leads
  PROVE  /\ delivered[<<c, u>>] \in Nat /\ copies[c] \in Nat
         /\ \A k \in FaultKinds : Spent(k) \in Int
         /\ Allowed(c) \in Int
         /\ \A p \in BOOLEAN : One(p) \in {0, 1}
<1>1. \A k \in FaultKinds : Spent(k) \in Int
  BY ConstantsAssumption DEF Spent, TypeOK, HistoryTypeOK, ConstantsAssumption
<1>2. {"crash", "evict", "dlq"} \subseteq FaultKinds
  BY DEF FaultKinds
<1> QED BY <1>1, <1>2 DEF TypeOK, HistoryTypeOK, Allowed, One

(* A fault that is spent allows one more, or nothing.                      *)
LEMMA AllowedMore ==
  ASSUME TypeOK, NEW c \in Campaigns, copies' = copies,
         budget' = budget \/ \E k \in FaultKinds : Spend(k)
  PROVE  /\ Allowed(c)' \in Int /\ Allowed(c)' >= Allowed(c)
         /\ Spend("crash") \/ Spend("evict") \/ Spend("dlq")
              => Allowed(c)' >= Allowed(c) + 1
<1>1. /\ MaxFaults \in [FaultKinds -> Nat] /\ budget \in [FaultKinds -> Nat]
      /\ {"crash", "evict", "dlq"} \subseteq FaultKinds
      /\ copies[c] \in Nat
  BY ConstantsAssumption
     DEF TypeOK, HistoryTypeOK, ConstantsAssumption, FaultKinds
<1>2. CASE budget' = budget
  BY <1>1, <1>2 DEF Allowed, Spent, Spend
<1>3. ASSUME NEW k \in FaultKinds, Spend(k)
      PROVE  /\ Allowed(c)' \in Int /\ Allowed(c)' >= Allowed(c)
             /\ k \in {"crash", "evict", "dlq"} => Allowed(c)' >= Allowed(c) + 1
  <2>1. /\ budget'[k] = budget[k] - 1
        /\ \A j \in FaultKinds \ {k} : budget'[j] = budget[j]
    BY <1>1, <1>3 DEF Spend
  <2> QED BY <1>1, <2>1 DEF Allowed, Spent
<1> QED BY <1>1, <1>2, <1>3

(* What a step adds to the deliveries made and outstanding, it allows.     *)
LEMMA Balance ==
  ASSUME TypeOK, NEW c \in Campaigns, NEW u \in Leads, Bounded(c, u),
         IsFiniteSet(Batches(c)'), IsFiniteSet(Transactions(c, u)'),
         NEW d \in Int, delivered'[<<c, u>>] = delivered[<<c, u>>] + d,
         NEW s \in Int, Singles(c, u)' <= Singles(c, u) + s,
         NEW b \in Int, Cardinality(Batches(c)') <= Cardinality(Batches(c)) + b,
         NEW t \in Int, Cardinality(Transactions(c, u)')
                          <= Cardinality(Transactions(c, u)) + t,
         Allowed(c)' \in Int, Allowed(c)' >= Allowed(c) + d + s + b + t
  PROVE  Bounded(c, u)'
<1>1. /\ Cardinality(Batches(c)') \in Nat
      /\ Cardinality(Transactions(c, u)') \in Nat
      /\ Cardinality(Batches(c)) \in Nat
      /\ Cardinality(Transactions(c, u)) \in Nat
  BY FS_CardinalityType DEF Bounded
<1>2. Singles(c, u) \in Int /\ Singles(c, u)' \in Int
  BY DEF Singles, One
<1>3. /\ Outstanding(c, u) = Singles(c, u) + Cardinality(Batches(c))
                               + Cardinality(Transactions(c, u))
      /\ Outstanding(c, u)' = Singles(c, u)' + Cardinality(Batches(c)')
                                 + Cardinality(Transactions(c, u)')
  BY DEF Outstanding
<1>4. /\ delivered[<<c, u>>] \in Int /\ Allowed(c) \in Int
      /\ delivered[<<c, u>>] + Outstanding(c, u) <= Allowed(c)
  BY BoundTypes DEF Bounded
<1>5. delivered'[<<c, u>>] + Outstanding(c, u)' <= Allowed(c)'
  BY <1>1, <1>2, <1>3, <1>4
<1> QED BY <1>5 DEF Bounded

(* The workers hold no more, and the rest adds up.                         *)
LEMMA RestAddsUp ==
  ASSUME TypeOK, NEW c \in Campaigns, NEW u \in Leads, Bounded(c, u),
         NEW m \in Int, Singles(c, u)' <= Singles(c, u) + m,
         NEW d \in Int, delivered'[<<c, u>>] = delivered[<<c, u>>] + d,
         Batches(c)' \subseteq Batches(c),
         Transactions(c, u)' \subseteq Transactions(c, u),
         Allowed(c)' \in Int, Allowed(c)' >= Allowed(c) + d + m
  PROVE  Bounded(c, u)'
<1>1. /\ IsFiniteSet(Batches(c)')
      /\ Cardinality(Batches(c)') <= Cardinality(Batches(c)) + 0
  BY NotMore DEF Bounded
<1>3. /\ IsFiniteSet(Transactions(c, u)')
      /\ Cardinality(Transactions(c, u)') <= Cardinality(Transactions(c, u)) + 0
  BY NotMore DEF Bounded
<1>2. Allowed(c)' >= Allowed(c) + d + m + 0 + 0
  BY BoundTypes
<1> QED BY <1>1, <1>2, <1>3, Balance

(* Nothing was delivered; nothing more is outstanding, or one thing more   *)
(* is and one thing more allowed.                                          *)
LEMMA OneMore ==
  ASSUME TypeOK, NEW c \in Campaigns, NEW u \in Leads, Bounded(c, u),
         NEW m \in {0, 1}, Singles(c, u)' <= Singles(c, u) + m,
         Batches(c)' \subseteq Batches(c),
         Transactions(c, u)' \subseteq Transactions(c, u),
         delivered'[<<c, u>>] = delivered[<<c, u>>],
         Allowed(c)' \in Int, Allowed(c)' >= Allowed(c) + m
  PROVE  Bounded(c, u)'
<1>1. /\ delivered'[<<c, u>>] = delivered[<<c, u>>] + 0
      /\ Allowed(c)' >= Allowed(c) + 0 + m
  BY BoundTypes
<1> QED BY <1>1, RestAddsUp

(* Nothing more is outstanding in the handler, the list and the topic.     *)
LEMMA NoMoreSingles ==
  ASSUME NEW c \in Campaigns, NEW u \in Leads,
         ByHandler(c, u)' => ByHandler(c, u),
         InRedis(c)' => InRedis(c),
         InTopic(c)' => InTopic(c)
  PROVE  Singles(c, u)' <= Singles(c, u) + 0
<1>1. /\ One(ByHandler(c, u)') <= One(ByHandler(c, u))
      /\ One(InRedis(c)') <= One(InRedis(c))
      /\ One(InTopic(c)') <= One(InTopic(c))
  BY DEF One
<1> QED BY <1>1 DEF Singles, One

(* What is ahead of a later position is ahead of an earlier one.           *)
LEMMA Ahead ==
  ASSUME NEW m \in Nat, NEW k \in Nat, NEW n \in Nat, k >= m,
         NEW i \in k + 1 .. n
  PROVE  i \in m + 1 .. n /\ i \in Int
OBVIOUS

(* The group does not hand out again what it has handed out, unless the    *)
(* owner of the partition dies, is evicted or fails to dead-letter.        *)
LEMMA DueStep ==
  ASSUME TypeOK, BatchInv, OwnerAhead, [Next]_vars,
         NEW w \in Workers, WorkerMove(w),
         ~(Crash(w) \/ Evict(w) \/ DeadLetterRaises(w))
  PROVE  \A i \in committed' + 1 .. Len(log') :
           Due(i)' => i \in committed + 1 .. Len(log) /\ Due(i)
<1>1. /\ log' = log /\ committed \in Nat /\ committed' \in Nat
      /\ Len(log) \in Nat /\ committed' >= committed
  BY WorkerLeavesOthers, OwnerAheadStep, NextType DEF TypeOK, QueueTypeOK
<1>2. \A i \in committed' + 1 .. Len(log) :
        i \in committed + 1 .. Len(log) /\ i \in Int
  BY <1>1, Ahead
<1> SUFFICES ASSUME NEW i \in Int, i \in committed' + 1 .. Len(log),
                    i \in committed + 1 .. Len(log), Due(i)', ~Due(i)
             PROVE  FALSE
  BY <1>1, <1>2
<1>3. PICK v \in Workers :
        /\ owner = v /\ i <= position[v]
        /\ i > cursor[v] \/ wpc[v] = "commit" \/ (cursor[v] = i /\ Kafka(v))
  BY <1>2 DEF Due, TypeOK, PositionTypeOK
<1>4. owner' = v /\ i <= position'[v]
        => /\ i <= cursor'[v] /\ wpc'[v] # "commit"
           /\ ~(cursor'[v] = i /\ Kafka(v)')
  BY DEF Due
<1>5. InBatch(v) /\ v # Nobody
  BY <1>2, <1>3, ConstantsAssumption
     DEF BatchInv, InBatch, TypeOK, PositionTypeOK, ConstantsAssumption
<1>6. CASE v # w
  <2>1. owner' = owner
    <3>1. ASSUME NEW u \in Leads, WorkerPush(w, u) PROVE owner' = owner
      BY <3>1 DEF WorkerPush
    <3> QED BY <1>3, <1>5, <1>6, <3>1 DEF WorkerMove, PopRedis, PopNothing,
       JoinGroup, PollBatch, PollNothing, TakeRecord, EndBatch, BeginBroadcast,
       FinishBroadcast, DeadLetter, CommitPosition, CommitRefused, Restart,
       RollBack, CommitRaises, Stop, Leave
  <2>2. /\ wpc'[v] = wpc[v] /\ source'[v] = source[v]
        /\ cursor'[v] = cursor[v] /\ position'[v] = position[v]
    BY <1>6, WorkerLeavesOthers
  <2> QED BY <1>2, <1>3, <1>4, <2>1, <2>2 DEF Kafka, TypeOK, PositionTypeOK
<1>7. CASE v = w
  <2> USE <1>2, <1>3, <1>4, <1>5, <1>7
      DEF Kafka, Working, InBatch, TypeOK, PositionTypeOK, WorkerTypeOK
  <2>1. CASE \/ PopRedis(w) \/ PopNothing(w) \/ JoinGroup(w) \/ PollBatch(w)
             \/ PollNothing(w) \/ Restart(w) \/ Stop(w) \/ CommitRefused(w)
    BY <2>1 DEF PopRedis, PopNothing, JoinGroup, PollBatch, PollNothing,
                Restart, Stop, CommitRefused
  <2>2. CASE TakeRecord(w)
    BY <2>2 DEF TakeRecord
  <2>3. CASE EndBatch(w) \/ BeginBroadcast(w)
    BY <2>3 DEF EndBatch, BeginBroadcast
  <2>4. CASE FinishBroadcast(w) \/ DeadLetter(w)
    BY <2>4 DEF FinishBroadcast, DeadLetter, AfterRecord
  <2>5. CASE RollBack(w) \/ CommitRaises(w)
    BY <2>5 DEF RollBack, CommitRaises
  <2>6. CASE CommitPosition(w)
    BY <2>6 DEF CommitPosition
  <2>7. ASSUME NEW u \in Leads, WorkerPush(w, u) PROVE FALSE
    BY <2>7 DEF WorkerPush
  <2> QED BY <2>1, <2>2, <2>3, <2>4, <2>5, <2>6, <2>7 DEF WorkerMove
<1> QED BY <1>6, <1>7

(* One thing more is outstanding there at most.                            *)
LEMMA OneMoreSingle ==
  ASSUME NEW c \in Campaigns, NEW u \in Leads,
         LET H == ByHandler(c, u)' => ByHandler(c, u)
             R == InRedis(c)' => InRedis(c)
             T == InTopic(c)' => InTopic(c)
         IN  (H /\ R) \/ (H /\ T) \/ (R /\ T)
  PROVE  Singles(c, u)' <= Singles(c, u) + 1
<1> DEFINE h == One(ByHandler(c, u))  r == One(InRedis(c))  t == One(InTopic(c))
           hh == One(ByHandler(c, u)')  rr == One(InRedis(c)')
           tt == One(InTopic(c)')
<1>1. /\ h \in {0, 1} /\ r \in {0, 1} /\ t \in {0, 1}
      /\ hh \in {0, 1} /\ rr \in {0, 1} /\ tt \in {0, 1}
  BY DEF One
<1>2. (hh <= h /\ rr <= r) \/ (hh <= h /\ tt <= t) \/ (rr <= r /\ tt <= t)
  BY DEF One
<1>3. Singles(c, u) = h + r + t /\ Singles(c, u)' = hh + rr + tt
  BY DEF Singles
<1> HIDE DEF h, r, t, hh, rr, tt
<1> QED BY <1>1, <1>2, <1>3

(* One thing less is outstanding there.                                    *)
LEMMA OneLessSingle ==
  ASSUME NEW c \in Campaigns, NEW u \in Leads,
         ByHandler(c, u)' => ByHandler(c, u),
         InRedis(c)' => InRedis(c),
         InTopic(c)' => InTopic(c),
         \/ ByHandler(c, u) /\ ~ByHandler(c, u)'
         \/ InRedis(c) /\ ~InRedis(c)'
         \/ InTopic(c) /\ ~InTopic(c)'
  PROVE  Singles(c, u)' <= Singles(c, u) + (-1)
<1> DEFINE h == One(ByHandler(c, u))  r == One(InRedis(c))  t == One(InTopic(c))
           hh == One(ByHandler(c, u)')  rr == One(InRedis(c)')
           tt == One(InTopic(c)')
<1>1. /\ h \in {0, 1} /\ r \in {0, 1} /\ t \in {0, 1}
      /\ hh \in {0, 1} /\ rr \in {0, 1} /\ tt \in {0, 1}
  BY DEF One
<1>2. /\ hh <= h /\ rr <= r /\ tt <= t
      /\ (h = 1 /\ hh = 0) \/ (r = 1 /\ rr = 0) \/ (t = 1 /\ tt = 0)
  BY DEF One
<1>3. Singles(c, u) = h + r + t /\ Singles(c, u)' = hh + rr + tt
  BY DEF Singles
<1> HIDE DEF h, r, t, hh, rr, tt
<1> QED BY <1>1, <1>2, <1>3

(* A step of the API leaves what the workers hold, and what the group has  *)
(* still to hand out of the topic but for what is new.                     *)
LEMMA ApiFrame ==
  ASSUME TypeOK, [Next]_vars, ApiMove, NEW c \in Campaigns, NEW u \in Leads
  PROVE  /\ Batches(c)' \subseteq Batches(c)
         /\ Transactions(c, u)' \subseteq Transactions(c, u)
         /\ log' = log => (InTopic(c)' => InTopic(c))
         /\ \A d \in Campaigns :
              log' = Append(log, d) /\ d # c => (InTopic(c)' => InTopic(c))
<1>1. UNCHANGED <<workerVars, committed, owner>>
  BY ApiLeavesWorkers
<1>2. Transactions(c, u)' = Transactions(c, u)
  BY <1>1 DEF Transactions
<1>3. \A i : Due(i)' = Due(i)
  BY <1>1 DEF Due, Kafka
<1>4. log \in Seq(Campaigns) /\ committed \in 0 .. Len(log)
  BY DEF TypeOK, QueueTypeOK
<1>5. CASE log' = log
  <2>1. Batches(c)' = Batches(c)
    BY <1>1, <1>5 DEF Batches
  <2>2. InTopic(c)' = InTopic(c)
    BY <1>1, <1>3, <1>5 DEF InTopic
  <2>3. \A d \in Campaigns : log' # Append(log, d)
    BY <1>4, <1>5
  <2> QED BY <1>2, <2>1, <2>2, <2>3
<1>6. ASSUME NEW d \in Campaigns, log' = Append(log, d)
      PROVE  /\ Batches(c)' \subseteq Batches(c)
             /\ d # c => (InTopic(c)' => InTopic(c))
             /\ log' # log
             /\ \A e \in Campaigns : log' = Append(log, e) => e = d
  <2>1. /\ Len(log') = Len(log) + 1 /\ log'[Len(log) + 1] = d
        /\ \A i \in 1 .. Len(log) : log'[i] = log[i]
        /\ \A e \in Campaigns : Append(log, e)[Len(log) + 1] = e
    BY <1>4, <1>6
  <2>2. \A w \in Workers : \A i \in cursor[w] + 1 .. position[w] :
          i \in 1 .. Len(log)
    BY <1>4 DEF TypeOK, PositionTypeOK
  <2>3. Batches(c)' \subseteq Batches(c)
    BY <1>1, <2>1, <2>2 DEF Batches
  <2>4. \A i \in committed + 1 .. Len(log') :
          i = Len(log) + 1 \/ (i \in committed + 1 .. Len(log) /\ i \in 1 .. Len(log))
    BY <1>4, <2>1
  <2>5. d # c => (InTopic(c)' => InTopic(c))
    BY <1>1, <1>3, <2>1, <2>4 DEF InTopic
  <2> QED BY <1>4, <1>6, <2>1, <2>3, <2>5
<1> QED BY <1>2, <1>5, <1>6, PublishesOnce

(* The steps of the API keep the bound: each event and each fallback that  *)
(* asks for one more delivery is counted.                                  *)
LEMMA ApiKeepsBound ==
  ASSUME TypeOK, [Next]_vars, ApiMove, NEW c \in Campaigns, NEW u \in Leads,
         Bounded(c, u)
  PROVE  Bounded(c, u)'
<1>1. /\ Batches(c)' \subseteq Batches(c)
      /\ Transactions(c, u)' \subseteq Transactions(c, u)
      /\ log' = log => (InTopic(c)' => InTopic(c))
      /\ \A d \in Campaigns :
           log' = Append(log, d) /\ d # c => (InTopic(c)' => InTopic(c))
  BY ApiFrame
<1>2. /\ copies \in [Campaigns -> Nat] /\ redis \in Seq(Campaigns)
      /\ left \in [Campaigns -> SUBSET Leads]
      /\ handler \in [Campaigns -> {"idle", "redis", "kafka", "fallback",
                                    "pushing", "queued", "synced", "failed"}]
      /\ delivered \in [Campaigns \X Leads -> Nat]
  BY DEF TypeOK, ApiTypeOK, QueueTypeOK, HistoryTypeOK
<1>3. TypeOK'
  BY NextType
<1> DEFINE AsMany == Allowed(c)' \in Int /\ Allowed(c)' >= Allowed(c) + 0
           OneMoreAllowed == Allowed(c)' \in Int /\ Allowed(c)' >= Allowed(c) + 1
<1>4. ASSUME NEW d \in Campaigns, Publish(d), budget' = budget
      PROVE  AsMany /\ (d = c => OneMoreAllowed)
  <2> DEFINE a == Spent("crash")  b == Spent("evict")  e == Spent("dlq")
  <2>1. /\ Allowed(c) = copies[c] + a + b + e
        /\ Allowed(c)' = copies'[c] + a + b + e
    BY <1>4 DEF Allowed, Spent
  <2>3. a \in Int /\ b \in Int /\ e \in Int
    BY BoundTypes DEF FaultKinds
  <2> HIDE DEF a, b, e
  <2>2. copies'[c] \in Nat /\ copies'[c] >= copies[c]
          /\ (d = c => copies'[c] = copies[c] + 1)
    BY <1>2, <1>4 DEF Publish
  <2> QED BY <1>2, <2>1, <2>2, <2>3
<1>5. ASSUME copies' = copies, budget' = budget \/ \E k \in FaultKinds : Spend(k)
      PROVE  AsMany
  <2>1. Allowed(c)' \in Int /\ Allowed(c)' >= Allowed(c) /\ Allowed(c) \in Int
    BY <1>5, AllowedMore, BoundTypes
  <2> QED BY <2>1
<1> HIDE DEF AsMany, OneMoreAllowed

<1>6. ASSUME AsMany, Singles(c, u)' <= Singles(c, u) + 0,
             delivered'[<<c, u>>] = delivered[<<c, u>>]
      PROVE  Bounded(c, u)'
  BY <1>1, <1>6, OneMore DEF AsMany
<1>7. ASSUME OneMoreAllowed, Singles(c, u)' <= Singles(c, u) + 1,
             delivered'[<<c, u>>] = delivered[<<c, u>>]
      PROVE  Bounded(c, u)'
  BY <1>1, <1>7, OneMore DEF OneMoreAllowed
<1>8. CASE UNCHANGED vars \/ \E v \in Leads, s \in Statuses : Relabel(v, s)
  <2>1. /\ ByHandler(c, u)' => ByHandler(c, u)
        /\ InRedis(c)' => InRedis(c)
        /\ log' = log
        /\ delivered'[<<c, u>>] = delivered[<<c, u>>]
        /\ copies' = copies
        /\ budget' = budget \/ \E k \in FaultKinds : Spend(k)
    BY <1>8 DEF vars, Relabel, ByHandler, InRedis, FaultKinds
  <2> QED BY <1>1, <1>5, <1>6, <2>1, NoMoreSingles
<1>9. ASSUME NEW d \in Campaigns, NEW t \in Targets, CreateBroadcast(d, t)
      PROVE  Bounded(c, u)'
  <2>1. handler'[d] # "pushing" /\ \A e \in Campaigns \ {d} : handler'[e] = handler[e]
    BY <1>2, <1>9 DEF CreateBroadcast
  <2>2. /\ ByHandler(c, u)' => ByHandler(c, u)
        /\ InRedis(c)' => InRedis(c)
        /\ log' = log
        /\ delivered'[<<c, u>>] = delivered[<<c, u>>]
        /\ copies' = copies /\ budget' = budget
    BY <1>9, <2>1 DEF CreateBroadcast, ByHandler, InRedis
  <2> QED BY <1>1, <1>5, <1>6, <2>2, NoMoreSingles
<1>10. ASSUME NEW d \in Campaigns, FinishFallback(d) \/ HandlerDies(d)
       PROVE  Bounded(c, u)'
  <2>1. handler'[d] # "pushing" /\ \A e \in Campaigns \ {d} : handler'[e] = handler[e]
                                                          /\ left'[e] = left[e]
    BY <1>2, <1>10 DEF FinishFallback, HandlerDies
  <2>2. /\ ByHandler(c, u)' => ByHandler(c, u)
        /\ InRedis(c)' => InRedis(c)
        /\ log' = log
        /\ delivered'[<<c, u>>] = delivered[<<c, u>>]
        /\ copies' = copies
        /\ budget' = budget \/ \E k \in FaultKinds : Spend(k)
    BY <1>10, <2>1 DEF FinishFallback, HandlerDies, ByHandler, InRedis, FaultKinds
  <2> QED BY <1>1, <1>5, <1>6, <2>2, NoMoreSingles
<1>11. ASSUME NEW d \in Campaigns, QueueInRedis(d) PROVE Bounded(c, u)'
  <2>1. handler'[d] # "pushing" /\ \A e \in Campaigns \ {d} : handler'[e] = handler[e]
    BY <1>2, <1>11 DEF QueueInRedis
  <2>2. /\ ByHandler(c, u)' => ByHandler(c, u)
        /\ InTopic(c)' => InTopic(c)
        /\ delivered'[<<c, u>>] = delivered[<<c, u>>]
        /\ budget' = budget
    BY <1>1, <1>11, <2>1 DEF QueueInRedis, ByHandler
  <2>3. CASE redis' = redis /\ copies' = copies
    BY <1>5, <1>6, <2>2, <2>3, NoMoreSingles DEF InRedis
  <2>4. CASE redis' = Append(redis, d) /\ Publish(d)
    <3>1. /\ Len(redis') = Len(redis) + 1 /\ redis'[Len(redis) + 1] = d
          /\ \A i \in 1 .. Len(redis) : redis'[i] = redis[i]
      BY <1>2, <2>4
    <3>2. d # c => (InRedis(c)' => InRedis(c))
      <4>1. \A i \in 1 .. Len(redis') : i = Len(redis) + 1 \/ i \in 1 .. Len(redis)
        BY <1>2, <3>1
      <4> QED BY <3>1, <4>1 DEF InRedis
    <3>3. CASE d = c
      BY <1>4, <1>7, <2>2, <2>4, <3>3, OneMoreSingle
    <3>4. CASE d # c
      BY <1>4, <1>6, <2>2, <2>4, <3>2, <3>4, NoMoreSingles
    <3> QED BY <3>3, <3>4
  <2> QED BY <1>11, <2>3, <2>4 DEF QueueInRedis
<1>12. ASSUME NEW d \in Campaigns, QueueInKafka(d) PROVE Bounded(c, u)'
  <2>1. handler'[d] # "pushing" /\ \A e \in Campaigns \ {d} : handler'[e] = handler[e]
    BY <1>2, <1>12 DEF QueueInKafka
  <2>2. /\ ByHandler(c, u)' => ByHandler(c, u)
        /\ InRedis(c)' => InRedis(c)
        /\ delivered'[<<c, u>>] = delivered[<<c, u>>]
        /\ budget' = budget
    BY <1>12, <2>1 DEF QueueInKafka, ByHandler, InRedis
  <2>3. CASE log' = log /\ copies' = copies
    BY <1>1, <1>5, <1>6, <2>2, <2>3, NoMoreSingles
  <2>4. CASE log' = Append(log, d) /\ Publish(d)
    <3>1. CASE d = c
      BY <1>4, <1>7, <2>2, <2>4, <3>1, OneMoreSingle
    <3>2. CASE d # c
      BY <1>1, <1>4, <1>6, <2>2, <2>4, <3>2, NoMoreSingles
    <3> QED BY <3>1, <3>2
  <2> QED BY <1>12, <2>3, <2>4 DEF QueueInKafka
<1>13. ASSUME NEW d \in Campaigns, BeginFallback(d) PROVE Bounded(c, u)'
  <2>1. \A e \in Campaigns \ {d} : handler'[e] = handler[e] /\ left'[e] = left[e]
    BY <1>2, <1>13 DEF BeginFallback
  <2>2. /\ c # d => (ByHandler(c, u)' => ByHandler(c, u))
        /\ InRedis(c)' => InRedis(c)
        /\ InTopic(c)' => InTopic(c)
        /\ delivered'[<<c, u>>] = delivered[<<c, u>>]
        /\ budget' = budget /\ Publish(d)
    BY <1>1, <1>13, <2>1 DEF BeginFallback, ByHandler, InRedis
  <2>3. CASE d = c
    BY <1>4, <1>7, <2>2, <2>3, OneMoreSingle
  <2>4. CASE d # c
    BY <1>4, <1>6, <2>2, <2>4, NoMoreSingles
  <2> QED BY <2>3, <2>4
<1>14. ASSUME NEW d \in Campaigns, NEW v \in Leads, FallbackPush(d, v)
       PROVE  Bounded(c, u)'
  <2>1. /\ \A e \in Campaigns \ {d} : handler'[e] = handler[e] /\ left'[e] = left[e]
        /\ handler'[d] = "pushing" => left'[d] = left[d] \ {v}
        /\ handler[d] = "pushing" /\ v \in left[d]
    BY <1>2, <1>14 DEF FallbackPush
  <2>2. /\ ByHandler(c, u)' => ByHandler(c, u)
        /\ InRedis(c)' => InRedis(c)
        /\ InTopic(c)' => InTopic(c)
        /\ redis' = redis /\ copies' = copies /\ budget' = budget
    BY <1>1, <1>14, <2>1 DEF FallbackPush, ByHandler, InRedis
  <2>3. AsMany
    BY <1>5, <2>2
  <2>4. CASE delivered' = delivered
    BY <1>6, <2>2, <2>3, <2>4, NoMoreSingles
  <2>5. CASE Deliver(d, v) /\ ~(c = d /\ u = v)
    <3>1. delivered'[<<c, u>>] = delivered[<<c, u>>]
      BY <1>2, <2>5 DEF Deliver
    <3> QED BY <1>6, <2>2, <2>3, <3>1, NoMoreSingles
  <2>6. CASE Deliver(d, v) /\ c = d /\ u = v
    <3>1. delivered'[<<c, u>>] = delivered[<<c, u>>] + 1
      BY <1>2, <2>6 DEF Deliver
    <3>2. Singles(c, u)' <= Singles(c, u) + (-1)
      <4>1. ByHandler(c, u) /\ ~ByHandler(c, u)'
        BY <2>1, <2>6 DEF ByHandler
      <4> QED BY <2>2, <4>1, OneLessSingle
    <3>3. Allowed(c)' \in Int /\ Allowed(c)' >= Allowed(c) + 1 + (-1)
      <4>1. Allowed(c) \in Int
        BY BoundTypes
      <4> QED BY <2>3, <4>1 DEF AsMany
    <3> QED BY <1>1, <3>1, <3>2, <3>3, RestAddsUp
  <2>7. delivered' = delivered \/ Deliver(d, v)
    BY <1>14 DEF FallbackPush
  <2> QED BY <2>4, <2>5, <2>6, <2>7
<1> QED BY <1>8, <1>9, <1>10, <1>11, <1>12, <1>13, <1>14 DEF ApiMove

(* A step of a worker is its own; the handlers and the other workers stay. *)
LEMMA WorkerFrame ==
  ASSUME TypeOK, NEW w \in Workers, WorkerMove(w), NEW c, NEW u
  PROVE  /\ copies' = copies /\ log' = log
         /\ ByHandler(c, u)' => ByHandler(c, u)
         /\ Batches(c)' \subseteq Batches(c) \cup {w}
         /\ w \notin Batches(c)' => Batches(c)' \subseteq Batches(c) \ {w}
         /\ Transactions(c, u)' \subseteq Transactions(c, u) \cup {w}
         /\ w \notin Transactions(c, u)'
              => Transactions(c, u)' \subseteq Transactions(c, u) \ {w}
<1>1. /\ UNCHANGED <<log, handler, left, copies>>
      /\ \A v \in Workers \ {w} :
           /\ wpc'[v] = wpc[v] /\ record'[v] = record[v] /\ rest'[v] = rest[v]
           /\ cursor'[v] = cursor[v] /\ position'[v] = position[v]
  BY WorkerLeavesOthers
<1>2. \A v \in Workers \ {w} : v \in Batches(c)' => v \in Batches(c)
  BY <1>1 DEF Batches
<1>3. \A v \in Workers \ {w} :
        v \in Transactions(c, u)' => v \in Transactions(c, u)
  BY <1>1 DEF Transactions
<1>4. Batches(c)' \subseteq Workers /\ Transactions(c, u)' \subseteq Workers
  BY DEF Batches, Transactions
<1>5. ByHandler(c, u)' => ByHandler(c, u)
  BY <1>1 DEF ByHandler
<1> QED BY <1>1, <1>2, <1>3, <1>4, <1>5

(* What a worker takes on comes from the list, the topic or its batch.     *)
TakesOver(w) == PopRedis(w) \/ PollBatch(w) \/ TakeRecord(w)

(* These faults have the group hand out again what it had handed out.      *)
HandsBack(w) == Crash(w) \/ Evict(w) \/ DeadLetterRaises(w)

(* No other step of a worker adds to what it holds.                        *)
LEMMA HoldsNoMore ==
  ASSUME TypeOK, [Next]_vars, NEW w \in Workers, WorkerMove(w),
         ~TakesOver(w), NEW c, NEW u
  PROVE  /\ Batches(c)' \subseteq Batches(c)
         /\ Transactions(c, u)' \subseteq Transactions(c, u)
         /\ redis' = redis
         /\ budget' = budget \/ \E k \in FaultKinds : Spend(k)
         /\ \/ delivered' = delivered
            \/ \E v \in Leads : /\ WorkerPush(w, v)
                                /\ Deliver(record[w], v)
<1> DEFINE Same == /\ cursor'[w] = cursor[w] /\ position'[w] = position[w]
           Done == cursor'[w] = position'[w]
           Out == wpc'[w] \notin {"begin", "push"}
           Quiet == /\ redis' = redis
                    /\ budget' = budget \/ \E k \in FaultKinds : Spend(k)
<1> USE DEF TypeOK, WorkerTypeOK, PositionTypeOK, TransactionTypeOK
<1>1. ASSUME PopNothing(w) \/ PollNothing(w) \/ EndBatch(w) \/ Restart(w)
             \/ FinishBroadcast(w) \/ DeadLetter(w) \/ CommitPosition(w)
      PROVE  Same /\ Out /\ Quiet /\ delivered' = delivered
  BY <1>1 DEF PopNothing, PollNothing, EndBatch, Restart, FinishBroadcast,
              DeadLetter, CommitPosition, AfterRecord
<1>2. ASSUME RollBack(w) \/ CommitRaises(w) \/ DeadLetterRaises(w)
      PROVE  Same /\ Out /\ Quiet /\ delivered' = delivered
  BY <1>2 DEF RollBack, CommitRaises, DeadLetterRaises, FaultKinds
<1>3. ASSUME JoinGroup(w) \/ CommitRefused(w) \/ Stop(w) \/ Crash(w)
      PROVE  Done /\ Out /\ Quiet /\ delivered' = delivered
  BY <1>3 DEF JoinGroup, CommitRefused, Stop, Crash, Leave, FaultKinds
<1>4. ASSUME BeginBroadcast(w) \/ Evict(w)
      PROVE  /\ Same /\ Quiet /\ delivered' = delivered
             /\ record'[w] = record[w]
             /\ \/ wpc[w] = "begin"
                \/ wpc'[w] = wpc[w] /\ rest'[w] = rest[w]
  BY <1>4 DEF BeginBroadcast, Evict, FaultKinds
<1>5. ASSUME NEW v \in Leads, WorkerPush(w, v)
      PROVE  /\ Same /\ Quiet /\ record'[w] = record[w] /\ wpc'[w] = wpc[w]
             /\ rest'[w] \subseteq rest[w]
             /\ delivered' = delivered \/ Deliver(record[w], v)
  BY <1>5 DEF WorkerPush
<1>6. Done => w \notin Batches(c)'
  <2>1. position'[w] \in Nat
    BY NextType
  <2> QED BY <2>1 DEF Batches
<1>7. Same => (w \in Batches(c)' => w \in Batches(c))
  BY WorkerFrame DEF Batches
<1>8. Out => w \notin Transactions(c, u)'
  BY DEF Transactions
<1>9. ASSUME /\ record'[w] = record[w]
             /\ \/ wpc[w] = "begin"
                \/ wpc'[w] = wpc[w] /\ rest'[w] \subseteq rest[w]
      PROVE  w \in Transactions(c, u)' => w \in Transactions(c, u)
  BY <1>9 DEF Transactions
<1> DEFINE Goal ==
             /\ w \in Batches(c)' => w \in Batches(c)
             /\ w \in Transactions(c, u)' => w \in Transactions(c, u)
             /\ Quiet
             /\ \/ delivered' = delivered
                \/ \E v \in Leads : WorkerPush(w, v) /\ Deliver(record[w], v)
<1>10. Goal
  <2> HIDE DEF Same, Done, Out, Quiet
  <2>1. CASE PopNothing(w) \/ PollNothing(w) \/ EndBatch(w) \/ Restart(w)
             \/ FinishBroadcast(w) \/ DeadLetter(w) \/ CommitPosition(w)
    BY <1>1, <1>7, <1>8, <2>1
  <2>2. CASE RollBack(w) \/ CommitRaises(w) \/ DeadLetterRaises(w)
    BY <1>2, <1>7, <1>8, <2>2
  <2>3. CASE JoinGroup(w) \/ CommitRefused(w) \/ Stop(w) \/ Crash(w)
    BY <1>3, <1>6, <1>8, <2>3
  <2>4. CASE BeginBroadcast(w) \/ Evict(w)
    BY <1>4, <1>7, <1>9, <2>4
  <2>5. ASSUME NEW v \in Leads, WorkerPush(w, v) PROVE Goal
    BY <1>5, <1>7, <1>9, <2>5
  <2> HIDE DEF Goal
  <2> QED BY <2>1, <2>2, <2>3, <2>4, <2>5 DEF WorkerMove, TakesOver
<1> QED BY <1>10, WorkerFrame

(* A worker that takes over a copy takes it from where it was.             *)
LEMMA TakesWhatWasThere ==
  ASSUME TypeOK, BatchInv, OwnerAhead, RedisOnce, LogOnce, [Next]_vars,
         NEW w \in Workers, TakesOver(w), NEW c \in Campaigns,
         NEW u \in Leads, Bounded(c, u)
  PROVE  Bounded(c, u)'
<1> USE DEF TypeOK, WorkerTypeOK, PositionTypeOK, TransactionTypeOK, QueueTypeOK
<1>1. WorkerMove(w)
  BY DEF TakesOver, WorkerMove
<1>2. /\ delivered' = delivered /\ budget' = budget
  BY DEF TakesOver, PopRedis, PollBatch, TakeRecord
<1>3. /\ copies' = copies /\ log' = log
      /\ ByHandler(c, u)' => ByHandler(c, u)
      /\ Batches(c)' \subseteq Batches(c) \cup {w}
      /\ w \notin Batches(c)' => Batches(c)' \subseteq Batches(c) \ {w}
      /\ Transactions(c, u)' \subseteq Transactions(c, u) \cup {w}
      /\ w \notin Transactions(c, u)'
           => Transactions(c, u)' \subseteq Transactions(c, u) \ {w}
  BY <1>1, WorkerFrame
<1>4. InTopic(c)' => InTopic(c)
  <2>1. ~(Crash(w) \/ Evict(w) \/ DeadLetterRaises(w))
    BY DEF TakesOver, PopRedis, PollBatch, TakeRecord, Crash, Evict,
           DeadLetterRaises, Leave
  <2>2. \A i \in committed' + 1 .. Len(log') :
          Due(i)' => i \in committed + 1 .. Len(log) /\ Due(i)
    BY <1>1, <2>1, DueStep
  <2> QED BY <1>3, <2>2 DEF InTopic
<1>5. InRedis(c)' => InRedis(c)
  <2>1. CASE redis' = redis
    BY <2>1 DEF InRedis
  <2>2. CASE redis # <<>> /\ redis' = Front(redis)
    <3>1. /\ 1 .. Len(redis') \subseteq 1 .. Len(redis)
          /\ \A i \in 1 .. Len(redis') : redis'[i] = redis[i]
      BY <2>2 DEF Front
    <3> QED BY <3>1 DEF InRedis
  <2> QED BY <2>1, <2>2 DEF TakesOver, PopRedis, PollBatch, TakeRecord
<1>6. /\ Allowed(c)' = Allowed(c) /\ Allowed(c) \in Int
      /\ delivered'[<<c, u>>] = delivered[<<c, u>>] + 0
  BY <1>2, <1>3, BoundTypes DEF Allowed, Spent
<1>7. IsFiniteSet(Batches(c)) /\ IsFiniteSet(Transactions(c, u))
  BY DEF Bounded
(* Nothing of c is taken over.                                             *)
<1>8. ASSUME Batches(c)' \subseteq Batches(c),
             Transactions(c, u)' \subseteq Transactions(c, u)
      PROVE  Bounded(c, u)'
  <2>1. Singles(c, u)' <= Singles(c, u) + 0
    BY <1>3, <1>4, <1>5, NoMoreSingles
  <2>2. Allowed(c)' >= Allowed(c) + 0 + 0
    BY <1>6
  <2> QED BY <1>6, <1>8, <2>1, <2>2, RestAddsUp
<1>9. CASE PopRedis(w)
  <2>1. cursor' = cursor /\ position' = position
    BY <1>9 DEF PopRedis
  <2>2. Batches(c)' \subseteq Batches(c)
    BY <1>3, <2>1 DEF Batches
  <2>3. CASE c # Last(redis)
    <3>1. w \notin Transactions(c, u)'
      BY <1>9, <2>3 DEF PopRedis, Transactions
    <3> QED BY <1>3, <1>8, <2>2, <3>1
  <2>4. CASE c = Last(redis)
    <3>1. /\ redis \in Seq(Campaigns) /\ redis # <<>> /\ redis' = Front(redis)
          /\ c = redis[Len(redis)]
      BY <1>9, <2>4 DEF PopRedis, Last
    <3>2. /\ Len(redis) \in 1 .. Len(redis) /\ Len(redis') = Len(redis) - 1
          /\ \A i \in 1 .. Len(redis') : redis'[i] = redis[i]
      BY <3>1, FrontOf
    <3>3. \A i \in 1 .. Len(redis') : i # Len(redis) /\ i \in 1 .. Len(redis)
      BY <3>1, <3>2
    <3>4. InRedis(c)
      BY <3>1, <3>2 DEF InRedis
    <3>5. ~InRedis(c)'
      BY <3>1, <3>2, <3>3 DEF InRedis, RedisOnce
    <3>6. Singles(c, u)' <= Singles(c, u) + (-1)
      BY <1>3, <1>4, <1>5, <3>4, <3>5, OneLessSingle
    <3>7. /\ IsFiniteSet(Batches(c)')
          /\ Cardinality(Batches(c)') <= Cardinality(Batches(c)) + 0
      BY <1>7, <2>2, NotMore
    <3>8. /\ IsFiniteSet(Transactions(c, u)')
          /\ Cardinality(Transactions(c, u)') <= Cardinality(Transactions(c, u)) + 1
      BY <1>3, <1>7, OneElementMore
    <3>9. Allowed(c)' \in Int /\ Allowed(c)' >= Allowed(c) + 0 + (-1) + 0 + 1
      BY <1>6
    <3> QED BY <1>6, <3>6, <3>7, <3>8, <3>9, Balance
  <2> QED BY <2>3, <2>4
<1>10. CASE TakeRecord(w)
  <2>1. /\ cursor'[w] = cursor[w] + 1 /\ position'[w] = position[w]
        /\ record'[w] = log[cursor[w] + 1]
        /\ cursor[w] + 1 \in cursor[w] + 1 .. position[w]
        /\ cursor[w] + 1 \in 1 .. Len(log)
        /\ cursor[w] \in Nat /\ position[w] \in Nat /\ position[w] <= Len(log)
        /\ w \notin Transactions(c, u)
    BY <1>10 DEF TakeRecord, Transactions
  <2>2. w \in Batches(c)' => w \in Batches(c)
    BY <1>3, <2>1 DEF Batches
  <2>3. CASE c # log[cursor[w] + 1]
    <3>1. w \notin Transactions(c, u)'
      BY <2>1, <2>3 DEF Transactions
    <3> QED BY <1>3, <1>8, <2>2, <3>1
  <2>4. CASE c = log[cursor[w] + 1]
    <3>1. w \in Batches(c)
      BY <2>1, <2>4 DEF Batches
    <3>2. \A i \in cursor[w] + 2 .. position[w] : log[i] # c
      BY <2>1, <2>4 DEF LogOnce
    <3>3. w \notin Batches(c)'
      <4>1. \A i \in cursor'[w] + 1 .. position'[w] : i \in cursor[w] + 2 .. position[w]
        BY <2>1
      <4> QED BY <1>3, <3>2, <4>1 DEF Batches
    <3>4. /\ IsFiniteSet(Batches(c)')
          /\ Cardinality(Batches(c)') <= Cardinality(Batches(c)) + (-1)
      BY <1>3, <1>7, <3>1, <3>3, OneElementLess
    <3>5. /\ IsFiniteSet(Transactions(c, u)')
          /\ Cardinality(Transactions(c, u)') <= Cardinality(Transactions(c, u)) + 1
      BY <1>3, <1>7, OneElementMore
    <3>6. Singles(c, u)' <= Singles(c, u) + 0
      BY <1>3, <1>4, <1>5, NoMoreSingles
    <3>7. Allowed(c)' \in Int /\ Allowed(c)' >= Allowed(c) + 0 + 0 + (-1) + 1
      BY <1>6
    <3> QED BY <1>6, <3>4, <3>5, <3>6, <3>7, Balance
  <2> QED BY <2>3, <2>4
<1>11. CASE PollBatch(w)
  <2>1. PICK n \in 1 .. MaxPoll :
          /\ position[w] + n <= Len(log)
          /\ cursor' = [cursor EXCEPT ![w] = position[w]]
          /\ position' = [position EXCEPT ![w] = position[w] + n]
    BY <1>11 DEF PollBatch
  <2>2. n \in Nat /\ MaxPoll \in Nat
    BY ConstantsAssumption DEF ConstantsAssumption
  <2>3. /\ cursor'[w] = position[w] /\ position'[w] = position[w] + n
        /\ position[w] \in Nat /\ committed \in Nat /\ Len(log) \in Nat
        /\ committed <= position[w] /\ owner = w /\ owner' = w
        /\ committed' = committed
    BY <1>11, <2>1 DEF PollBatch, OwnerAhead
  <2>4. w \notin Transactions(c, u)'
    BY <1>11 DEF PollBatch, Transactions
  <2>5. CASE w \notin Batches(c)'
    BY <1>3, <1>8, <2>4, <2>5
  <2>6. CASE w \in Batches(c)'
    <3>1. PICK i \in position[w] + 1 .. position[w] + n : log[i] = c
      BY <1>3, <2>3, <2>6 DEF Batches
    <3>2. /\ i \in committed + 1 .. Len(log) /\ i \in 1 .. Len(log) /\ i \in Int
          /\ i > position[w] /\ i <= position'[w] /\ i > cursor'[w]
      BY <2>1, <2>2, <2>3, <3>1
    <3>3. Due(i) /\ ~Due(i)'
      BY <2>3, <3>2 DEF Due
    <3>4. InTopic(c)
      BY <3>1, <3>2, <3>3 DEF InTopic
    <3>5. ~InTopic(c)'
      <4>1. \A j \in committed' + 1 .. Len(log') : j \in 1 .. Len(log)
        BY <1>3, <2>3
      <4>2. \A j \in committed' + 1 .. Len(log') : log[j] = c => j = i
        BY <3>1, <3>2, <4>1 DEF LogOnce
      <4> QED BY <1>3, <3>3, <4>2 DEF InTopic
    <3>6. Singles(c, u)' <= Singles(c, u) + (-1)
      BY <1>3, <1>4, <1>5, <3>4, <3>5, OneLessSingle
    <3>7. /\ IsFiniteSet(Batches(c)')
          /\ Cardinality(Batches(c)') <= Cardinality(Batches(c)) + 1
      BY <1>3, <1>7, OneElementMore
    <3>9. /\ IsFiniteSet(Transactions(c, u)')
          /\ Cardinality(Transactions(c, u)') <= Cardinality(Transactions(c, u)) + 0
      BY <1>3, <1>7, <2>4, NotMore
    <3>8. Allowed(c)' \in Int /\ Allowed(c)' >= Allowed(c) + 0 + (-1) + 1 + 0
      BY <1>6
    <3> QED BY <1>6, <3>6, <3>7, <3>8, <3>9, Balance
  <2> QED BY <2>5, <2>6
<1> QED BY <1>9, <1>10, <1>11 DEF TakesOver

(* The other steps of a worker keep the bound.                             *)
LEMMA WorkerKeepsBound ==
  ASSUME TypeOK, BatchInv, OwnerAhead, [Next]_vars,
         NEW w \in Workers, WorkerMove(w), ~TakesOver(w),
         NEW c \in Campaigns, NEW u \in Leads, Bounded(c, u)
  PROVE  Bounded(c, u)'
<1>1. /\ Batches(c)' \subseteq Batches(c)
      /\ Transactions(c, u)' \subseteq Transactions(c, u)
      /\ redis' = redis
      /\ budget' = budget \/ \E k \in FaultKinds : Spend(k)
      /\ \/ delivered' = delivered
         \/ \E v \in Leads : WorkerPush(w, v) /\ Deliver(record[w], v)
  BY HoldsNoMore
<1>2. /\ copies' = copies /\ log' = log
      /\ ByHandler(c, u)' => ByHandler(c, u)
      /\ w \notin Transactions(c, u)'
           => Transactions(c, u)' \subseteq Transactions(c, u) \ {w}
  BY WorkerFrame
<1>3. InRedis(c)' => InRedis(c)
  BY <1>1 DEF InRedis
<1>4. /\ Allowed(c)' \in Int /\ Allowed(c)' >= Allowed(c) /\ Allowed(c) \in Int
      /\ Spend("crash") \/ Spend("evict") \/ Spend("dlq")
           => Allowed(c)' >= Allowed(c) + 1
  BY <1>1, <1>2, AllowedMore, BoundTypes
<1>5. /\ IsFiniteSet(Batches(c)) /\ IsFiniteSet(Transactions(c, u))
      /\ delivered \in [Campaigns \X Leads -> Nat]
  BY DEF Bounded, TypeOK, HistoryTypeOK
<1>6. CASE HandsBack(w)
  <2>1. Spend("crash") \/ Spend("evict") \/ Spend("dlq")
    BY <1>6 DEF HandsBack, Crash, Evict, DeadLetterRaises
  <2>2. delivered' = delivered
    BY <1>6 DEF HandsBack, Crash, Evict, DeadLetterRaises, Leave
  <2>3. Singles(c, u)' <= Singles(c, u) + 1
    BY <1>2, <1>3, OneMoreSingle
  <2>4. Allowed(c)' >= Allowed(c) + 1
    BY <1>4, <2>1
  <2> QED BY <1>1, <1>4, <2>2, <2>3, <2>4, OneMore
<1>7. CASE ~HandsBack(w)
  <2>1. InTopic(c)' => InTopic(c)
    <3>1. \A i \in committed' + 1 .. Len(log') :
            Due(i)' => i \in committed + 1 .. Len(log) /\ Due(i)
      BY <1>7, DueStep DEF HandsBack
    <3> QED BY <1>2, <3>1 DEF InTopic
  <2>2. Singles(c, u)' <= Singles(c, u) + 0
    BY <1>2, <1>3, <2>1, NoMoreSingles
  <2>3. CASE delivered'[<<c, u>>] = delivered[<<c, u>>]
    <3>1. Allowed(c)' >= Allowed(c) + 0
      BY <1>4
    <3> QED BY <1>1, <1>4, <2>2, <2>3, <3>1, OneMore
  <2>4. CASE delivered'[<<c, u>>] # delivered[<<c, u>>]
    <3>1. PICK v \in Leads : WorkerPush(w, v) /\ Deliver(record[w], v)
      BY <1>1, <2>4
    <3>2. /\ wpc[w] = "push" /\ v \in rest[w] /\ rest'[w] = rest[w] \ {v}
          /\ wpc'[w] = "push" /\ record'[w] = record[w]
      BY <3>1 DEF WorkerPush, TypeOK, WorkerTypeOK, TransactionTypeOK
    <3>3. record[w] = c /\ v = u
      BY <1>5, <2>4, <3>1 DEF Deliver
    <3>4. delivered'[<<c, u>>] = delivered[<<c, u>>] + 1
      BY <1>5, <3>1, <3>3 DEF Deliver
    <3>5. w \in Transactions(c, u) /\ w \notin Transactions(c, u)'
      BY <3>2, <3>3 DEF Transactions
    <3>6. /\ IsFiniteSet(Transactions(c, u)')
          /\ Cardinality(Transactions(c, u)')
               <= Cardinality(Transactions(c, u)) + (-1)
      BY <1>2, <1>5, <3>5, OneElementLess
    <3>7. /\ IsFiniteSet(Batches(c)')
          /\ Cardinality(Batches(c)') <= Cardinality(Batches(c)) + 0
      BY <1>1, <1>5, NotMore
    <3>8. Allowed(c)' >= Allowed(c) + 1 + 0 + 0 + (-1)
      BY <1>4
    <3> QED BY <1>4, <2>2, <3>4, <3>6, <3>7, <3>8, Balance
  <2> QED BY <2>3, <2>4
<1> QED BY <1>6, <1>7

(* What the bound rests on.                                                *)
QueueInv == /\ BatchInv /\ OwnerAhead
            /\ RedisOnce /\ LogOnce

(* It holds initially.                                                     *)
LEMMA QueueInit == Init => QueueInv
<1> SUFFICES ASSUME Init PROVE QueueInv
  OBVIOUS
<1>1. BatchInv /\ OwnerAhead
  BY ConstantsAssumption DEF Init, BatchInv, OwnerAhead, ConstantsAssumption
<1>2. RedisOnce /\ LogOnce
  BY DEF Init, RedisOnce, LogOnce
<1> QED BY <1>1, <1>2 DEF QueueInv

(* Every step keeps it.                                                    *)
LEMMA QueueStep == TypeOK /\ QueueInv /\ [Next]_vars => QueueInv'
BY BatchStep, OwnerAheadStep, RedisOnceStep, LogOnceStep DEF QueueInv

(* Nothing is outstanding initially.                                       *)
LEMMA CopiesInit == Init => CopiesInv
<1> SUFFICES ASSUME Init, NEW c \in Campaigns, NEW u \in Leads
             PROVE  Bounded(c, u)
  BY DEF CopiesInv
<1>1. Batches(c) = {} /\ Transactions(c, u) = {}
  <2>1. \A w \in Workers : cursor[w] = 0 /\ position[w] = 0
                             /\ wpc[w] = "loop"
    BY DEF Init
  <2> QED BY <2>1 DEF Batches, Transactions
<1>2. ~ByHandler(c, u) /\ ~InRedis(c) /\ ~InTopic(c)
  BY DEF Init, ByHandler, InRedis, InTopic
<1>3. Outstanding(c, u) = 0
  BY <1>1, <1>2, FS_EmptySet DEF Outstanding, Singles, One
<1>4. Allowed(c) = 0
  BY ConstantsAssumption DEF Init, Allowed, Spent, ConstantsAssumption, FaultKinds
<1>5. delivered[<<c, u>>] = 0
  BY DEF Init
<1> QED BY <1>1, <1>3, <1>4, <1>5, FS_EmptySet DEF Bounded

(* Every step keeps the bound.                                             *)
LEMMA CopiesStep == TypeOK /\ QueueInv /\ CopiesInv /\ [Next]_vars => CopiesInv'
<1> SUFFICES ASSUME TypeOK, QueueInv, CopiesInv, [Next]_vars,
                    NEW c \in Campaigns, NEW u \in Leads
             PROVE  Bounded(c, u)'
  BY DEF CopiesInv
<1>1. Bounded(c, u) /\ BatchInv /\ OwnerAhead /\ RedisOnce /\ LogOnce
  BY DEF CopiesInv, QueueInv
<1>2. CASE ApiMove
  BY <1>1, <1>2, ApiKeepsBound
<1>3. ASSUME NEW w \in Workers, WorkerMove(w) PROVE Bounded(c, u)'
  BY <1>1, <1>3, WorkerKeepsBound, TakesWhatWasThere
<1> QED BY <1>2, <1>3, Moves

(* However the events travel, a lead gets a campaign at most once for each *)
(* copy of the event that was made and for each fallback, and once more    *)
(* for each crash, eviction and lost dead letter.                          *)
THEOREM DuplicatesBounded == Spec => []DuplicatesAreBounded
<1>1. TypeOK /\ CopiesInv => DuplicatesAreBounded
  <2> SUFFICES ASSUME TypeOK, CopiesInv, NEW c \in Campaigns, NEW u \in Leads
               PROVE  delivered[<<c, u>>] <= Allowed(c)
    BY DEF DuplicatesAreBounded, Allowed
  <2>1. /\ IsFiniteSet(Batches(c)) /\ IsFiniteSet(Transactions(c, u))
        /\ delivered[<<c, u>>] + Outstanding(c, u) <= Allowed(c)
    BY DEF CopiesInv, Bounded
  <2>2. Cardinality(Batches(c)) \in Nat /\ Cardinality(Transactions(c, u)) \in Nat
    BY <2>1, FS_CardinalityType
  <2>3. Singles(c, u) \in Nat
    BY DEF Singles, One
  <2>4. Outstanding(c, u) \in Nat
    BY <2>2, <2>3 DEF Outstanding
  <2> QED BY <2>1, <2>4, BoundTypes
<1> QED BY <1>1, QueueInit, QueueStep, CopiesInit, CopiesStep, TypeCorrect, PTL
    DEF Spec

(***************************************************************************)
(* Nothing is passed before it is handled                                  *)
(***************************************************************************)
(* None of the faults has happened that let go of a record.                *)
Faultless == \A k \in {"crash", "evict", "dlq"} : budget[k] = MaxFaults[k]

(* The group has committed a record, or its owner has polled it.           *)
Reached(i) ==
  i <= committed \/ \E w \in Workers : owner = w /\ i <= position[w]

Holds(w, i) == record[w] = log[i] \/ i \in cursor[w] + 1 .. position[w]

(* Until then a worker in a batch owns the partition, and what the group   *)
(* has gone past is handled or with a worker.                              *)
OwnersInBatch == \A w \in Workers : InBatch(w) => owner = w

ReachedIsKept ==
  \A i \in 1 .. Len(log) :
    Reached(i) => Handled(log[i]) \/ \E w \in Workers : Holds(w, i)

KeptInv == Faultless => OwnersInBatch /\ ReachedIsKept

(* Faults are only ever spent.                                             *)
BudgetInv == \A k \in FaultKinds : budget[k] <= MaxFaults[k]

(* One fault at most in a step.                                            *)
LEMMA FaultStep ==
  ASSUME TypeOK, [Next]_vars
  PROVE  budget' = budget \/ \E k \in FaultKinds : Spend(k)
<1> DEFINE Goal == budget' = budget \/ \E k \in FaultKinds : Spend(k)
<1>1. CASE ApiMove
  <2>1. ASSUME NEW c \in Campaigns, NEW u \in Leads, FallbackPush(c, u) PROVE Goal
    BY <2>1 DEF FallbackPush
  <2>2. CASE \/ UNCHANGED vars
             \/ \E u \in Leads, s \in Statuses : Relabel(u, s)
    BY <2>2 DEF vars, Relabel, FaultKinds
  <2>3. CASE \E c \in Campaigns :
               \/ \E t \in Targets : CreateBroadcast(c, t)
               \/ QueueInRedis(c) \/ QueueInKafka(c) \/ BeginFallback(c)
               \/ FinishFallback(c) \/ HandlerDies(c)
    BY <2>3 DEF CreateBroadcast, QueueInRedis, QueueInKafka, BeginFallback,
                FinishFallback, HandlerDies, FaultKinds
  <2> QED BY <1>1, <2>1, <2>2, <2>3 DEF ApiMove
<1>2. ASSUME NEW w \in Workers, TakesOver(w) PROVE Goal
  BY <1>2 DEF TakesOver, PopRedis, PollBatch, TakeRecord
<1>3. ASSUME NEW w \in Workers, WorkerMove(w), ~TakesOver(w) PROVE Goal
  BY <1>3, HoldsNoMore
<1> QED BY <1>1, <1>2, <1>3, Moves

(* They stay within the bound.                                             *)
LEMMA BudgetStep == TypeOK /\ BudgetInv /\ [Next]_vars => BudgetInv'
<1> SUFFICES ASSUME TypeOK, BudgetInv, [Next]_vars, NEW k \in FaultKinds
             PROVE  budget'[k] <= MaxFaults[k]
  BY DEF BudgetInv
<1>1. budget[k] \in Nat /\ MaxFaults[k] \in Nat /\ budget[k] <= MaxFaults[k]
  BY ConstantsAssumption DEF BudgetInv, TypeOK, HistoryTypeOK, ConstantsAssumption
<1>2. budget'[k] = budget[k] \/ budget'[k] = budget[k] - 1
  BY FaultStep DEF Spend, TypeOK, HistoryTypeOK
<1> QED BY <1>1, <1>2

(* A step after which there was no fault was none.                         *)
LEMMA FaultlessBefore ==
  ASSUME TypeOK, BudgetInv, [Next]_vars, Faultless'
  PROVE  /\ Faultless
         /\ \A w \in Workers : ~HandsBack(w)
<1>1. \A k \in {"crash", "evict", "dlq"} :
        /\ k \in FaultKinds /\ budget[k] \in Nat /\ MaxFaults[k] \in Nat
        /\ budget[k] <= MaxFaults[k] /\ budget'[k] = MaxFaults[k]
  BY ConstantsAssumption
     DEF TypeOK, HistoryTypeOK, ConstantsAssumption, FaultKinds, BudgetInv, Faultless
<1>2. \A k \in {"crash", "evict", "dlq"} : ~Spend(k)
  BY <1>1 DEF Spend, TypeOK, HistoryTypeOK
<1>3. \A w \in Workers : ~HandsBack(w)
  BY <1>2 DEF HandsBack, Crash, Evict, DeadLetterRaises
<1>4. \A k \in {"crash", "evict", "dlq"} : budget[k] = MaxFaults[k]
  <2> SUFFICES ASSUME NEW k \in {"crash", "evict", "dlq"}
               PROVE  budget[k] = MaxFaults[k]
    OBVIOUS
  <2>1. budget'[k] = budget[k] \/ budget'[k] = budget[k] - 1
    BY <1>1, FaultStep DEF Spend, TypeOK, HistoryTypeOK
  <2> QED BY <1>1, <2>1
<1> QED BY <1>3, <1>4 DEF Faultless

(* What is handled stays so.                                               *)
LEMMA HandledStays ==
  ASSUME TypeOK, [Next]_vars, NEW c \in Campaigns, Handled(c)
  PROVE  Handled(c)'
<1>1. dlq \subseteq dlq'
  <2>1. CASE ApiMove
    BY <2>1, ApiLeavesWorkers
  <2>2. ASSUME NEW w \in Workers, WorkerMove(w) PROVE dlq \subseteq dlq'
    <3>1. CASE \/ PopRedis(w) \/ PopNothing(w) \/ JoinGroup(w) \/ PollNothing(w)
               \/ PollBatch(w) \/ TakeRecord(w) \/ EndBatch(w)
               \/ BeginBroadcast(w)
      BY <3>1 DEF PopRedis, PopNothing, JoinGroup, PollNothing, PollBatch,
                  TakeRecord, EndBatch, BeginBroadcast
    <3>2. CASE \/ FinishBroadcast(w) \/ DeadLetter(w) \/ CommitPosition(w)
               \/ Restart(w) \/ RollBack(w) \/ CommitRaises(w)
               \/ DeadLetterRaises(w) \/ Evict(w)
      BY <3>2 DEF FinishBroadcast, DeadLetter, CommitPosition, Restart,
                  RollBack, CommitRaises, DeadLetterRaises, Evict
    <3>3. CASE CommitRefused(w) \/ Stop(w) \/ Crash(w)
      BY <3>3 DEF CommitRefused, Stop, Crash, Leave
    <3>4. ASSUME NEW u \in Leads, WorkerPush(w, u) PROVE dlq \subseteq dlq'
      BY <3>4 DEF WorkerPush
    <3> QED BY <2>2, <3>1, <3>2, <3>3, <3>4 DEF WorkerMove
  <2> QED BY <2>1, <2>2, Moves
<1>2. status[c] \notin {"absent", "queued"} => status'[c] \notin {"absent", "queued"}
  <2>1. [Ledger!LedgerNext]_ledgerVars /\ status \in [Campaigns -> {"absent", "queued"}
                                                     \cup Ledger!Outcomes]
    BY LedgerStep DEF TypeOK, LedgerTypeOK
  <2> QED BY <2>1 DEF Ledger!LedgerNext, Ledger!Open, Ledger!Settle,
                      Ledger!OutcomeOf, Ledger!Outcomes
<1> QED BY <1>1, <1>2 DEF Handled

(* A worker lets go of a record once it is handled.                        *)
LEMMA RecordStays ==
  ASSUME TypeOK, NEW w \in Workers, WorkerMove(w), ~HandsBack(w),
         NEW c \in Campaigns, record[w] = c
  PROVE  record'[w] = c \/ Handled(c)'
<1> USE DEF TypeOK, WorkerTypeOK, Working
<1>1. wpc[w] \in {"begin", "push", "dlq"} /\ record[w] \in Campaigns
  BY ConstantsAssumption DEF ConstantsAssumption
<1>2. ASSUME \/ PopRedis(w) \/ PopNothing(w) \/ JoinGroup(w) \/ PollNothing(w)
             \/ PollBatch(w) \/ TakeRecord(w) \/ EndBatch(w)
             \/ CommitPosition(w) \/ Restart(w) \/ CommitRefused(w) \/ Stop(w)
      PROVE  FALSE
  BY <1>1, <1>2 DEF PopRedis, PopNothing, JoinGroup, PollNothing, PollBatch,
     TakeRecord, EndBatch, CommitPosition, Restart, CommitRefused, Stop
<1>3. ASSUME BeginBroadcast(w) \/ RollBack(w) \/ CommitRaises(w)
      PROVE  record' = record
  BY <1>3 DEF BeginBroadcast, RollBack, CommitRaises
<1>4. ASSUME NEW u \in Leads, WorkerPush(w, u) PROVE record' = record
  BY <1>4 DEF WorkerPush
<1>5. ASSUME DeadLetter(w) PROVE record[w] \in dlq'
  BY <1>5 DEF DeadLetter
<1>6. ASSUME FinishBroadcast(w)
      PROVE  status'[record[w]] \notin {"absent", "queued"}
  BY <1>1, <1>6 DEF FinishBroadcast, Ledger!Settle, Ledger!OutcomeOf, LedgerTypeOK
<1>7. \/ record' = record \/ record[w] \in dlq'
      \/ status'[record[w]] \notin {"absent", "queued"}
  BY <1>2, <1>3, <1>4, <1>5, <1>6 DEF WorkerMove, HandsBack
<1> QED BY <1>7 DEF Handled

(* Without those faults a worker keeps the partition during a batch.       *)
LEMMA OwnersStep ==
  ASSUME TypeOK, OwnersInBatch, [Next]_vars,
         \A w \in Workers : ~HandsBack(w)
  PROVE  OwnersInBatch'
<1> USE DEF OwnersInBatch, InBatch, Kafka, Working
<1>1. CASE ApiMove
  BY <1>1, ApiLeavesWorkers
<1>2. ASSUME NEW w \in Workers, WorkerMove(w) PROVE OwnersInBatch'
  <2>1. \A v \in Workers \ {w} : InBatch(v)' => owner = v
    BY <1>2, WorkerLeavesOthers
  <2> DEFINE Goal == /\ InBatch(w)' => owner' = w
                     /\ owner' = owner \/ (owner \in {w, Nobody})
  <2> USE DEF TypeOK, WorkerTypeOK
  <2>2. ASSUME \/ PopRedis(w) \/ PopNothing(w) \/ JoinGroup(w) \/ PollNothing(w)
               \/ PollBatch(w) \/ TakeRecord(w) \/ EndBatch(w)
               \/ BeginBroadcast(w)
        PROVE  Goal
    BY <2>2 DEF PopRedis, PopNothing, JoinGroup, PollNothing, PollBatch,
                TakeRecord, EndBatch, BeginBroadcast
  <2>3. ASSUME \/ FinishBroadcast(w) \/ DeadLetter(w) \/ CommitPosition(w)
               \/ Restart(w) \/ RollBack(w) \/ CommitRaises(w)
        PROVE  Goal
    BY <2>3 DEF FinishBroadcast, DeadLetter, CommitPosition, Restart, RollBack,
                CommitRaises, AfterRecord
  <2>4. ASSUME CommitRefused(w) \/ Stop(w) PROVE Goal
    BY <2>4 DEF CommitRefused, Stop, Leave
  <2>5. ASSUME NEW u \in Leads, WorkerPush(w, u) PROVE Goal
    BY <2>5 DEF WorkerPush
  <2>6. Goal
    <3> HIDE DEF Goal
    <3> QED BY <1>2, <2>2, <2>3, <2>4, <2>5 DEF WorkerMove, HandsBack
  <2>7. Nobody \notin Workers
    BY ConstantsAssumption DEF ConstantsAssumption
  <2> QED BY <2>1, <2>6, <2>7
<1> QED BY <1>1, <1>2, Moves

(* What a worker holds it keeps until it is handled.                       *)
LEMMA HoldsStays ==
  ASSUME TypeOK, BatchInv, OwnersInBatch, [Next]_vars,
         \A w \in Workers : ~HandsBack(w),
         NEW v \in Workers, NEW i \in 1 .. Len(log), Holds(v, i)
  PROVE  log'[i] = log[i] /\ (Holds(v, i)' \/ Handled(log[i])')
<1>1. /\ log \in Seq(Campaigns) /\ log[i] \in Campaigns
      /\ \A c \in Campaigns : Append(log, c)[i] = log[i]
  BY DEF TypeOK, QueueTypeOK
<1>2. log'[i] = log[i]
  BY <1>1, PublishesOnce
<1>3. CASE ApiMove
  BY <1>2, <1>3, ApiLeavesWorkers DEF Holds
<1>4. ASSUME NEW w \in Workers, WorkerMove(w), w # v
      PROVE  Holds(v, i)'
  BY <1>2, <1>4, WorkerLeavesOthers DEF Holds
<1>5. ASSUME WorkerMove(v) PROVE Holds(v, i)' \/ Handled(log[i])'
  <2>1. CASE record[v] = log[i]
    <3>1. record'[v] = log[i] \/ \E c \in Campaigns : c = log[i] /\ Handled(c)'
      BY <1>1, <1>5, <2>1, RecordStays
    <3> QED BY <1>2, <3>1 DEF Holds, Handled
  <2>2. CASE i \in cursor[v] + 1 .. position[v]
    <3> USE DEF TypeOK, PositionTypeOK, WorkerTypeOK
    <3>1. InBatch(v) /\ owner = v
      BY <2>2 DEF BatchInv, OwnersInBatch
    <3> DEFINE Same == cursor'[v] = cursor[v] /\ position'[v] = position[v]
    <3>2. CASE \/ PopRedis(v) \/ PopNothing(v) \/ JoinGroup(v) \/ PollNothing(v)
               \/ PollBatch(v) \/ CommitRefused(v) \/ Stop(v) \/ Restart(v)
      BY <3>1, <3>2, ConstantsAssumption DEF InBatch, Kafka, Working, PopRedis,
         PopNothing, JoinGroup, PollNothing, PollBatch, CommitRefused, Stop,
         Restart, ConstantsAssumption
    <3>3. ASSUME \/ EndBatch(v) \/ BeginBroadcast(v) \/ FinishBroadcast(v)
                 \/ DeadLetter(v) \/ CommitPosition(v) \/ RollBack(v)
                 \/ CommitRaises(v)
          PROVE  Same
      BY <3>3 DEF EndBatch, BeginBroadcast, FinishBroadcast, DeadLetter,
                  CommitPosition, RollBack, CommitRaises
    <3>4. ASSUME NEW u \in Leads, WorkerPush(v, u) PROVE Same
      BY <3>4 DEF WorkerPush
    <3>5. ASSUME Same PROVE Holds(v, i)'
      BY <2>2, <3>5 DEF Holds
    <3>6. CASE TakeRecord(v)
      <4>1. /\ cursor'[v] = cursor[v] + 1 /\ position'[v] = position[v]
            /\ record'[v] = log[cursor[v] + 1]
            /\ cursor[v] \in Nat /\ position[v] \in Nat
        BY <3>6 DEF TakeRecord
      <4>2. i = cursor[v] + 1 \/ i \in cursor'[v] + 1 .. position'[v]
        BY <2>2, <4>1
      <4> QED BY <1>2, <4>1, <4>2 DEF Holds
    <3> HIDE DEF Same
    <3> QED BY <1>5, <3>2, <3>3, <3>4, <3>5, <3>6 DEF WorkerMove, HandsBack
  <2> QED BY <2>1, <2>2 DEF Holds
<1> QED BY <1>2, <1>3, <1>4, <1>5, Moves

(* The group goes past what its owner polls, and nothing else.             *)
LEMMA ReachedBefore ==
  ASSUME TypeOK, OwnerAhead, [Next]_vars
  PROVE  \A i \in 1 .. Len(log') :
           Reached(i)' =>
             /\ i \in 1 .. Len(log)
             /\ \/ Reached(i)
                \/ \E w \in Workers : i \in cursor'[w] + 1 .. position'[w]
<1> USE DEF TypeOK, QueueTypeOK, PositionTypeOK
<1>1. ASSUME NEW i \in Nat \ {0}, Reached(i)
      PROVE  i \in 1 .. Len(log)
  BY <1>1 DEF Reached
<1> SUFFICES ASSUME NEW i \in Nat \ {0}, Reached(i)'
             PROVE  \/ Reached(i)
                    \/ /\ i <= Len(log)
                       /\ \E w \in Workers : i \in cursor'[w] + 1 .. position'[w]
  BY <1>1
<1>2. CASE UNCHANGED <<owner, committed, position>>
  BY <1>2 DEF Reached
<1>3. ASSUME NEW w \in Workers, JoinGroup(w) PROVE Reached(i)
  <2>1. owner' = w /\ position'[w] = committed /\ committed' = committed
    BY <1>3 DEF JoinGroup
  <2> QED BY <2>1 DEF Reached
<1>4. ASSUME NEW w \in Workers, CommitPosition(w) PROVE Reached(i)
  BY <1>4 DEF CommitPosition, Reached
<1>5. ASSUME NEW w \in Workers, Leave(w) PROVE Reached(i)
  <2>1. /\ committed' = committed
        /\ \A v \in Workers : owner' = v => owner = v /\ position'[v] = position[v]
    BY <1>5, ConstantsAssumption DEF Leave, ConstantsAssumption
  <2> QED BY <2>1 DEF Reached
<1>6. ASSUME NEW w \in Workers, Evict(w) PROVE Reached(i)
  BY <1>6, ConstantsAssumption DEF Evict, Reached, ConstantsAssumption
<1>7. ASSUME NEW w \in Workers, PollBatch(w)
      PROVE  \/ Reached(i)
             \/ /\ i <= Len(log)
                /\ i \in cursor'[w] + 1 .. position'[w]
  <2>1. PICK n \in 1 .. MaxPoll :
          /\ position[w] + n <= Len(log)
          /\ cursor' = [cursor EXCEPT ![w] = position[w]]
          /\ position' = [position EXCEPT ![w] = position[w] + n]
    BY <1>7 DEF PollBatch
  <2>2. n \in Nat
    BY ConstantsAssumption DEF ConstantsAssumption
  <2>3. /\ cursor'[w] = position[w] /\ position'[w] = position[w] + n
        /\ position[w] \in Nat /\ owner = w /\ owner' = w
        /\ committed' = committed /\ Len(log) \in Nat
    BY <1>7, <2>1 DEF PollBatch
  <2>4. i <= committed \/ i <= position[w] + n
    BY <2>3 DEF Reached
  <2>5. CASE i <= committed \/ i <= position[w]
    BY <2>3, <2>5 DEF Reached
  <2>6. CASE i > position[w] /\ i <= position[w] + n
    BY <2>1, <2>2, <2>3, <2>6
  <2> QED BY <2>3, <2>4, <2>5, <2>6
<1> QED BY <1>2, <1>3, <1>4, <1>5, <1>6, <1>7, PositionStep DEF PositionMove

(* What the group has gone past stays handled or held.                     *)
LEMMA ReachedStep ==
  ASSUME TypeOK, BatchInv, OwnerAhead, OwnersInBatch, ReachedIsKept,
         [Next]_vars, \A w \in Workers : ~HandsBack(w)
  PROVE  ReachedIsKept'
<1>1. log \in Seq(Campaigns)
  BY DEF TypeOK, QueueTypeOK
<1> SUFFICES ASSUME NEW i \in 1 .. Len(log'), Reached(i)'
             PROVE  Handled(log[i])' \/ \E w \in Workers : Holds(w, i)'
  BY DEF ReachedIsKept
<1>2. i \in 1 .. Len(log) /\ log[i] \in Campaigns
  BY <1>1, ReachedBefore
<1>3. log'[i] = log[i]
  BY <1>1, <1>2, PublishesOnce
<1>4. CASE \E w \in Workers : i \in cursor'[w] + 1 .. position'[w]
  BY <1>4 DEF Holds
<1>5. ASSUME NEW w \in Workers, Holds(w, i)
      PROVE  Holds(w, i)' \/ Handled(log[i])'
  BY <1>2, <1>5, HoldsStays
<1>6. CASE Handled(log[i])
  <2>1. \A c \in Campaigns : Handled(c) => Handled(c)'
    BY HandledStays
  <2> QED BY <1>2, <1>3, <1>6, <2>1 DEF Handled
<1> QED BY <1>2, <1>4, <1>5, <1>6, ReachedBefore DEF ReachedIsKept

(* Both together, as long as there was no such fault.                      *)
LEMMA KeptStep ==
  TypeOK /\ QueueInv /\ BudgetInv /\ KeptInv /\ [Next]_vars
    => BudgetInv' /\ KeptInv'
<1> SUFFICES ASSUME TypeOK, QueueInv, BudgetInv, KeptInv, [Next]_vars
             PROVE  BudgetInv' /\ KeptInv'
  OBVIOUS
<1>1. BudgetInv'
  BY BudgetStep
<1>2. ASSUME Faultless'
      PROVE  OwnersInBatch' /\ ReachedIsKept'
  <2>1. /\ OwnersInBatch /\ ReachedIsKept
        /\ \A w \in Workers : ~HandsBack(w)
    BY <1>2, FaultlessBefore DEF KeptInv
  <2> QED BY <2>1, OwnersStep, ReachedStep DEF QueueInv
<1> QED BY <1>1, <1>2 DEF KeptInv

(* They hold initially.                                                    *)
LEMMA KeptInit == Init => BudgetInv /\ KeptInv
<1> SUFFICES ASSUME Init PROVE BudgetInv /\ KeptInv
  OBVIOUS
<1>1. BudgetInv
  BY ConstantsAssumption DEF Init, BudgetInv, ConstantsAssumption
<1>2. OwnersInBatch
  BY DEF Init, OwnersInBatch, InBatch, Kafka, Working
<1>3. ReachedIsKept
  BY DEF Init, ReachedIsKept
<1> QED BY <1>1, <1>2, <1>3 DEF KeptInv

(* The documented fallback to dead letters is kept as long: the committed  *)
(* position passes only records that are handled, or that a worker has.    *)
THEOREM CommittedOnceHandled == Spec => [](Faultless => CommittedIsHandled)
<1>1. Init => BudgetInv /\ KeptInv
  BY KeptInit
<1>2. TypeOK /\ KeptInv => (Faultless => CommittedIsHandled)
  <2> SUFFICES ASSUME TypeOK, KeptInv, Faultless, NEW i \in 1 .. committed
               PROVE  \/ Handled(log[i])
                      \/ \E w \in Workers :
                           \/ record[w] = log[i]
                           \/ i \in cursor[w] + 1 .. position[w]
    BY DEF CommittedIsHandled
  <2>1. committed \in Nat /\ Len(log) \in Nat /\ committed <= Len(log)
    BY DEF TypeOK, QueueTypeOK
  <2>2. i \in 1 .. Len(log) /\ i <= committed
    BY <2>1
  <2>3. ReachedIsKept
    BY DEF KeptInv
  <2> QED BY <2>2, <2>3 DEF ReachedIsKept, Reached, Holds
<1> QED BY <1>1, <1>2, KeptStep, QueueInit, QueueStep, TypeCorrect, PTL DEF Spec

(***************************************************************************)
(* What a crash, an eviction and a lost dead letter cost                   *)
(***************************************************************************)
(* Of a batch the worker has taken one record, unless it has just polled;  *)
(* when the owner has committed the batch it has taken one more.           *)
RestInv ==
  \A w \in Workers : InBatch(w) =>
    /\ position[w] - cursor[w] <=
         IF wpc[w] = "batch" THEN MaxPoll ELSE MaxPoll - 1
    /\ owner = w /\ committed > cursor[w] =>
         position[w] - cursor[w] <=
           IF wpc[w] = "batch" THEN MaxPoll - 1 ELSE MaxPoll - 2

(* The records of the topic from here on some worker takes up again.       *)
Point == IF owner = Nobody THEN committed ELSE cursor[owner]

(* Where a campaign is safe from everything but those faults; an accepted  *)
(* one that is not is loose.  (It may still get lucky: a worker that was   *)
(* evicted can have it in its batch.)                                      *)
Safe(c) ==
  \/ Handled(c) \/ InRedis(c)
  \/ \E w \in Workers : record[w] = c
  \/ \E i \in Point + 1 .. Len(log) : log[i] = c

Loose == {c \in Campaigns : handler[c] = "queued" /\ ~Safe(c)}

(* The records the group has committed before their turn.                  *)
Passed == {log[i] : i \in Point + 1 .. committed}

LossInv == IsFiniteSet(Loose) /\ Cardinality(Loose) <= MostLost

(* Every step keeps the rest of a batch within these bounds.               *)
LEMMA RestInvStep ==
  TypeOK /\ BatchInv /\ OwnerAhead /\ RestInv /\ [Next]_vars => RestInv'
<1> SUFFICES ASSUME TypeOK, BatchInv, OwnerAhead, RestInv, [Next]_vars
             PROVE  RestInv'
  OBVIOUS
<1> USE DEF RestInv, InBatch, Kafka, Working
<1>1. CASE ApiMove
  BY <1>1, ApiLeavesWorkers
<1>2. ASSUME NEW w \in Workers, WorkerMove(w) PROVE RestInv'
  <2> USE DEF TypeOK, WorkerTypeOK, PositionTypeOK, QueueTypeOK
  <2> DEFINE Within(v) ==
               InBatch(v) =>
                 /\ position[v] - cursor[v] <=
                      IF wpc[v] = "batch" THEN MaxPoll ELSE MaxPoll - 1
                 /\ owner = v /\ committed > cursor[v] =>
                      position[v] - cursor[v] <=
                        IF wpc[v] = "batch" THEN MaxPoll - 1 ELSE MaxPoll - 2
             Frame == /\ \A v \in Workers \ {w} : owner' = v => owner = v
                      /\ committed' = committed \/ owner = w
             Goal == Within(w)' /\ Frame
  <2>1. /\ MaxPoll \in Nat \ {0} /\ Nobody \notin Workers
        /\ cursor[w] \in Nat /\ position[w] \in Nat /\ committed \in Nat
        /\ Within(w)
    BY ConstantsAssumption DEF ConstantsAssumption
  <2> USE <2>1
  <2>2. ASSUME \/ PopRedis(w) \/ PopNothing(w) \/ JoinGroup(w) \/ PollNothing(w)
             \/ EndBatch(w) \/ BeginBroadcast(w)
        PROVE  Goal
    BY <2>2 DEF PopRedis, PopNothing, JoinGroup, PollNothing, EndBatch,
                BeginBroadcast
  <2>3. ASSUME TakeRecord(w)
        PROVE  Goal
    <3>1. /\ cursor'[w] = cursor[w] + 1 /\ position'[w] = position[w]
          /\ committed' = committed /\ owner' = owner
          /\ wpc[w] = "batch" /\ wpc'[w] = "begin"
      BY <2>3 DEF TakeRecord
    <3> QED BY <2>1, <3>1
  <2>4. ASSUME \/ FinishBroadcast(w) \/ DeadLetter(w) \/ RollBack(w)
             \/ CommitRaises(w) \/ DeadLetterRaises(w)
        PROVE  Goal
    <3>1. /\ cursor'[w] = cursor[w] /\ position'[w] = position[w]
          /\ committed' = committed /\ owner' = owner
          /\ InBatch(w)' => InBatch(w) /\ wpc[w] # "batch"
      BY <2>4 DEF FinishBroadcast, DeadLetter, RollBack, CommitRaises,
                  DeadLetterRaises, AfterRecord
    <3> QED BY <2>1, <3>1
  <2>5. ASSUME CommitPosition(w) \/ Evict(w)
        PROVE  Goal
    <3>1. /\ cursor'[w] = cursor[w] /\ position'[w] = position[w]
          /\ owner = w /\ InBatch(w)' => InBatch(w)
          /\ \/ wpc[w] = "commit" /\ wpc'[w] = "batch" /\ owner' = w
             \/ wpc'[w] = wpc[w] /\ committed' = committed /\ owner' = Nobody
      BY <2>5 DEF CommitPosition, Evict
    <3> QED BY <2>1, <3>1, <2>5 DEF CommitPosition, Evict
  <2>6. ASSUME CommitRefused(w) \/ Stop(w) \/ Crash(w) \/ Restart(w)
        PROVE  Goal
    BY <2>1, <2>6 DEF CommitRefused, Stop, Crash, Leave, Restart
  <2>7. ASSUME PollBatch(w)
        PROVE  Goal
    <3>1. PICK n \in 1 .. MaxPoll :
            /\ cursor' = [cursor EXCEPT ![w] = position[w]]
            /\ position' = [position EXCEPT ![w] = position[w] + n]
      BY <2>7 DEF PollBatch
    <3>2. /\ cursor'[w] = position[w] /\ position'[w] = position[w] + n
          /\ committed' = committed /\ owner' = owner /\ owner = w
          /\ wpc'[w] = "batch"
      BY <2>7, <3>1 DEF PollBatch
    <3>3. committed <= position[w]
      BY <3>2 DEF OwnerAhead
    <3> QED BY <2>1, <3>1, <3>2, <3>3
  <2>8. ASSUME NEW u \in Leads, WorkerPush(w, u) PROVE Goal
    BY <2>8 DEF WorkerPush
  <2>9. Goal
    <3> HIDE DEF Goal
    <3> QED BY <1>2, <2>2, <2>3, <2>4, <2>5, <2>6, <2>7, <2>8 DEF WorkerMove
  <2> QED BY <1>2, <2>9, WorkerLeavesOthers
<1> QED BY <1>1, <1>2, Moves

(* The point moves on only past the record its owner takes, or past what   *)
(* is committed when the owner crashes or is evicted.                      *)
LEMMA PointStep ==
  ASSUME TypeOK, BatchInv, OwnerAhead, NEW w \in Workers, WorkerMove(w)
  PROVE  /\ Point \in 0 .. Len(log)
         /\ \/ Point' \in Nat /\ Point' <= Point
            \/ TakeRecord(w) /\ Point = cursor[w] /\ Point' = Point + 1
            \/ owner = w /\ (Crash(w) \/ Evict(w)) /\ Point' = committed
<1> USE DEF TypeOK, QueueTypeOK, PositionTypeOK, WorkerTypeOK
<1>1. Nobody \notin Workers
  BY ConstantsAssumption DEF ConstantsAssumption
<1>2. Point \in 0 .. Len(log)
  BY DEF Point
<1> DEFINE Goal ==
             \/ Point' \in Nat /\ Point' <= Point
             \/ TakeRecord(w) /\ Point = cursor[w] /\ Point' = Point + 1
             \/ owner = w /\ (Crash(w) \/ Evict(w)) /\ Point' = committed
<1>3. ASSUME UNCHANGED <<committed, owner, cursor>> PROVE Goal
  BY <1>2, <1>3 DEF Point
<1>4. ASSUME \/ PopRedis(w) \/ PopNothing(w) \/ PollNothing(w) \/ EndBatch(w)
             \/ BeginBroadcast(w) \/ Restart(w)
      PROVE  Goal
  BY <1>3, <1>4 DEF PopRedis, PopNothing, PollNothing, EndBatch,
                    BeginBroadcast, Restart
<1>5. ASSUME \/ FinishBroadcast(w) \/ DeadLetter(w) \/ RollBack(w)
             \/ CommitRaises(w) \/ DeadLetterRaises(w)
      PROVE  Goal
  BY <1>3, <1>5 DEF FinishBroadcast, DeadLetter, RollBack, CommitRaises,
                    DeadLetterRaises
<1>6. ASSUME NEW u \in Leads, WorkerPush(w, u) PROVE Goal
  BY <1>3, <1>6 DEF WorkerPush
<1>7. ASSUME JoinGroup(w) \/ CommitPosition(w) PROVE Goal
  BY <1>1, <1>2, <1>7 DEF JoinGroup, CommitPosition, Point
<1>8. ASSUME PollBatch(w) PROVE Goal
  <2>1. /\ owner = w /\ owner' = w /\ cursor'[w] = position[w]
        /\ cursor[w] = position[w]
    BY <1>8 DEF PollBatch, BatchInv, InBatch, Kafka, Working
  <2> QED BY <1>1, <1>2, <2>1 DEF Point
<1>9. ASSUME TakeRecord(w) PROVE Goal
  <2>1. /\ owner' = owner /\ committed' = committed
        /\ cursor' = [cursor EXCEPT ![w] = @ + 1]
    BY <1>9 DEF TakeRecord
  <2>2. CASE owner = w
    BY <1>1, <1>9, <2>1, <2>2 DEF Point
  <2>3. CASE owner # w
    BY <1>2, <2>1, <2>3 DEF Point
  <2> QED BY <2>2, <2>3
<1>10. ASSUME Leave(w)
       PROVE  /\ owner # w => Point' \in Nat /\ Point' <= Point
              /\ owner = w => Point = cursor[w] /\ Point' = committed
  BY <1>1, <1>2, <1>10 DEF Leave, Point
<1>11. ASSUME CommitRefused(w) PROVE Goal
  BY <1>10, <1>11 DEF CommitRefused
<1>12. ASSUME Stop(w) PROVE Goal
  <2>1. cursor[w] = position[w] /\ Leave(w)
    BY <1>12 DEF Stop, BatchInv, InBatch, Kafka, Working
  <2> QED BY <1>10, <2>1 DEF OwnerAhead
<1>13. ASSUME Crash(w) PROVE Goal
  BY <1>10, <1>13 DEF Crash
<1>14. ASSUME Evict(w) PROVE Goal
  BY <1>1, <1>14 DEF Evict, Point
<1>15. Goal
  <2> HIDE DEF Goal
  <2> QED BY <1>4, <1>5, <1>6, <1>7, <1>8, <1>9, <1>11, <1>12, <1>13, <1>14
          DEF WorkerMove
<1> QED BY <1>2, <1>15

(* What is in the list stays there until a worker takes it.                *)
LEMMA RedisStays ==
  ASSUME TypeOK, [Next]_vars, NEW c \in Campaigns, InRedis(c)
  PROVE  InRedis(c)' \/ \E w \in Workers : record'[w] = c
<1>1. redis \in Seq(Campaigns)
  BY DEF TypeOK, QueueTypeOK
<1>2. PICK i \in 1 .. Len(redis) : redis[i] = c
  BY DEF InRedis
<1>3. CASE redis' = redis
  BY <1>2, <1>3 DEF InRedis
<1>4. ASSUME NEW d \in Campaigns, redis' = Append(redis, d)
      PROVE  InRedis(c)'
  <2>1. i \in 1 .. Len(redis') /\ redis'[i] = c
    BY <1>1, <1>2, <1>4
  <2> QED BY <2>1 DEF InRedis
<1>5. ASSUME NEW w \in Workers, PopRedis(w)
      PROVE  InRedis(c)' \/ record'[w] = c
  <2>1. /\ redis # <<>> /\ redis' = Front(redis)
        /\ record'[w] = redis[Len(redis)]
    BY <1>5 DEF PopRedis, Last, TypeOK, WorkerTypeOK
  <2>2. /\ Len(redis') = Len(redis) - 1
        /\ \A j \in 1 .. Len(redis') : redis'[j] = redis[j]
    BY <1>1, <2>1, FrontOf
  <2>3. i = Len(redis) \/ i \in 1 .. Len(redis')
    BY <1>1, <1>2, <2>2
  <2> QED BY <1>2, <2>1, <2>2, <2>3 DEF InRedis
<1>6. ASSUME NEW w \in Workers, WorkerMove(w), ~PopRedis(w)
      PROVE  redis' = redis
  <2>1. CASE TakesOver(w)
    BY <1>6, <2>1 DEF TakesOver, PollBatch, TakeRecord
  <2> QED BY <1>6, <2>1, HoldsNoMore
<1>7. CASE ApiMove
  <2>1. ASSUME NEW d \in Campaigns, QueueInRedis(d)
        PROVE  redis' = redis \/ redis' = Append(redis, d)
    BY <2>1 DEF QueueInRedis
  <2>2. ASSUME NEW d \in Campaigns, NEW u \in Leads, FallbackPush(d, u)
        PROVE  redis' = redis
    BY <2>2 DEF FallbackPush
  <2>3. CASE \/ UNCHANGED vars
             \/ \E u \in Leads, s \in Statuses : Relabel(u, s)
    BY <1>3, <2>3 DEF vars, Relabel
  <2>4. ASSUME NEW d \in Campaigns,
               \/ \E t \in Targets : CreateBroadcast(d, t)
               \/ QueueInKafka(d) \/ BeginFallback(d) \/ FinishFallback(d)
               \/ HandlerDies(d)
        PROVE  redis' = redis
    BY <2>4 DEF CreateBroadcast, QueueInKafka, BeginFallback, FinishFallback,
                HandlerDies
  <2> QED BY <1>3, <1>4, <1>7, <2>1, <2>2, <2>3, <2>4 DEF ApiMove
<1> QED BY <1>3, <1>5, <1>6, <1>7, Moves

(* A campaign is answered "queued" when a queue has taken its event.       *)
LEMMA QueuedOnlyThen ==
  ASSUME TypeOK, [Next]_vars, NEW c \in Campaigns,
         handler[c] # "queued", handler'[c] = "queued"
  PROVE  ApiMove /\ (redis' = Append(redis, c) \/ log' = Append(log, c))
<1>1. handler \in [Campaigns -> {"idle", "redis", "kafka", "fallback",
                                 "pushing", "queued", "synced", "failed"}]
  BY DEF TypeOK, ApiTypeOK
<1>2. CASE ApiMove
  <2>1. ASSUME NEW d \in Campaigns, QueueInRedis(d)
        PROVE  c = d /\ redis' = Append(redis, c)
    BY <1>1, <2>1 DEF QueueInRedis
  <2>2. ASSUME NEW d \in Campaigns, QueueInKafka(d)
        PROVE  c = d /\ log' = Append(log, c)
    BY <1>1, <2>2 DEF QueueInKafka
  <2>3. ASSUME NEW d \in Campaigns, NEW u \in Leads, FallbackPush(d, u)
        PROVE  FALSE
    BY <1>1, <2>3 DEF FallbackPush
  <2>4. ASSUME NEW d \in Campaigns,
               \/ \E t \in Targets : CreateBroadcast(d, t)
               \/ BeginFallback(d) \/ FinishFallback(d) \/ HandlerDies(d)
        PROVE  FALSE
    BY <1>1, <2>4 DEF CreateBroadcast, BeginFallback, FinishFallback,
                      HandlerDies
  <2>5. ASSUME \/ UNCHANGED vars
               \/ \E u \in Leads, s \in Statuses : Relabel(u, s)
        PROVE  FALSE
    BY <2>5 DEF vars, Relabel
  <2> QED BY <1>2, <2>1, <2>2, <2>3, <2>4, <2>5 DEF ApiMove
<1>3. ASSUME NEW w \in Workers, WorkerMove(w) PROVE FALSE
  BY <1>3, WorkerLeavesOthers
<1> QED BY <1>2, <1>3, Moves

(* The API keeps a campaign safe, and makes an accepted one so.            *)
LEMMA ApiKeepsSafe ==
  ASSUME TypeOK, [Next]_vars, ApiMove, NEW c \in Campaigns,
         Safe(c) \/ (handler[c] # "queued" /\ handler'[c] = "queued")
  PROVE  Safe(c)'
<1>1. /\ log \in Seq(Campaigns) /\ redis \in Seq(Campaigns)
      /\ Point \in 0 .. Len(log)
  BY DEF TypeOK, QueueTypeOK, PositionTypeOK, Point
<1>2. Point' = Point /\ record' = record
  BY ApiLeavesWorkers DEF Point
<1>3. ASSUME NEW i \in Point + 1 .. Len(log), log[i] = c
      PROVE  Safe(c)'
  <2>1. i \in Point + 1 .. Len(log') /\ log'[i] = c
    <3>1. ASSUME NEW d \in Campaigns, log' = Append(log, d)
          PROVE  i \in Point + 1 .. Len(log') /\ log'[i] = c
      BY <1>1, <1>3, <3>1
    <3> QED BY <1>3, <3>1, PublishesOnce
  <2> QED BY <1>2, <2>1 DEF Safe
<1>4. CASE Safe(c)
  BY <1>2, <1>3, <1>4, HandledStays, RedisStays DEF Safe
<1>5. CASE redis' = Append(redis, c)
  <2>1. Len(redis) + 1 \in 1 .. Len(redis') /\ redis'[Len(redis) + 1] = c
    BY <1>1, <1>5
  <2> QED BY <2>1 DEF Safe, InRedis
<1>6. CASE log' = Append(log, c)
  <2>1. /\ Len(log) + 1 \in Point + 1 .. Len(log')
        /\ log'[Len(log) + 1] = c
    BY <1>1, <1>6
  <2> QED BY <1>2, <2>1 DEF Safe
<1> QED BY <1>4, <1>5, <1>6, QueuedOnlyThen

(* A worker does, but for its record when it crashes or the dead letter is *)
(* not taken, and for what it passed when it owns no partition any more.   *)
LEMMA WorkerKeepsSafe ==
  ASSUME TypeOK, QueueInv, [Next]_vars, NEW w \in Workers, WorkerMove(w),
         NEW c \in Campaigns, Safe(c)
  PROVE  \/ Safe(c)'
         \/ (Crash(w) \/ DeadLetterRaises(w)) /\ record[w] = c
         \/ owner = w /\ (Crash(w) \/ Evict(w)) /\ c \in Passed
<1>1. /\ log \in Seq(Campaigns) /\ log' = log
      /\ committed \in Nat /\ committed <= Len(log)
  BY WorkerLeavesOthers DEF TypeOK, QueueTypeOK
<1>2. CASE Handled(c)
  BY <1>2, HandledStays DEF Safe
<1>3. CASE InRedis(c)
  BY <1>3, RedisStays DEF Safe
<1>4. ASSUME NEW v \in Workers, record[v] = c, v # w
      PROVE  Safe(c)'
  BY <1>4, WorkerLeavesOthers DEF Safe
<1>5. CASE record[w] = c
  <2>1. ASSUME Evict(w) PROVE record'[w] = c
    BY <1>5, <2>1 DEF Evict
  <2>2. ASSUME ~HandsBack(w) PROVE record'[w] = c \/ Handled(c)'
    BY <1>5, <2>2, RecordStays
  <2> QED BY <1>5, <2>1, <2>2 DEF Safe, HandsBack
<1>6. ASSUME NEW i \in Point + 1 .. Len(log), log[i] = c
      PROVE  \/ Safe(c)'
             \/ owner = w /\ (Crash(w) \/ Evict(w)) /\ c \in Passed
  <2>1. Point \in 0 .. Len(log)
    BY PointStep DEF QueueInv
  <2>2. ASSUME i \in Point' + 1 .. Len(log') PROVE Safe(c)'
    BY <1>1, <1>6, <2>2 DEF Safe
  <2>3. CASE Point' \in Nat /\ Point' <= Point
    <3>1. \A a, b, n \in Nat : \A x \in a + 1 .. n : b <= a => x \in b + 1 .. n
      OBVIOUS
    <3>2. Point \in Nat /\ Len(log') = Len(log) /\ Len(log) \in Nat
      BY <1>1, <2>1
    <3> QED BY <1>6, <2>2, <2>3, <3>1, <3>2
  <2>4. CASE TakeRecord(w) /\ Point = cursor[w] /\ Point' = Point + 1
    <3>1. record'[w] = log[Point + 1]
      BY <2>4 DEF TakeRecord, TypeOK, WorkerTypeOK
    <3>2. i = Point + 1 \/ i \in Point' + 1 .. Len(log')
      BY <1>1, <2>1, <2>4
    <3> QED BY <1>6, <2>2, <3>1, <3>2 DEF Safe
  <2>5. CASE owner = w /\ (Crash(w) \/ Evict(w)) /\ Point' = committed
    <3>1. i \in Point' + 1 .. Len(log') \/ i \in Point + 1 .. committed
      BY <1>1, <2>1, <2>5
    <3> QED BY <1>6, <2>2, <2>5, <3>1 DEF Passed
  <2> QED BY <2>3, <2>4, <2>5, PointStep DEF QueueInv
<1> QED BY <1>2, <1>3, <1>4, <1>5, <1>6 DEF Safe

(* The greater of two numbers.                                             *)
LEMMA GreaterOf ==
  ASSUME NEW a \in Int, NEW b \in Int
  PROVE  /\ Max({a, b}) \in Int /\ Max({a, b}) >= a /\ Max({a, b}) >= b
<1>1. \E x \in {a, b} : \A y \in {a, b} : x >= y
  <2>1. CASE a >= b
    BY <2>1
  <2>2. CASE b >= a
    BY <2>2
  <2> QED BY <2>1, <2>2
<1>2. Max({a, b}) \in {a, b} /\ \A y \in {a, b} : Max({a, b}) >= y
  BY <1>1 DEF Max
<1> QED BY <1>2

(* A part of the topic has no more campaigns than places.                  *)
LEMMA PartOfTopic ==
  ASSUME NEW a \in Int, NEW b \in Int,
         NEW T, T = {log[i] : i \in a + 1 .. b}
  PROVE  /\ IsFiniteSet(T) /\ Cardinality(T) \in Nat
         /\ a >= b => T = {}
         /\ a < b => Cardinality(T) <= b - a
<1> DEFINE f == [i \in a + 1 .. b |-> log[i]]
<1>1. f \in Surjection(a + 1 .. b, T)
  BY DEF Surjection
<1>2. /\ IsFiniteSet(a + 1 .. b)
      /\ Cardinality(a + 1 .. b) = IF a + 1 > b THEN 0 ELSE b - (a + 1) + 1
  BY FS_Interval
<1>3. IsFiniteSet(T) /\ Cardinality(T) <= Cardinality(a + 1 .. b)
  <2> HIDE DEF f
  <2> QED BY <1>1, <1>2, FS_Surjection
<1>4. Cardinality(T) \in Nat
  BY <1>3, FS_CardinalityType
<1>5. a >= b => T = {}
  OBVIOUS
<1>6. a < b => Cardinality(T) <= b - a
  BY <1>2, <1>3, <1>4
<1> QED BY <1>3, <1>4, <1>5, <1>6

(* A set that gains some elements is larger by as many at most.            *)
LEMMA SomeElementsMore ==
  ASSUME NEW S, NEW T, NEW U, NEW k \in Int, NEW n \in Int,
         IsFiniteSet(S), Cardinality(S) <= n,
         IsFiniteSet(U), Cardinality(U) <= k, T \subseteq S \cup U
  PROVE  IsFiniteSet(T) /\ Cardinality(T) <= n + k
<1>1. /\ IsFiniteSet(S \cup U)
      /\ Cardinality(S \cup U)
           = Cardinality(S) + Cardinality(U) - Cardinality(S \cap U)
  BY FS_Union
<1>2. IsFiniteSet(T) /\ Cardinality(T) <= Cardinality(S \cup U)
  BY <1>1, FS_Subset
<1>3. IsFiniteSet(S \cap U)
  BY FS_Subset, S \cap U \subseteq S
<1>4. /\ Cardinality(S) \in Nat /\ Cardinality(U) \in Nat
      /\ Cardinality(S \cap U) \in Nat /\ Cardinality(T) \in Nat
      /\ Cardinality(S \cup U) \in Nat
  BY <1>1, <1>2, <1>3, FS_CardinalityType
<1> QED BY <1>1, <1>2, <1>4

(* What the owner has passed is less than its batch: a record is taken     *)
(* before the commit, and another one when it is in process.               *)
LEMMA PassedFew ==
  ASSUME TypeOK, QueueInv, RestInv, NEW w \in Workers, owner = w
  PROVE  /\ IsFiniteSet(Passed) /\ Cardinality(Passed) \in Nat
         /\ Passed = {} \/ Cardinality(Passed) <= MaxPoll - 1
         /\ wpc[w] # "batch" => Passed = {} \/ Cardinality(Passed) <= MaxPoll - 2
<1>1. /\ committed \in Nat /\ cursor[w] \in Nat /\ position[w] \in Nat
      /\ MaxPoll \in Nat /\ Point = cursor[w]
  BY ConstantsAssumption DEF ConstantsAssumption, TypeOK, QueueTypeOK,
                             PositionTypeOK, Point
<1>2. committed <= position[w]
  BY DEF QueueInv, OwnerAhead
<1>3. /\ IsFiniteSet(Passed) /\ Cardinality(Passed) \in Nat
      /\ cursor[w] >= committed => Passed = {}
      /\ cursor[w] < committed => Cardinality(Passed) <= committed - cursor[w]
  <2>1. Passed = {log[i] : i \in cursor[w] + 1 .. committed}
    BY <1>1 DEF Passed
  <2>2. cursor[w] \in Int /\ committed \in Int
    BY <1>1
  <2> HIDE DEF Passed
  <2> QED BY <2>1, <2>2, PartOfTopic, Zenon
<1>4. CASE cursor[w] >= committed
  BY <1>3, <1>4
<1>5. CASE cursor[w] < committed
  <2>1. InBatch(w)
    BY <1>1, <1>2, <1>5 DEF QueueInv, BatchInv
  <2>2. position[w] - cursor[w] <=
          IF wpc[w] = "batch" THEN MaxPoll - 1 ELSE MaxPoll - 2
    BY <1>1, <1>5, <2>1 DEF RestInv
  <2> QED BY <1>1, <1>2, <1>3, <1>5, <2>2
<1> QED BY <1>1, <1>4, <1>5

(* It is a number.                                                         *)
LEMMA MostLostIsNat ==
  TypeOK /\ BudgetInv =>
    /\ MostLost \in Nat
    /\ Max({1, MaxPoll - 1}) \in Nat /\ Max({0, MaxPoll - 2}) \in Nat
    /\ \A k \in FaultKinds : Spent(k) \in Nat
<1> SUFFICES ASSUME TypeOK, BudgetInv
             PROVE  /\ MostLost \in Nat
                    /\ Max({1, MaxPoll - 1}) \in Nat
                    /\ Max({0, MaxPoll - 2}) \in Nat
                    /\ \A k \in FaultKinds : Spent(k) \in Nat
  OBVIOUS
<1> DEFINE a == Max({1, MaxPoll - 1})
           b == Max({0, MaxPoll - 2})
<1>1. MaxPoll \in Int
  BY ConstantsAssumption DEF ConstantsAssumption
<1>2. a \in Nat /\ b \in Nat
  <2>1. a \in Int /\ a >= 1
    BY <1>1, GreaterOf
  <2>2. b \in Int /\ b >= 0
    BY <1>1, GreaterOf
  <2> HIDE DEF a, b
  <2> QED BY <2>1, <2>2
<1>3. \A k \in FaultKinds : /\ budget[k] \in Nat /\ MaxFaults[k] \in Nat
                            /\ budget[k] <= MaxFaults[k]
  BY ConstantsAssumption DEF ConstantsAssumption, TypeOK, HistoryTypeOK, BudgetInv
<1>4. \A k \in FaultKinds : Spent(k) \in Nat
  BY <1>3 DEF Spent
<1>5. {"crash", "evict", "dlq"} \subseteq FaultKinds
  BY DEF FaultKinds
<1>6. MostLost = a * Spent("crash") + b * Spent("evict") + Spent("dlq")
  BY DEF MostLost
<1> HIDE DEF a, b
<1>7. /\ a * Spent("crash") \in Nat /\ b * Spent("evict") \in Nat
      /\ Spent("dlq") \in Nat
  BY <1>2, <1>4, <1>5
<1>8. MostLost \in Nat
  BY <1>6, <1>7
<1> QED BY <1>2, <1>4, <1>8 DEF a, b

(* Every fault adds its share to what may be lost; nothing takes from it.  *)
LEMMA MostLostStep ==
  ASSUME TypeOK, BudgetInv, [Next]_vars
  PROVE  /\ MostLost \in Nat /\ MostLost' >= MostLost
         /\ Spend("crash") => MostLost' = MostLost + Max({1, MaxPoll - 1})
         /\ Spend("evict") => MostLost' = MostLost + Max({0, MaxPoll - 2})
         /\ Spend("dlq") => MostLost' = MostLost + 1
<1> DEFINE a == Max({1, MaxPoll - 1})
           b == Max({0, MaxPoll - 2})
<1>2. a \in Nat /\ b \in Nat /\ MostLost \in Nat
  BY MostLostIsNat
<1>3. \A k \in FaultKinds : /\ budget[k] \in Nat /\ MaxFaults[k] \in Nat
                            /\ budget[k] <= MaxFaults[k]
  BY ConstantsAssumption DEF ConstantsAssumption, TypeOK, HistoryTypeOK, BudgetInv
<1>4. \A k \in FaultKinds : Spent(k) \in Nat
  BY MostLostIsNat
<1>5. \A k \in FaultKinds : Spend(k) =>
        /\ Spent(k)' = Spent(k) + 1
        /\ \A j \in FaultKinds \ {k} : Spent(j)' = Spent(j)
  BY <1>3 DEF Spent, Spend, TypeOK, HistoryTypeOK
<1>6. budget' = budget => \A k \in FaultKinds : Spent(k)' = Spent(k)
  BY DEF Spent
<1>7. /\ MostLost = a * Spent("crash") + b * Spent("evict") + Spent("dlq")
      /\ MostLost' = a * Spent("crash")' + b * Spent("evict")' + Spent("dlq")'
  BY DEF MostLost
<1>8. {"crash", "evict", "dlq"} \subseteq FaultKinds
  BY DEF FaultKinds
<1> HIDE DEF a, b
<1> DEFINE c == Spent("crash")
           e == Spent("evict")
           d == Spent("dlq")
<1>9. c \in Nat /\ e \in Nat /\ d \in Nat
  BY <1>4, <1>8
<1>10. a * (c + 1) = a * c + a /\ b * (e + 1) = b * e + b
  <2> HIDE DEF c, e, d
  <2> QED BY <1>2, <1>9
<1>11. a * c \in Nat /\ b * e \in Nat
  <2> HIDE DEF c, e, d
  <2> QED BY <1>2, <1>9
<1>12. CASE budget' = budget
  <2>1. MostLost' = MostLost
    BY <1>6, <1>7, <1>8, <1>12
  <2>2. ~Spend("crash") /\ ~Spend("evict") /\ ~Spend("dlq")
    BY <1>5, <1>6, <1>8, <1>9, <1>12
  <2> QED BY <1>2, <2>1, <2>2
<1>13. ASSUME NEW k \in FaultKinds, Spend(k)
       PROVE  /\ k = "crash" => MostLost' = MostLost + a
              /\ k = "evict" => MostLost' = MostLost + b
              /\ k = "dlq" => MostLost' = MostLost + 1
              /\ k \notin {"crash", "evict", "dlq"} => MostLost' = MostLost
  <2>1. /\ Spent("crash")' = IF k = "crash" THEN c + 1 ELSE c
        /\ Spent("evict")' = IF k = "evict" THEN e + 1 ELSE e
        /\ Spent("dlq")' = IF k = "dlq" THEN d + 1 ELSE d
    BY <1>5, <1>8, <1>13
  <2> DEFINE c1 == Spent("crash")'
             e1 == Spent("evict")'
             d1 == Spent("dlq")'
  <2>2. MostLost = a * c + b * e + d /\ MostLost' = a * c1 + b * e1 + d1
    BY <1>7
  <2> HIDE DEF c, e, d, c1, e1, d1
  <2>3. a * c1 = IF k = "crash" THEN a * c + a ELSE a * c
    BY <1>10, <2>1 DEF c1
  <2>4. b * e1 = IF k = "evict" THEN b * e + b ELSE b * e
    BY <1>10, <2>1 DEF e1
  <2> QED BY <1>2, <1>9, <1>11, <2>1, <2>2, <2>3, <2>4 DEF d1
<1>14. CASE \E k \in FaultKinds : Spend(k)
  <2>1. PICK k \in FaultKinds : Spend(k)
    BY <1>14
  <2>2. \A j \in FaultKinds : Spend(j) => j = k
    BY <1>3, <2>1, <1>5, <1>4
  <2>3. /\ MostLost' >= MostLost
        /\ Spend("crash") => MostLost' = MostLost + a
        /\ Spend("evict") => MostLost' = MostLost + b
        /\ Spend("dlq") => MostLost' = MostLost + 1
    <3>1. CASE k \in {"crash", "evict", "dlq"}
      BY <1>2, <1>8, <1>13, <2>1, <2>2, <3>1
    <3>2. CASE k \notin {"crash", "evict", "dlq"}
      BY <1>2, <1>8, <1>13, <2>1, <2>2, <3>2
    <3> QED BY <3>1, <3>2
  <2> QED BY <1>2, <2>3 DEF a, b
<1> QED BY <1>12, <1>14, FaultStep DEF a, b

(* What is loose stays within what the faults so far can have cost.        *)
LEMMA LossStep ==
  TypeOK /\ QueueInv /\ RestInv /\ BudgetInv /\ LossInv /\ [Next]_vars => LossInv'
<1> SUFFICES ASSUME TypeOK, QueueInv, RestInv, BudgetInv, LossInv, [Next]_vars
             PROVE  LossInv'
  OBVIOUS
<1>1. MostLost \in Nat /\ MostLost' \in Int /\ MostLost' >= MostLost
  <2>1. TypeOK' /\ BudgetInv'
    BY BudgetStep, NextType
  <2>2. (MostLost \in Nat)'
    BY <2>1, MostLostIsNat, PTL
  <2> QED BY <2>2, MostLostStep
<1>2. /\ IsFiniteSet(Loose) /\ Cardinality(Loose) \in Nat
      /\ Cardinality(Loose) <= MostLost
  BY FS_CardinalityType DEF LossInv
<1>3. MaxPoll \in Nat
  BY ConstantsAssumption DEF ConstantsAssumption
<1> DEFINE a == Max({1, MaxPoll - 1})
           b == Max({0, MaxPoll - 2})
<1>4. /\ a \in Int /\ a >= 1 /\ a >= MaxPoll - 1
      /\ b \in Int /\ b >= 0 /\ b >= MaxPoll - 2
  <2>1. a \in Int /\ a >= 1 /\ a >= MaxPoll - 1
    BY <1>3, GreaterOf
  <2>2. b \in Int /\ b >= 0 /\ b >= MaxPoll - 2
    BY <1>3, GreaterOf
  <2> HIDE DEF a, b
  <2> QED BY <2>1, <2>2
<1> HIDE DEF a, b
<1>5. ASSUME NEW U, NEW k \in Nat, IsFiniteSet(U), Cardinality(U) <= k,
             MostLost' >= MostLost + k, Loose' \subseteq Loose \cup U
      PROVE  LossInv'
  <2>1. \A T : T \subseteq Loose \cup U =>
                IsFiniteSet(T) /\ Cardinality(T) <= MostLost + k
    <3>1. MostLost \in Int /\ k \in Int
      BY <1>1
    <3> QED BY <1>2, <1>5, <3>1, SomeElementsMore
  <2>2. /\ IsFiniteSet(Loose') /\ Cardinality(Loose') <= MostLost + k
        /\ Cardinality(Loose') \in Nat
    BY <1>5, <2>1, FS_CardinalityType
  <2> QED BY <1>1, <1>5, <2>2 DEF LossInv
<1>6. ASSUME NEW c \in Campaigns, c \in Loose'
      PROVE  ~Safe(c)' /\ (c \in Loose \/ Safe(c) \/ ApiMove)
  BY <1>6, QueuedOnlyThen DEF Loose
<1>7. CASE ApiMove
  <2>1. Loose' \subseteq Loose \cup {}
    BY <1>7, ApiKeepsSafe DEF Loose
  <2> QED BY <1>1, <1>5, <2>1, FS_EmptySet
<1>8. ASSUME NEW w \in Workers, WorkerMove(w), ~ApiMove PROVE LossInv'
  <2>1. ASSUME NEW c \in Campaigns, c \in Loose', c \notin Loose
        PROVE  \/ (Crash(w) \/ DeadLetterRaises(w)) /\ record[w] = c
               \/ owner = w /\ (Crash(w) \/ Evict(w)) /\ c \in Passed
    BY <1>6, <1>8, <2>1, WorkerKeepsSafe
  <2>2. Loose' \subseteq Campaigns /\ Nobody \notin Campaigns
    BY ConstantsAssumption DEF Loose, ConstantsAssumption
  <2>3. IsFiniteSet({record[w]}) /\ Cardinality({record[w]}) = 1
    BY FS_Singleton
  <2>4. owner = w => IsFiniteSet(Passed) /\ Cardinality(Passed) \in Nat
    BY <1>8, PassedFew
  <2>5. CASE ~HandsBack(w)
    <3>1. Loose' \subseteq Loose \cup {}
      BY <2>1, <2>2, <2>5 DEF HandsBack
    <3> QED BY <1>1, <1>5, <3>1, FS_EmptySet
  <2>6. CASE DeadLetterRaises(w)
    <3>1. ~Evict(w)
      BY <2>6, <1>8, ConstantsAssumption
         DEF DeadLetterRaises, Evict, ConstantsAssumption
    <3>2. ~Crash(w)
      BY <2>6 DEF DeadLetterRaises, Crash, Leave, TypeOK, WorkerTypeOK
    <3>3. Loose' \subseteq Loose \cup {record[w]}
      BY <2>1, <2>2, <3>1, <3>2
    <3>4. MostLost' = MostLost + 1
      BY <2>6, MostLostStep DEF DeadLetterRaises
    <3> QED BY <1>1, <1>5, <2>3, <3>3, <3>4
  <2>7. CASE Evict(w) /\ ~DeadLetterRaises(w)
    <3>1. ~Crash(w)
      BY <2>7 DEF Evict, Crash, Leave, TypeOK, WorkerTypeOK
    <3>2. owner = w /\ wpc[w] # "batch"
      BY <2>7 DEF Evict
    <3>3. Passed = {} \/ Cardinality(Passed) <= MaxPoll - 2
      BY <3>2, PassedFew
    <3>4. IsFiniteSet(Passed) /\ Cardinality(Passed) <= b
      BY <1>3, <1>4, <2>4, <3>2, <3>3, FS_EmptySet
    <3>5. Loose' \subseteq Loose \cup Passed
      BY <2>1, <2>2, <2>7, <3>1
    <3>6. MostLost' = MostLost + b
      BY <2>7, MostLostStep DEF Evict, b
    <3> QED BY <1>1, <1>4, <1>5, <3>4, <3>5, <3>6
  <2>8. CASE Crash(w)
    <3>1. MostLost' = MostLost + a
      BY <2>8, MostLostStep DEF Crash, a
    <3>2. CASE owner # w
      <4>1. Loose' \subseteq Loose \cup {record[w]}
        BY <2>1, <2>2, <3>2
      <4> QED BY <1>1, <1>4, <1>5, <2>3, <3>1, <4>1
    <3>3. CASE owner = w /\ wpc[w] \notin Working
      <4>1. record[w] = Nobody
        BY <3>3 DEF TypeOK, WorkerTypeOK
      <4>2. Loose' \subseteq Loose \cup Passed
        BY <2>1, <2>2, <4>1
      <4>3. Passed = {} \/ Cardinality(Passed) <= MaxPoll - 1
        BY <3>3, PassedFew
      <4>4. IsFiniteSet(Passed) /\ Cardinality(Passed) <= a
        BY <1>3, <1>4, <2>4, <3>3, <4>3, FS_EmptySet
      <4> QED BY <1>1, <1>4, <1>5, <3>1, <4>2, <4>4
    <3>4. CASE owner = w /\ wpc[w] \in Working
      <4>1. Passed = {} \/ Cardinality(Passed) <= MaxPoll - 2
        BY <3>4, PassedFew DEF Working
      <4>2. /\ IsFiniteSet(Passed \cup {record[w]})
            /\ Cardinality(Passed \cup {record[w]}) <= a
        <5>1. /\ IsFiniteSet(Passed \cup {record[w]})
              /\ Cardinality(Passed \cup {record[w]})
                   \in {Cardinality(Passed), Cardinality(Passed) + 1}
          BY <2>4, <3>4, FS_AddElement
        <5> QED BY <1>3, <1>4, <2>4, <3>4, <4>1, <5>1, FS_EmptySet
      <4>3. Loose' \subseteq Loose \cup (Passed \cup {record[w]})
        BY <2>1, <2>2
      <4> QED BY <1>1, <1>4, <1>5, <3>1, <4>2, <4>3
    <3> QED BY <3>2, <3>3, <3>4
  <2> QED BY <2>5, <2>6, <2>7, <2>8 DEF HandsBack
<1> QED BY <1>7, <1>8, Moves

(* What is lost was loose.                                                 *)
LEMMA LostIsLoose == TypeOK /\ OwnerAhead => Lost \subseteq Loose
<1> SUFFICES ASSUME TypeOK, OwnerAhead, NEW c \in Campaigns, Safe(c)
             PROVE  Handled(c) \/ InTransit(c)
  BY DEF Lost, Loose
<1>1. ASSUME NEW i \in Point + 1 .. Len(log), log[i] = c
      PROVE  InTransit(c)
  <2> USE DEF TypeOK, QueueTypeOK, PositionTypeOK
  <2>1. CASE i \in committed + 1 .. Len(log)
    BY <1>1, <2>1 DEF InTransit
  <2>2. CASE owner \in Workers /\ i \in cursor[owner] + 1 .. position[owner]
    BY <1>1, <2>2 DEF InTransit
  <2>3. owner = Nobody \/ (owner \in Workers /\ committed <= position[owner])
    BY DEF OwnerAhead
  <2>4. \/ i \in committed + 1 .. Len(log)
        \/ owner \in Workers /\ i \in cursor[owner] + 1 .. position[owner]
    BY <2>3 DEF Point
  <2> QED BY <2>1, <2>2, <2>4
<1> QED BY <1>1 DEF Safe, InRedis, InTransit

(* Nothing is loose initially.                                             *)
LEMMA LossInit == Init => BudgetInv /\ RestInv /\ LossInv
<1> SUFFICES ASSUME Init PROVE BudgetInv /\ RestInv /\ LossInv
  OBVIOUS
<1>1. BudgetInv /\ RestInv
  BY ConstantsAssumption DEF Init, BudgetInv, RestInv, InBatch, Kafka, Working,
                             ConstantsAssumption
<1>2. Loose = {}
  BY DEF Init, Loose
<1>3. MostLost \in Nat
  BY <1>1, InitType, MostLostIsNat
<1> QED BY <1>1, <1>2, <1>3, FS_EmptySet DEF LossInv

(* The invariant of the two theorems below.                                *)
LEMMA LossInvariant == Spec => [](TypeOK /\ QueueInv /\ BudgetInv /\ LossInv)
<1>1. TypeOK /\ QueueInv /\ RestInv /\ BudgetInv /\ LossInv /\ [Next]_vars =>
        QueueInv' /\ RestInv' /\ BudgetInv' /\ LossInv'
  BY QueueStep, RestInvStep, BudgetStep, LossStep DEF QueueInv
<1> QED BY <1>1, QueueInit, LossInit, TypeCorrect, PTL DEF Spec

(* An accepted broadcast is not forgotten, but for what crashes, evictions *)
(* and lost dead letters cost: through any number of workers, SIGTERMs,    *)
(* rebalances, roll-backs and lost replies, and batches of any size.       *)
THEOREM LossBounded == Spec => []LossIsBounded
<1>1. TypeOK /\ QueueInv /\ BudgetInv /\ LossInv => LossIsBounded
  <2> SUFFICES ASSUME TypeOK, QueueInv, BudgetInv, LossInv PROVE LossIsBounded
    OBVIOUS
  <2>1. Lost \subseteq Loose /\ IsFiniteSet(Loose) /\ Cardinality(Loose) <= MostLost
    BY LostIsLoose DEF QueueInv, LossInv
  <2>2. Cardinality(Loose) \in Nat /\ MostLost \in Nat
    BY <2>1, FS_CardinalityType, MostLostIsNat
  <2>3. Cardinality(Lost) \in Nat /\ Cardinality(Lost) <= Cardinality(Loose) + 0
    BY <2>1, NotMore
  <2> QED BY <2>1, <2>2, <2>3 DEF LossIsBounded
<1> QED BY <1>1, LossInvariant, PTL

(* Without crashes, evictions and lost dead letters an accepted broadcast  *)
(* is never lost: it is handled, or a queue or a worker still has it.      *)
THEOREM AcceptedIsKept == Spec => [](Faultless => Lost = {})
<1>1. TypeOK /\ QueueInv /\ BudgetInv /\ LossInv => (Faultless => Lost = {})
  <2> SUFFICES ASSUME TypeOK, QueueInv, BudgetInv, LossInv, Faultless
               PROVE  Loose = {}
    BY LostIsLoose DEF QueueInv
  <2>1. \A k \in {"crash", "evict", "dlq"} : Spent(k) = 0
    BY ConstantsAssumption
       DEF Faultless, Spent, FaultKinds, TypeOK, HistoryTypeOK, ConstantsAssumption
  <2>2. MostLost = Max({1, MaxPoll - 1}) * 0 + Max({0, MaxPoll - 2}) * 0 + 0
    BY <2>1 DEF MostLost
  <2>3. MostLost = 0
    BY <2>2, MostLostIsNat
  <2>4. Cardinality(Loose) \in Nat /\ Cardinality(Loose) <= 0
    BY <2>3, FS_CardinalityType DEF LossInv
  <2> QED BY <2>4, FS_EmptySet DEF LossInv
<1> QED BY <1>1, LossInvariant, PTL
=============================================================================
