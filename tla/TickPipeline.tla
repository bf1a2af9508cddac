---------------------------- MODULE TickPipeline ----------------------------
(***************************************************************************)
(* The Automos tick data: the collector pushes each tick at the head of a  *)
(* Redis list, and every interval the storage reads the first batchSize of *)
(* them, writes them to a file and trims the list.  An interval does not   *)
(* wait for the one before it.  Both clients of Redis send a command again *)
(* that has no answer when the connection breaks, as ioredis does unless   *)
(* it is told not to: what Redis has done once it then does once more.     *)
(***************************************************************************)
EXTENDS Integers, Sequences, FiniteSets, SequencesExt

CONSTANTS
  BatchSize,   \* batchSize
  MaxTicks,    \* bound on the ticks
  Intervals,   \* the callbacks of setInterval
  MaxRestarts, \* bound on the restarts of the storage
  MaxBreaks    \* bound on the connections that break before an answer

ASSUME TickAssumption ==
  BatchSize \in Nat \ {0} /\ {MaxTicks, MaxRestarts, MaxBreaks} \subseteq Nat

VARIABLES
  arrived,   \* ticks so far; they are numbered as they come
  collected, \* the one the collector pushed last
  list,      \* the Redis list, newest first
  file,      \* outputPath
  pc,        \* where an interval is: "new", "read", "written", "ended", or "left"
             \* when its process died after it had sent LTRIM
  batch,     \* the ticks it read, until they are written
  again,     \* the intervals whose LTRIM ran and was not answered
  restarts, breaks,
  raced,     \* history: ticks that were pushed while an interval was between
             \* its read and its trim, or in the list when two of them were
  repeated   \* history: how often an LTRIM ran that had run before

tickVars == <<arrived, collected, list, file, pc, batch, again, restarts, breaks, raced, repeated>>

TickInit ==
  /\ arrived = 0 /\ collected = 0 /\ list = <<>> /\ file = <<>>
  /\ pc = [i \in Intervals |-> "new"]
  /\ batch = [i \in Intervals |-> <<>>]
  /\ again = {} /\ restarts = 0 /\ breaks = 0
  /\ raced = {} /\ repeated = 0

Busy == {i \in Intervals : pc[i] \in {"read", "written", "left"}}

(* LPUSH of the next tick, or of one that is sent again; those in between  *)
(* have been given up, or failed to parse, which is logged.                *)
Push ==
  \E n \in collected + 1 .. arrived + 1 :
    /\ n <= MaxTicks
    /\ collected' = n
    /\ arrived' = IF n > arrived THEN n ELSE arrived
    /\ list' = <<n>> \o list
    /\ raced' = IF Busy = {} THEN raced ELSE raced \cup {n}
    /\ UNCHANGED <<file, pc, batch, again, restarts, breaks, repeated>>

(* The collector's connection breaks: whichever of its last pushes had no  *)
(* answer are sent again, in their order.                                  *)
ResendPushes ==
  /\ breaks < MaxBreaks
  /\ breaks' = breaks + 1
  /\ \E n \in 0 .. collected - 1 : collected' = n
  /\ UNCHANGED <<arrived, list, file, pc, batch, again, restarts, raced, repeated>>

Newest(n) == SubSeq(list, 1, IF n < Len(list) THEN n ELSE Len(list))

(* Mutant: the last index of LRANGE taken for a length.                    *)
ReadShort(i) ==
  /\ pc[i] = "new"
  /\ pc' = [pc EXCEPT ![i] = IF list = <<>> THEN "ended" ELSE "read"]
  /\ batch' = [batch EXCEPT ![i] = Newest(BatchSize - 1)]
  /\ raced' = IF list = <<>> \/ Busy = {} THEN raced ELSE raced \cup ToSet(list)
  /\ UNCHANGED <<arrived, collected, list, file, again, restarts, breaks, repeated>>

(* LRANGE 0 batchSize-1; an empty answer ends the interval.  One that is   *)
(* sent again reads again: this is the time that is answered.              *)
ReadBatch(i) ==
  /\ pc[i] = "new"
  /\ pc' = [pc EXCEPT ![i] = IF list = <<>> THEN "ended" ELSE "read"]
  /\ batch' = [batch EXCEPT ![i] = Newest(BatchSize)]
  /\ raced' = IF list = <<>> \/ Busy = {} THEN raced ELSE raced \cup ToSet(list)
  /\ UNCHANGED <<arrived, collected, list, file, again, restarts, breaks, repeated>>

(* The batch is written, its oldest tick first.                            *)
WriteBatch(i) ==
  /\ pc[i] = "read"
  /\ pc' = [pc EXCEPT ![i] = "written"]
  /\ file' = file \o Reverse(batch[i])
  /\ batch' = [batch EXCEPT ![i] = <<>>]
  /\ UNCHANGED <<arrived, collected, list, again, restarts, breaks, raced, repeated>>

(* LTRIM batchSize -1 runs: whatever the first elements now are, they go.  *)
RunTrim(i) ==
  /\ list' = SubSeq(list, BatchSize + 1, Len(list))
  /\ repeated' = IF i \in again THEN repeated + 1 ELSE repeated

(* It is answered, or nobody waits for the answer any more.                *)
Trim(i) ==
  /\ pc[i] \in {"written", "left"}
  /\ pc' = [pc EXCEPT ![i] = "ended"]
  /\ again' = again \ {i}
  /\ RunTrim(i)
  /\ UNCHANGED <<arrived, collected, file, batch, restarts, breaks, raced>>

(* The connection breaks before the answer: the interval waits on, and its *)
(* LTRIM is sent again.                                                    *)
TrimUnanswered(i) ==
  /\ pc[i] = "written" /\ breaks < MaxBreaks
  /\ breaks' = breaks + 1
  /\ again' = again \cup {i}
  /\ RunTrim(i)
  /\ UNCHANGED <<arrived, collected, file, pc, batch, restarts, raced>>

(* The storage dies, of a command given up after its retries, which        *)
(* nothing catches, or otherwise, and is started again; an LTRIM it sent   *)
(* may still reach Redis.                                                  *)
Restart ==
  /\ restarts < MaxRestarts /\ Busy # {}
  /\ restarts' = restarts + 1
  /\ \E underway \in SUBSET {i \in Intervals : pc[i] = "written"} :
       /\ pc' = [i \in Intervals |-> IF i \in underway THEN "left"
                                     ELSE IF pc[i] \in {"read", "written"} THEN "ended"
                                     ELSE pc[i]]
       /\ again' = {i \in again : pc'[i] = "left"}
  /\ batch' = [i \in Intervals |-> <<>>]
  /\ UNCHANGED <<arrived, collected, list, file, breaks, raced, repeated>>

TickNext ==
  \/ Push \/ ResendPushes \/ Restart
  \/ \E i \in Intervals : ReadBatch(i) \/ WriteBatch(i) \/ Trim(i) \/ TrimUnanswered(i)

TickSpec == TickInit /\ [][TickNext]_tickVars

(* The ticks lost without having raced.                                    *)
LostTicks == (1 .. arrived) \ (ToSet(list) \cup ToSet(file) \cup raced)

(***************************************************************************)
(* A tick is lost, neither in the list nor in the file, only if it raced:  *)
(* it was pushed while an interval was between its read and its trim, or   *)
(* was there when two were.  An LTRIM that Redis runs once more, because   *)
(* its answer was lost, costs at most one batch of others; neither a crash *)
(* nor a full batch nor a push that is sent again costs any.               *)
(***************************************************************************)
TickLossIsBounded == Cardinality(LostTicks) <= BatchSize * repeated
=============================================================================
