------------------------------ MODULE MpscRing ------------------------------
(***************************************************************************)
(* MpscRing (zBAutomos/hft/include/mpsc_ring.hpp): a bounded queue with    *)
(* many pushing threads, one popping thread and no locks, driven as        *)
(* ring_demo.cpp does: each producer pushes its elements in order and      *)
(* retries a push that found the ring full.                                *)
(*                                                                         *)
(* A step is one access to a variable that threads share.  The release     *)
(* stores of a cell's seq and the acquire loads that read them order the   *)
(* accesses to its data; NoDataRace checks that no others are needed.      *)
(* The 64-bit counters do not wrap in the life of a process.               *)
(***************************************************************************)
EXTENDS Integers, Sequences

CONSTANTS
  Producers,    \* the pushing threads
  PerProducer,  \* kPerProducer: how many elements each pushes
  Capacity,     \* CapacityPow2
  Garbage       \* what an unused cell and an unset variable hold

(* The first static_assert of the class.                                   *)
ASSUME RingAssumption ==
  /\ Capacity \in Nat \ {0}
  /\ \E n \in 0 .. Capacity : Capacity = 2 ^ n
  /\ PerProducer \in Nat

VARIABLES
  head,      \* head_
  tail,      \* tail_, the consumer's own
  seq,       \* cells_[i].seq
  data,      \* cells_[i].data
  ppc, pos,  \* a producer in push(): where it is, and its variable pos
  pushed,    \* how many elements it has pushed
  cpc, out,  \* the consumer in pop(): where it is, and its variable out
  items,     \* history: the elements in the order of their positions
  taken      \* history: the elements pop() returned

ringVars     == <<head, tail, seq, data>>
producerVars == <<ppc, pos, pushed>>
consumerVars == <<cpc, out>>
historyVars  == <<items, taken>>
vars == <<ringVars, producerVars, consumerVars, historyVars>>

Slots == 0 .. Capacity - 1

(* pos & mask_, for a capacity that is a power of two.                     *)
Slot(p) == p % Capacity

Elements == Producers \X (1 .. PerProducer)

(* What a producer is pushing.                                             *)
Element(p) == <<p, pushed[p] + 1>>

(* The first position that is not free to be reserved again: pop gives its *)
(* cell back before it advances tail_.                                     *)
Oldest == IF cpc = "advance" THEN tail + 1 ELSE tail

(* The ring as a queue of tickets, one per reserved position.              *)
Ticket(q) == [element |-> items[q + 1], ready |-> seq[Slot(q)] = q + 1]
Tickets == [i \in 1 .. head - Oldest |-> Ticket(Oldest + i - 1)]

Queue == INSTANCE TicketQueue WITH queue <- Tickets

(***************************************************************************)
(* push()                                                                  *)
(***************************************************************************)
BeginPush(p) ==
  /\ ppc[p] = "idle"
  /\ pushed[p] < PerProducer
  /\ pos' = [pos EXCEPT ![p] = head]
  /\ ppc' = [ppc EXCEPT ![p] = "seq"]
  /\ UNCHANGED <<ringVars, pushed, consumerVars, historyVars>>

(* Mutant of LoadSeq: a stale pos counts as a full ring.                   *)
LoadSeqStrictly(p) ==
  /\ ppc[p] = "seq"
  /\ ppc' = [ppc EXCEPT ![p] =
               IF seq[Slot(pos[p])] = pos[p] THEN "cas" ELSE "idle"]
  /\ UNCHANGED <<ringVars, pos, pushed, consumerVars, historyVars>>

(* The cell is free for this position; or a pop has to free it first, and  *)
(* push returns false; or another push has the position.                   *)
LoadSeq(p) ==
  /\ ppc[p] = "seq"
  /\ LET diff == seq[Slot(pos[p])] - pos[p]
     IN ppc' = [ppc EXCEPT ![p] = IF diff = 0 THEN "cas"
                                  ELSE IF diff < 0 THEN "idle" ELSE "reload"]
  /\ UNCHANGED <<ringVars, pos, pushed, consumerVars, historyVars>>

Reload(p) ==
  /\ ppc[p] = "reload"
  /\ pos' = [pos EXCEPT ![p] = head]
  /\ ppc' = [ppc EXCEPT ![p] = "seq"]
  /\ UNCHANGED <<ringVars, pushed, consumerVars, historyVars>>

(* Mutant of Reserve: a plain store in place of the compare-and-exchange.  *)
ReserveBlindly(p) ==
  /\ ppc[p] = "cas"
  /\ head' = pos[p] + 1
  /\ items' = [i \in 1 .. pos[p] + 1 |->
                 IF i = pos[p] + 1 THEN Element(p) ELSE items[i]]
  /\ ppc' = [ppc EXCEPT ![p] = "write"]
  /\ UNCHANGED <<tail, seq, data, pos, pushed, consumerVars, taken>>

(* compare_exchange_weak succeeds.                                         *)
Reserve(p) ==
  /\ ppc[p] = "cas"
  /\ head = pos[p]
  /\ head' = head + 1
  /\ items' = Append(items, Element(p))
  /\ ppc' = [ppc EXCEPT ![p] = "write"]
  /\ UNCHANGED <<tail, seq, data, pos, pushed, consumerVars, taken>>

(* It fails, for another push or spuriously, and loads head_ into pos.     *)
ReserveFails(p) ==
  /\ ppc[p] = "cas"
  /\ pos' = [pos EXCEPT ![p] = head]
  /\ ppc' = [ppc EXCEPT ![p] = "seq"]
  /\ UNCHANGED <<ringVars, pushed, consumerVars, historyVars>>

(* Mutant of Write: the cell is published before its data is there.        *)
PublishFirst(p) ==
  /\ ppc[p] = "write"
  /\ seq' = [seq EXCEPT ![Slot(pos[p])] = pos[p] + 1]
  /\ ppc' = [ppc EXCEPT ![p] = "publish"]
  /\ UNCHANGED <<head, tail, data, pos, pushed, consumerVars, historyVars>>

Write(p) ==
  /\ ppc[p] = "write"
  /\ data' = [data EXCEPT ![Slot(pos[p])] = Element(p)]
  /\ ppc' = [ppc EXCEPT ![p] = "publish"]
  /\ UNCHANGED <<head, tail, seq, pos, pushed, consumerVars, historyVars>>

(* The release store of seq; push returns true.                            *)
Publish(p) ==
  /\ ppc[p] = "publish"
  /\ seq' = [seq EXCEPT ![Slot(pos[p])] = pos[p] + 1]
  /\ pushed' = [pushed EXCEPT ![p] = @ + 1]
  /\ ppc' = [ppc EXCEPT ![p] = "idle"]
  /\ UNCHANGED <<head, tail, data, pos, consumerVars, historyVars>>

(***************************************************************************)
(* pop()                                                                   *)
(***************************************************************************)
(* The acquire load of seq; on any other value pop returns false and the   *)
(* demo calls it again.                                                    *)
BeginPop ==
  /\ cpc = "seq"
  /\ seq[Slot(tail)] = tail + 1
  /\ cpc' = "read"
  /\ UNCHANGED <<ringVars, producerVars, out, historyVars>>

Read ==
  /\ cpc = "read"
  /\ out' = data[Slot(tail)]
  /\ cpc' = "free"
  /\ UNCHANGED <<ringVars, producerVars, historyVars>>

(* Mutant of Free: the cell is left for a position that has passed.        *)
FreeForSame ==
  /\ cpc = "free"
  /\ seq' = [seq EXCEPT ![Slot(tail)] = tail]
  /\ taken' = Append(taken, out)
  /\ cpc' = "advance"
  /\ UNCHANGED <<head, tail, data, producerVars, out, items>>

(* The release store that gives the cell to the push one lap later.        *)
Free ==
  /\ cpc = "free"
  /\ seq' = [seq EXCEPT ![Slot(tail)] = tail + Capacity]
  /\ taken' = Append(taken, out)
  /\ cpc' = "advance"
  /\ UNCHANGED <<head, tail, data, producerVars, out, items>>

Advance ==
  /\ cpc = "advance"
  /\ tail' = tail + 1
  /\ cpc' = "seq"
  /\ UNCHANGED <<head, seq, data, producerVars, out, historyVars>>

(***************************************************************************)
(* The specification                                                       *)
(***************************************************************************)
Init ==
  /\ head = 0
  /\ tail = 0
  /\ seq = [i \in Slots |-> i]
  /\ data = [i \in Slots |-> Garbage]
  /\ ppc = [p \in Producers |-> "idle"]
  /\ pos = [p \in Producers |-> 0]
  /\ pushed = [p \in Producers |-> 0]
  /\ cpc = "seq"
  /\ out = Garbage
  /\ items = <<>>
  /\ taken = <<>>

ProducerStep(p) ==
  \/ BeginPush(p)
  \/ LoadSeq(p)
  \/ Reload(p)
  \/ Reserve(p)
  \/ ReserveFails(p)
  \/ Write(p)
  \/ Publish(p)

ConsumerStep == BeginPop \/ Read \/ Free \/ Advance

(* Every producer is done, and the consumer found the ring empty.          *)
Finished ==
  /\ \A p \in Producers : ppc[p] = "idle" /\ pushed[p] = PerProducer
  /\ cpc = "seq"
  /\ tail = head
  /\ UNCHANGED vars

Next ==
  \/ \E p \in Producers : ProducerStep(p)
  \/ ConsumerStep
  \/ Finished

Spec == Init /\ [][Next]_vars

(* Fairness: threads run, and compare-and-exchanges do not fail for ever   *)
(* while none succeeds.                                                    *)
FairSpec ==
  /\ Spec
  /\ WF_vars(ConsumerStep)
  /\ \A p \in Producers : WF_vars(ProducerStep(p))
  /\ SF_vars(\E p \in Producers : Reserve(p))

(***************************************************************************)
(* Properties                                                              *)
(***************************************************************************)
TypeOK ==
  /\ head \in Nat
  /\ tail \in Nat
  /\ seq \in [Slots -> Nat]
  /\ data \in [Slots -> Elements \cup {Garbage}]
  /\ ppc \in [Producers -> {"idle", "seq", "cas", "reload", "write", "publish"}]
  /\ pos \in [Producers -> Nat]
  /\ pushed \in [Producers -> 0 .. PerProducer]
  /\ \A p \in Producers : ppc[p] # "idle" => pushed[p] < PerProducer
  /\ cpc \in {"seq", "read", "free", "advance"}
  /\ out \in Elements \cup {Garbage}
  /\ items \in Seq(Elements)
  /\ taken \in Seq(Elements)

Writing(p) == ppc[p] \in {"write", "publish"}
Reading == cpc \in {"read", "free"}

(* No cell is written by two threads, or written and read, at a time: the  *)
(* plain accesses to data are ordered by seq alone.                        *)
NoDataRace ==
  \A p \in Producers : Writing(p) =>
    /\ Reading => Slot(pos[p]) # Slot(tail)
    /\ \A q \in Producers \ {p} : Writing(q) => Slot(pos[q]) # Slot(pos[p])

(* No push gets the cell of an element that was not popped: the ring holds *)
(* at most Capacity elements, which is what size_approx() returns to the   *)
(* consumer between two pops.                                              *)
OccupancyBounded == head - Oldest \in 0 .. Capacity

(* A push returns false only when the ring is full, however old the value  *)
(* of head_ it works with.                                                 *)
RefusedOnlyWhenFull ==
  [][\A p \in Producers :
       ppc[p] = "seq" /\ ppc'[p] = "idle" => head - Oldest >= Capacity]_vars

(* The ring is a queue of tickets: nothing is lost, repeated, reordered or *)
(* torn.                                                                   *)
ImplementsQueue == Queue!TicketSpec

(* Once a producer has begun, all elements of all producers are pushed and *)
(* popped in the end.                                                      *)
EverythingArrives ==
  (\E p \in Producers : ppc[p] # "idle") ~>
    (tail = head /\ \A p \in Producers : pushed[p] = PerProducer)
=============================================================================
