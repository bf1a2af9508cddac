---------------------------- MODULE TicketQueue -----------------------------
(***************************************************************************)
(* What MpscRing promises its users: a bounded first-in first-out queue    *)
(* whose pushes take effect in two steps.  A push first takes a ticket,    *)
(* which fixes its place in the order, and its element can be popped only  *)
(* once it was published.  A published element behind one that is still    *)
(* pending has to wait: pop then says "empty" although it is not.          *)
(***************************************************************************)
EXTENDS Naturals, Sequences

CONSTANTS
  Capacity,   \* how many elements fit
  Elements

VARIABLES
  queue,      \* tickets in order: [element |-> e, ready |-> published or not]
  taken       \* what the pops returned so far

TicketInit == queue = <<>> /\ taken = <<>>

TakeTicket(e) ==
  /\ Len(queue) < Capacity
  /\ queue' = Append(queue, [element |-> e, ready |-> FALSE])
  /\ UNCHANGED taken

PublishTicket(i) ==
  /\ ~queue[i].ready
  /\ queue' = [queue EXCEPT ![i] = [element |-> queue[i].element,
                                    ready |-> TRUE]]
  /\ UNCHANGED taken

Pop ==
  /\ queue # <<>>
  /\ Head(queue).ready
  /\ taken' = Append(taken, Head(queue).element)
  /\ queue' = Tail(queue)

TicketNext ==
  \/ \E e \in Elements : TakeTicket(e)
  \/ \E i \in 1 .. Len(queue) : PublishTicket(i)
  \/ Pop

TicketSpec == TicketInit /\ [][TicketNext]_<<queue, taken>>
=============================================================================
