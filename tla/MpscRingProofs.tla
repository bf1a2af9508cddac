--------------------------- MODULE MpscRingProofs ---------------------------
(***************************************************************************)
(* What TLAPS proves of MpscRing, for any number of producers and elements *)
(* and any capacity above one: there are no data races, a push refused     *)
(* means a full ring, and the ring implements a queue of tickets.          *)
(***************************************************************************)
EXTENDS MpscRing, TLAPS

(***************************************************************************)
(* Positions and slots                                                     *)
(***************************************************************************)
(* Division with remainder.                                                *)
LEMMA DivMod ==
  ASSUME NEW C \in Nat, C > 0, NEW p \in Nat
  PROVE  p = C * (p \div C) + (p % C) /\ p % C \in 0 .. C - 1 /\ p \div C \in Int
OBVIOUS

(* A multiple of C that is less than C in absolute value is zero.          *)
LEMMA SmallMultiple ==
  ASSUME NEW C \in Nat, C > 0, NEW m \in Int, C * m < C, -C < C * m
  PROVE  m = 0
<1>1. m >= 1 => C * m >= C
  OBVIOUS
<1>2. m <= -1 => C * m <= -C
  OBVIOUS
<1> QED BY <1>1, <1>2

(* Positions less than a lap apart have different slots.                   *)
LEMMA SlotsApart ==
  ASSUME NEW p \in Nat, NEW q \in Nat, Slot(p) = Slot(q),
         p < q + Capacity, q < p + Capacity
  PROVE  p = q
<1> DEFINE k == p \div Capacity
           l == q \div Capacity
           r == p % Capacity
<1>1. Capacity \in Nat /\ Capacity > 0
  BY RingAssumption DEF RingAssumption
<1>2. p = Capacity * k + r /\ q = Capacity * l + r /\ k \in Int /\ l \in Int
      /\ r \in Int
  BY <1>1, DivMod DEF Slot
<1> HIDE DEF k, l, r
<1>3. q - p = Capacity * (l - k)
  BY <1>1, <1>2
<1>4. l - k = 0
  BY <1>1, <1>2, <1>3, SmallMultiple
<1> QED BY <1>1, <1>2, <1>4

(* A lap later the slot is the same.                                       *)
LEMMA NextLap ==
  ASSUME NEW p \in Nat
  PROVE  Slot(p + Capacity) = Slot(p)
<1> DEFINE k == p \div Capacity
           l == (p + Capacity) \div Capacity
           r == p % Capacity
           t == (p + Capacity) % Capacity
<1>1. Capacity \in Nat /\ Capacity > 0 /\ p + Capacity \in Nat
  BY RingAssumption DEF RingAssumption
<1>2. /\ p = Capacity * k + r /\ k \in Int /\ r \in 0 .. Capacity - 1
      /\ p + Capacity = Capacity * l + t /\ l \in Int /\ t \in 0 .. Capacity - 1
  BY <1>1, DivMod
<1> HIDE DEF k, l, r, t
<1>3. Capacity * (l - k - 1) = r - t
  BY <1>1, <1>2
<1>4. l - k - 1 = 0
  BY <1>1, <1>2, <1>3, SmallMultiple
<1>5. r = t
  BY <1>1, <1>2, <1>3, <1>4
<1> QED BY <1>5 DEF Slot, r, t

(* A slot is an index of the array of cells.                               *)
LEMMA SlotType ==
  ASSUME NEW p \in Nat
  PROVE  Slot(p) \in Slots
BY RingAssumption, DivMod DEF RingAssumption, Slot, Slots

(***************************************************************************)
(* The inductive invariant                                                 *)
(***************************************************************************)
(* The positions that own a cell: each of the lap that starts at Oldest.   *)
Window == Oldest .. Oldest + Capacity - 1

CountersInv ==
  /\ Oldest <= head
  /\ head <= Oldest + Capacity
  /\ Len(items) = head
  /\ Len(taken) = Oldest

(* The cell of a position is free or, once reserved, pending or published; *)
(* what is published is the element of that position.                      *)
CellsInv == \A q \in Window :
  /\ seq[Slot(q)] \in {q, q + 1}
  /\ q >= head => seq[Slot(q)] = q
  /\ seq[Slot(q)] = q + 1 => data[Slot(q)] = items[q + 1]

(* A writing producer has a pending position of its own.                   *)
WritersInv == \A p \in Producers : Writing(p) =>
  /\ Oldest <= pos[p] /\ pos[p] < head
  /\ seq[Slot(pos[p])] = pos[p]
  /\ items[pos[p] + 1] = Element(p)
  /\ ppc[p] = "publish" => data[Slot(pos[p])] = Element(p)
  /\ \A q \in Producers \ {p} : Writing(q) => pos[q] # pos[p]

(* A producer about to reserve has seen the cell of its position free, and *)
(* no cell is ever behind a position the window has reached.               *)
TriersInv == \A p \in Producers :
  /\ pos[p] <= head
  /\ ppc[p] = "cas" => pos[p] < Oldest + Capacity
  /\ pos[p] < Oldest + Capacity => pos[p] <= seq[Slot(pos[p])]

(* The consumer reads the published element at tail.                       *)
ReaderInv ==
  /\ Reading => seq[Slot(tail)] = tail + 1 /\ tail < head
  /\ cpc = "free" => out = items[tail + 1]
  /\ cpc = "advance" => tail < head

IInv ==
  /\ TypeOK
  /\ CountersInv
  /\ CellsInv
  /\ WritersInv
  /\ TriersInv
  /\ ReaderInv

(***************************************************************************)
(* Every action keeps it                                                   *)
(***************************************************************************)
(* Oldest is a position, and the capacity a positive number.               *)
LEMMA Numbers ==
  ASSUME IInv
  PROVE  /\ Oldest \in Nat /\ head \in Nat /\ tail \in Nat
         /\ Capacity \in Nat /\ Capacity > 0
         /\ PerProducer \in Nat
         /\ \A p \in Producers : pos[p] \in Nat
         /\ \A q \in Window : q \in Nat /\ Slot(q) \in Slots
         /\ \A p \in Producers : Slot(pos[p]) \in Slots
<1>1. Oldest \in Nat /\ head \in Nat /\ tail \in Nat
  BY DEF IInv, TypeOK, Oldest
<1>2. Capacity \in Nat /\ Capacity > 0 /\ PerProducer \in Nat
  BY RingAssumption DEF RingAssumption
<1>3. \A p \in Producers : pos[p] \in Nat
  BY DEF IInv, TypeOK
<1>4. \A q \in Window : q \in Nat
  BY <1>1, <1>2 DEF Window
<1> QED BY <1>1, <1>2, <1>3, <1>4, SlotType

(* The positions of a window have slots of their own.                      *)
LEMMA WindowApart ==
  ASSUME IInv, NEW q \in Window, NEW r \in Window, Slot(q) = Slot(r)
  PROVE  q = r
BY Numbers, SlotsApart DEF Window

(* The elements a producer pushes are elements.                            *)
LEMMA ElementType ==
  ASSUME IInv, NEW p \in Producers, ppc[p] # "idle"
  PROVE  Element(p) \in Elements
<1>1. pushed[p] + 1 \in 1 .. PerProducer
  BY Numbers DEF IInv, TypeOK
<1> QED BY <1>1 DEF Element, Elements

(* The invariant holds of an empty ring.                                   *)
LEMMA InitInv == Init => IInv
<1> SUFFICES ASSUME Init PROVE IInv
  OBVIOUS
<1>1. Capacity \in Nat /\ Capacity > 0 /\ PerProducer \in Nat
  BY RingAssumption DEF RingAssumption
<1>2. TypeOK
  BY <1>1 DEF Init, TypeOK, Slots
<1>3. Oldest = 0
  BY DEF Init, Oldest
<1>4. \A q \in Window : q \in Slots /\ Slot(q) = q
  <2> SUFFICES ASSUME NEW q \in Window PROVE q \in Slots /\ Slot(q) = q
    OBVIOUS
  <2> DEFINE k == q \div Capacity
             r == q % Capacity
  <2>1. q \in 0 .. Capacity - 1
    BY <1>1, <1>3 DEF Window
  <2>2. q = Capacity * k + r /\ r \in 0 .. Capacity - 1 /\ k \in Int
    BY <1>1, <2>1, DivMod
  <2> HIDE DEF k, r
  <2>3. Capacity * k < Capacity /\ -Capacity < Capacity * k
    BY <1>1, <2>1, <2>2
  <2>4. k = 0
    BY <1>1, <2>2, <2>3, SmallMultiple
  <2>5. q = r
    BY <1>1, <2>1, <2>2, <2>4
  <2> QED BY <2>1, <2>5 DEF Slots, Slot, r
<1>5. CountersInv /\ WritersInv /\ TriersInv /\ ReaderInv
  <2>1. Slot(0) \in Slots
    BY SlotType
  <2>2. seq[Slot(0)] \in Nat
    BY <1>2, <2>1 DEF TypeOK
  <2> QED BY <1>1, <1>3, <2>2
      DEF Init, CountersInv, WritersInv, TriersInv, ReaderInv, Writing, Reading
<1>6. CellsInv
  BY <1>1, <1>3, <1>4 DEF Init, CellsInv, Window
<1> QED BY <1>2, <1>5, <1>6 DEF IInv

(* A push that starts, or starts over, from the present head.              *)
LEMMA StartOverInv ==
  ASSUME IInv, NEW p \in Producers, BeginPush(p) \/ Reload(p) \/ ReserveFails(p)
  PROVE  IInv'
<1>0. /\ ppc[p] \in {"idle", "reload", "cas"} /\ pushed[p] < PerProducer
      /\ pos' = [pos EXCEPT ![p] = head]
      /\ ppc' = [ppc EXCEPT ![p] = "seq"]
      /\ UNCHANGED <<head, tail, seq, data, pushed, cpc, out, items, taken>>
  <2>1. ppc[p] # "idle" => pushed[p] < PerProducer
    BY DEF IInv, TypeOK
  <2>2. CASE BeginPush(p)
    BY <2>2 DEF BeginPush, ringVars, consumerVars, historyVars
  <2>3. CASE Reload(p)
    BY <2>1, <2>3 DEF Reload, ringVars, consumerVars, historyVars
  <2>4. CASE ReserveFails(p)
    BY <2>1, <2>4 DEF ReserveFails, ringVars, consumerVars, historyVars
  <2> QED BY <2>2, <2>3, <2>4
<1>1. TypeOK'
  BY <1>0 DEF IInv, TypeOK
<1>2. CountersInv' /\ CellsInv' /\ ReaderInv'
  BY <1>0 DEF IInv, CountersInv, CellsInv, ReaderInv, Window, Reading, Oldest
<1>3. WritersInv'
  <2>1. ~Writing(p) /\ ~Writing(p)'
    BY <1>0 DEF IInv, TypeOK, Writing
  <2>2. \A q \in Producers \ {p} : ppc'[q] = ppc[q] /\ pos'[q] = pos[q]
    BY <1>0 DEF IInv, TypeOK
  <2>3. Oldest' = Oldest /\ Element(p)' = Element(p)
    BY <1>0 DEF Oldest, Element
  <2>4. ASSUME NEW r \in Producers, Writing(r)'
        PROVE  /\ r # p /\ Writing(r) /\ pos'[r] = pos[r] /\ ppc'[r] = ppc[r]
               /\ Element(r)' = Element(r)
    BY <1>0, <2>1, <2>2, <2>4 DEF Writing, Element
  <2>5. ASSUME NEW r \in Producers, Writing(r)'
        PROVE  /\ Oldest <= pos[r] /\ pos[r] < head
               /\ seq[Slot(pos[r])] = pos[r]
               /\ items[pos[r] + 1] = Element(r)
               /\ ppc[r] = "publish" => data[Slot(pos[r])] = Element(r)
               /\ \A q \in Producers \ {r} : Writing(q) => pos[q] # pos[r]
    BY <2>4, <2>5 DEF IInv, WritersInv
  <2> QED BY <1>0, <2>3, <2>4, <2>5 DEF WritersInv
<1>4. TriersInv'
  <2>1. ppc'[p] = "seq" /\ pos'[p] = head
    BY <1>0 DEF IInv, TypeOK
  <2>2. \A q \in Producers \ {p} : ppc'[q] = ppc[q] /\ pos'[q] = pos[q]
    BY <1>0 DEF IInv, TypeOK
  <2>3. head < Oldest + Capacity => head <= seq[Slot(head)]
    BY Numbers DEF IInv, CountersInv, CellsInv, Window
  <2> QED BY <1>0, <2>1, <2>2, <2>3, Numbers DEF IInv, TriersInv, Oldest
<1> QED BY <1>1, <1>2, <1>3, <1>4 DEF IInv

(* A look at the cell: what it finds free is free for this lap.            *)
LEMMA LoadSeqInv ==
  ASSUME Capacity > 1, IInv, NEW p \in Producers, LoadSeq(p)
  PROVE  IInv'
<1> USE Numbers DEF LoadSeq, ringVars, consumerVars, historyVars, Oldest
<1>1. TypeOK'
  BY DEF IInv, TypeOK
<1>2. CountersInv' /\ CellsInv' /\ ReaderInv'
  BY DEF IInv, CountersInv, CellsInv, ReaderInv, Window, Reading
<1>3. WritersInv'
  BY DEF IInv, TypeOK, WritersInv, Writing, Element
<1>4. TriersInv'
  <2>1. ASSUME seq[Slot(pos[p])] = pos[p] PROVE pos[p] < Oldest + Capacity
    <3>1. pos[p] <= Oldest + Capacity
      BY DEF IInv, TriersInv, CountersInv
    <3>2. CASE pos[p] = Oldest + Capacity
      <4>1. Slot(pos[p]) = Slot(Oldest) /\ Oldest \in Window
        BY <3>2, NextLap DEF Window
      <4>2. seq[Slot(Oldest)] \in {Oldest, Oldest + 1}
        BY <4>1 DEF IInv, CellsInv
      <4> QED BY <2>1, <3>2, <4>1, <4>2
    <3> QED BY <3>1, <3>2
  <2>2. seq[Slot(pos[p])] \in Nat /\ pos[p] \in Nat
    BY DEF IInv, TypeOK
  <2>3. ppc'[p] = "cas" => seq[Slot(pos[p])] = pos[p]
    BY <2>2 DEF IInv, TypeOK
  <2> QED BY <2>1, <2>3 DEF IInv, TypeOK, TriersInv
<1> QED BY <1>1, <1>2, <1>3, <1>4 DEF IInv

(* A reservation: the cell at head is free, and now pending.               *)
LEMMA ReserveInv ==
  ASSUME IInv, NEW p \in Producers, Reserve(p)
  PROVE  IInv'
<1> USE Numbers DEF Reserve, consumerVars, Oldest
<1>0. pos[p] = head /\ head < Oldest + Capacity /\ head \in Window
      /\ seq[Slot(head)] = head
  BY DEF IInv, TriersInv, CountersInv, CellsInv, Window
<1>1. Element(p) \in Elements
  BY ElementType
<1>2. TypeOK'
  BY <1>1 DEF IInv, TypeOK
<1>3. /\ Len(items') = head + 1
      /\ items'[head + 1] = Element(p)
      /\ \A i \in 1 .. head : items'[i] = items[i]
  BY <1>1 DEF IInv, TypeOK, CountersInv
<1>4. CountersInv'
  BY <1>0, <1>3 DEF IInv, CountersInv
<1>5. CellsInv'
  <2> SUFFICES ASSUME NEW q \in Window
      PROVE  /\ seq[Slot(q)] \in {q, q + 1}
             /\ q >= head + 1 => seq[Slot(q)] = q
             /\ seq[Slot(q)] = q + 1 => data[Slot(q)] = items'[q + 1]
    BY DEF CellsInv, Window
  <2>1. q \in Nat
    OBVIOUS
  <2>2. seq[Slot(q)] = q + 1 => q + 1 \in 1 .. head
    BY <2>1 DEF IInv, CellsInv
  <2> QED BY <1>3, <2>1, <2>2 DEF IInv, CellsInv
<1>6. WritersInv'
  <2>1. \A q \in Producers : Writing(q)' <=> q = p \/ Writing(q)
    BY DEF IInv, TypeOK, Writing
  <2>2. \A q \in Producers : Element(q)' = Element(q)
    BY DEF Element
  <2>3. ASSUME NEW q \in Producers, Writing(q)
        PROVE  q # p /\ pos[q] + 1 \in 1 .. head /\ pos[q] # pos[p]
    BY <1>0, <2>3 DEF IInv, WritersInv, Writing
  <2>4. ppc'[p] = "write" /\ \A q \in Producers \ {p} : ppc'[q] = ppc[q]
    BY DEF IInv, TypeOK
  <2>5. Oldest <= head
    BY DEF IInv, CountersInv
  <2> QED BY <1>0, <1>3, <2>1, <2>2, <2>3, <2>4, <2>5 DEF IInv, WritersInv
<1>7. TriersInv'
  BY DEF IInv, TypeOK, TriersInv
<1>8. ReaderInv'
  <2>1. Reading => tail + 1 \in 1 .. head
    BY DEF IInv, ReaderInv
  <2> QED BY <1>3, <2>1 DEF IInv, ReaderInv, Reading
<1> QED BY <1>2, <1>4, <1>5, <1>6, <1>7, <1>8 DEF IInv

(* A writing producer's position is in the window, at a slot of its own.   *)
LEMMA WriterAlone ==
  ASSUME IInv, NEW p \in Producers, Writing(p)
  PROVE  /\ pos[p] \in Window
         /\ \A q \in Window : q # pos[p] => Slot(q) # Slot(pos[p])
         /\ \A r \in Producers \ {p} :
              Writing(r) => pos[r] \in Window /\ Slot(pos[r]) # Slot(pos[p])
         /\ Reading => tail \in Window /\ Slot(tail) # Slot(pos[p])
<1>1. \A r \in Producers : Writing(r) => pos[r] \in Window
  BY Numbers DEF IInv, WritersInv, CountersInv, Window
<1>2. \A q \in Window : q # pos[p] => Slot(q) # Slot(pos[p])
  BY <1>1, WindowApart
<1>3. \A r \in Producers \ {p} : Writing(r) => pos[r] # pos[p]
  BY DEF IInv, WritersInv
<1>4. Reading => tail \in Window /\ tail # pos[p]
  <2> SUFFICES ASSUME Reading PROVE tail \in Window /\ tail # pos[p]
    OBVIOUS
  <2>1. Oldest = tail
    BY DEF Reading, Oldest
  <2>2. tail \in Window
    BY <2>1, Numbers DEF Window
  <2>3. seq[Slot(tail)] = tail + 1 /\ seq[Slot(pos[p])] = pos[p]
    BY DEF IInv, ReaderInv, WritersInv
  <2> QED BY <2>2, <2>3, Numbers
<1> QED BY <1>1, <1>2, <1>3, <1>4

(* Writing the data of a pending cell.                                     *)
LEMMA WriteInv ==
  ASSUME IInv, NEW p \in Producers, Write(p)
  PROVE  IInv'
<1> USE Numbers DEF Write, consumerVars, historyVars, Oldest
<1>0. Writing(p) /\ Element(p) \in Elements
  BY ElementType DEF Writing
<1>1. /\ ppc'[p] = "publish"
      /\ \A q \in Producers \ {p} : ppc'[q] = ppc[q]
      /\ \A q \in Producers : Writing(q)' <=> Writing(q)
  BY <1>0 DEF IInv, TypeOK, Writing
<1>2. /\ data'[Slot(pos[p])] = Element(p)
      /\ \A i \in Slots : i # Slot(pos[p]) => data'[i] = data[i]
  BY DEF IInv, TypeOK
<1>3. TypeOK'
  BY <1>0 DEF IInv, TypeOK
<1>4. CountersInv' /\ TriersInv'
  BY <1>1 DEF IInv, CountersInv, TriersInv
<1>5. CellsInv'
  <2> SUFFICES ASSUME NEW q \in Window
      PROVE  /\ seq[Slot(q)] \in {q, q + 1}
             /\ q >= head => seq[Slot(q)] = q
             /\ seq[Slot(q)] = q + 1 => data'[Slot(q)] = items[q + 1]
    BY DEF CellsInv, Window
  <2>1. CASE q = pos[p]
    <3>1. seq[Slot(q)] = q
      BY <1>0, <2>1 DEF IInv, WritersInv
    <3> QED BY <3>1 DEF IInv, CellsInv
  <2>2. CASE q # pos[p]
    BY <1>0, <1>2, <2>2, WriterAlone DEF IInv, CellsInv
  <2> QED BY <2>1, <2>2
<1>6. WritersInv'
  <2>1. \A q \in Producers : Element(q)' = Element(q)
    BY DEF Element
  <2>2. \A q \in Producers \ {p} :
          Writing(q) => data'[Slot(pos[q])] = data[Slot(pos[q])]
    BY <1>0, <1>2, WriterAlone
  <2> QED BY <1>0, <1>1, <1>2, <2>1, <2>2 DEF IInv, WritersInv
<1>7. ReaderInv'
  BY DEF IInv, ReaderInv, Reading
<1> QED BY <1>3, <1>4, <1>5, <1>6, <1>7 DEF IInv

(* Publishing it: the cell holds the element of its position.              *)
LEMMA PublishInv ==
  ASSUME IInv, NEW p \in Producers, Publish(p)
  PROVE  IInv'
<1> USE Numbers DEF Publish, consumerVars, historyVars, Oldest
<1>0. Writing(p) /\ pushed[p] < PerProducer
  BY DEF IInv, TypeOK, Writing
<1>1. /\ ppc'[p] = "idle"
      /\ \A q \in Producers \ {p} :
           ppc'[q] = ppc[q] /\ pushed'[q] = pushed[q]
      /\ \A q \in Producers : Writing(q)' <=> q # p /\ Writing(q)
  BY DEF IInv, TypeOK, Writing
<1>2. /\ seq'[Slot(pos[p])] = pos[p] + 1
      /\ \A i \in Slots : i # Slot(pos[p]) => seq'[i] = seq[i]
  BY DEF IInv, TypeOK
<1>3. TypeOK'
  BY <1>0 DEF IInv, TypeOK
<1>4. CountersInv' /\ TriersInv'
  <2>1. \A i \in Slots : seq[i] <= seq'[i] /\ seq[i] \in Nat /\ seq'[i] \in Nat
    <3>1. seq[Slot(pos[p])] = pos[p]
      BY <1>0 DEF IInv, WritersInv
    <3> QED BY <1>2, <3>1 DEF IInv, TypeOK
  <2>2. \A q \in Producers : ppc'[q] = "cas" => ppc[q] = "cas"
    BY <1>1
  <2> QED BY <2>1, <2>2 DEF IInv, CountersInv, TriersInv
<1>5. CellsInv'
  <2> SUFFICES ASSUME NEW q \in Window
      PROVE  /\ seq'[Slot(q)] \in {q, q + 1}
             /\ q >= head => seq'[Slot(q)] = q
             /\ seq'[Slot(q)] = q + 1 => data[Slot(q)] = items[q + 1]
    BY DEF CellsInv, Window
  <2>1. CASE q = pos[p]
    <3>1. q < head /\ data[Slot(q)] = items[q + 1]
      BY <1>0, <2>1 DEF IInv, WritersInv
    <3> QED BY <1>2, <2>1, <3>1
  <2>2. CASE q # pos[p]
    BY <1>0, <1>2, <2>2, WriterAlone DEF IInv, CellsInv
  <2> QED BY <2>1, <2>2
<1>6. WritersInv'
  <2>1. \A q \in Producers \ {p} : Element(q)' = Element(q)
    BY <1>1 DEF Element
  <2>2. \A q \in Producers \ {p} :
          Writing(q) => seq'[Slot(pos[q])] = seq[Slot(pos[q])]
    BY <1>0, <1>2, WriterAlone
  <2> QED BY <1>1, <2>1, <2>2 DEF IInv, WritersInv
<1>7. ReaderInv'
  <2>1. Reading => seq'[Slot(tail)] = seq[Slot(tail)]
    BY <1>0, <1>2, WriterAlone
  <2> QED BY <2>1 DEF IInv, ReaderInv, Reading
<1> QED BY <1>3, <1>4, <1>5, <1>6, <1>7 DEF IInv

(* A pop that found a published cell.                                      *)
LEMMA BeginPopInv ==
  ASSUME IInv, BeginPop
  PROVE  IInv'
<1> USE Numbers DEF BeginPop, ringVars, producerVars, historyVars, Oldest
<1>1. TypeOK'
  BY DEF IInv, TypeOK
<1>2. CountersInv' /\ CellsInv' /\ TriersInv'
  BY DEF IInv, CountersInv, CellsInv, TriersInv, Window
<1>3. WritersInv'
  BY DEF IInv, WritersInv, Writing, Element
<1>4. ReaderInv'
  <2>1. tail \in Window
    BY DEF Window
  <2>2. tail < head
    BY <2>1 DEF IInv, CellsInv
  <2> QED BY <2>2 DEF ReaderInv, Reading
<1> QED BY <1>1, <1>2, <1>3, <1>4 DEF IInv

(* Reading the data of a published cell.                                   *)
LEMMA ReadInv ==
  ASSUME IInv, Read
  PROVE  IInv'
<1> USE Numbers DEF Read, ringVars, producerVars, historyVars, Oldest
<1>0. tail \in Window /\ Slot(tail) \in Slots /\ Reading
  BY DEF Window, Reading
<1>1. TypeOK'
  BY <1>0 DEF IInv, TypeOK
<1>2. CountersInv' /\ CellsInv' /\ TriersInv'
  BY DEF IInv, CountersInv, CellsInv, TriersInv, Window
<1>3. WritersInv'
  BY DEF IInv, WritersInv, Writing, Element
<1>4. ReaderInv'
  <2>1. data[Slot(tail)] = items[tail + 1]
    BY <1>0 DEF IInv, CellsInv, ReaderInv
  <2> QED BY <1>0, <2>1 DEF IInv, ReaderInv, Reading
<1> QED BY <1>1, <1>2, <1>3, <1>4 DEF IInv

(* Giving the cell back: the window moves on by one position, whose cell   *)
(* it is from now on.                                                      *)
LEMMA FreeInv ==
  ASSUME IInv, Free
  PROVE  IInv'
<1>a. \A q \in Window' : q # tail + Capacity => q \in Window /\ q # tail
  <2>1. Oldest = tail /\ Oldest' = tail + 1
    BY DEF Free, Oldest
  <2> QED BY <2>1, Numbers DEF Window
<1> USE Numbers DEF Free, producerVars
<1>0. Oldest = tail /\ Oldest' = tail + 1 /\ Reading /\ tail \in Window
  BY DEF Oldest, Reading, Window
<1>1. /\ seq'[Slot(tail)] = tail + Capacity
      /\ \A i \in Slots : i # Slot(tail) => seq'[i] = seq[i]
  BY <1>0 DEF IInv, TypeOK
<1>2. /\ out = items[tail + 1] /\ tail < head
      /\ seq[Slot(tail)] = tail + 1
      /\ out \in Elements
  BY <1>0 DEF IInv, TypeOK, ReaderInv, CountersInv
<1>3. TypeOK'
  BY <1>0, <1>2 DEF IInv, TypeOK
<1>4. CountersInv'
  BY <1>0, <1>2 DEF IInv, TypeOK, CountersInv
<1>b. TriersInv'
  <2> SUFFICES ASSUME NEW p \in Producers
      PROVE  /\ ppc[p] = "cas" => pos[p] < tail + 1 + Capacity
             /\ pos[p] < tail + 1 + Capacity => pos[p] <= seq'[Slot(pos[p])]
    <3>1. \A p \in Producers : pos[p] <= head
      BY DEF IInv, TriersInv
    <3> QED BY <1>0, <3>1 DEF TriersInv
  <2>1. ppc[p] = "cas" => pos[p] < tail + 1 + Capacity
    BY <1>0 DEF IInv, TriersInv
  <2>2. CASE pos[p] = tail + Capacity
    <3>1. Slot(pos[p]) = Slot(tail)
      BY <2>2, NextLap
    <3>2. pos[p] = seq'[Slot(pos[p])] /\ pos[p] \in Nat
      BY <1>1, <2>2, <3>1
    <3> QED BY <2>1, <3>2
  <2>3. CASE pos[p] < tail + Capacity
    <3>1. pos[p] <= seq[Slot(pos[p])]
      BY <1>0, <2>3 DEF IInv, TriersInv
    <3>2. seq[Slot(pos[p])] <= seq'[Slot(pos[p])] /\ seq[Slot(pos[p])] \in Nat
          /\ seq'[Slot(pos[p])] \in Nat
      BY <1>1, <1>2 DEF IInv, TypeOK
    <3> QED BY <2>1, <3>1, <3>2
  <2>4. CASE ~(pos[p] < tail + 1 + Capacity)
    BY <2>1, <2>4
  <2>5. \/ pos[p] = tail + Capacity
        \/ pos[p] < tail + Capacity
        \/ ~(pos[p] < tail + 1 + Capacity)
    <3>1. pos[p] \in Nat /\ tail \in Nat /\ Capacity \in Nat
      OBVIOUS
    <3> HIDE Numbers DEF Free, producerVars
    <3> QED BY <3>1
  <2> QED BY <2>2, <2>3, <2>4, <2>5
<1>5. CellsInv'
  <2> SUFFICES ASSUME NEW q \in Window'
      PROVE  /\ seq'[Slot(q)] \in {q, q + 1}
             /\ q >= head => seq'[Slot(q)] = q
             /\ seq'[Slot(q)] = q + 1 => data[Slot(q)] = items[q + 1]
    BY DEF CellsInv
  <2>1. CASE q = tail + Capacity
    <3>1. Slot(q) = Slot(tail)
      BY <2>1, NextLap
    <3> QED BY <1>1, <2>1, <3>1
  <2>2. CASE q # tail + Capacity
    <3>1. q \in Window /\ q # tail
      BY <1>a, <2>2
    <3>2. seq'[Slot(q)] = seq[Slot(q)]
      BY <1>0, <1>1, <3>1, WindowApart
    <3> QED BY <3>1, <3>2 DEF IInv, CellsInv
  <2> QED BY <2>1, <2>2
<1>6. WritersInv'
  <2>1. ASSUME NEW p \in Producers, Writing(p)
        PROVE  pos[p] >= tail + 1 /\ seq'[Slot(pos[p])] = seq[Slot(pos[p])]
    <3>1. Slot(tail) # Slot(pos[p]) /\ pos[p] >= tail /\ pos[p] # tail
      BY <1>0, <2>1, WriterAlone DEF IInv, WritersInv
    <3> QED BY <1>1, <3>1
  <2> QED BY <1>0, <2>1 DEF IInv, WritersInv, Writing, Element
<1>7. ReaderInv'
  BY <1>2 DEF ReaderInv, Reading
<1> QED BY <1>3, <1>4, <1>b, <1>5, <1>6, <1>7 DEF IInv

(* Advancing tail_, after the cell was given back.                         *)
LEMMA AdvanceInv ==
  ASSUME IInv, Advance
  PROVE  IInv'
<1> USE Numbers DEF Advance, producerVars, historyVars
<1>0. Oldest' = Oldest
  BY DEF Oldest
<1>1. TypeOK'
  BY DEF IInv, TypeOK
<1>2. CountersInv' /\ CellsInv' /\ TriersInv'
  BY <1>0 DEF IInv, CountersInv, CellsInv, TriersInv, Window
<1>3. WritersInv'
  BY <1>0 DEF IInv, WritersInv, Writing, Element
<1>4. ReaderInv'
  BY DEF ReaderInv, Reading
<1> QED BY <1>1, <1>2, <1>3, <1>4 DEF IInv

(* Every step keeps the invariant.                                         *)
LEMMA StepInv ==
  ASSUME Capacity > 1, IInv, [Next]_vars
  PROVE  IInv'
<1>1. CASE UNCHANGED vars
  BY <1>1 DEF vars, ringVars, producerVars, consumerVars, historyVars, IInv,
     TypeOK, CountersInv, CellsInv, WritersInv, TriersInv, ReaderInv, Window,
     Writing, Reading, Element, Oldest
<1>2. CASE \E p \in Producers : ProducerStep(p)
  BY <1>2, StartOverInv, LoadSeqInv, ReserveInv, WriteInv, PublishInv
  DEF ProducerStep
<1>3. CASE ConsumerStep
  BY <1>3, BeginPopInv, ReadInv, FreeInv, AdvanceInv DEF ConsumerStep
<1> QED BY <1>1, <1>2, <1>3 DEF Next, Finished

(* The invariant always holds.                                             *)
THEOREM InvariantHolds ==
  ASSUME Capacity > 1
  PROVE  Spec => []IInv
BY InitInv, StepInv, PTL DEF Spec

(* Every variable keeps its type, whatever the threads do.                 *)
THEOREM TypeCorrect ==
  ASSUME Capacity > 1
  PROVE  Spec => []TypeOK
<1>1. IInv => TypeOK
  BY DEF IInv
<1> QED BY <1>1, InvariantHolds, PTL

(* No two threads use the data of a cell at a time, but to read it both.   *)
THEOREM DataRaceFree ==
  ASSUME Capacity > 1
  PROVE  Spec => []NoDataRace
<1>1. IInv => NoDataRace
  BY WriterAlone DEF NoDataRace
<1> QED BY <1>1, InvariantHolds, PTL

(* The ring holds at most Capacity elements: push never overwrites one     *)
(* that was not popped.                                                    *)
THEOREM NothingOverwritten ==
  ASSUME Capacity > 1
  PROVE  Spec => []OccupancyBounded
<1>1. IInv => OccupancyBounded
  BY Numbers DEF IInv, CountersInv, OccupancyBounded
<1> QED BY <1>1, InvariantHolds, PTL

(* A push is refused only by a full ring.                                  *)
LEMMA RefusalStep ==
  ASSUME IInv, [Next]_vars, NEW p \in Producers,
         ppc[p] = "seq", ppc'[p] = "idle"
  PROVE  head - Oldest >= Capacity
<1>1. LoadSeq(p)
  <2>1. CASE UNCHANGED vars
    BY <2>1 DEF vars, producerVars
  <2>2. CASE ConsumerStep
    BY <2>2 DEF ConsumerStep, BeginPop, Read, Free, Advance, producerVars
  <2>3. ASSUME NEW q \in Producers, ProducerStep(q), q # p PROVE FALSE
    BY <2>3 DEF ProducerStep, BeginPush, LoadSeq, Reload, Reserve,
       ReserveFails, Write, Publish, IInv, TypeOK
  <2>4. CASE ProducerStep(p)
    BY <2>4 DEF ProducerStep, BeginPush, LoadSeq, Reload, Reserve,
       ReserveFails, Write, Publish, IInv, TypeOK
  <2> QED BY <2>1, <2>2, <2>3, <2>4 DEF Next, Finished
<1>2. seq[Slot(pos[p])] \in Nat /\ seq[Slot(pos[p])] < pos[p]
  BY <1>1, Numbers DEF LoadSeq, IInv, TypeOK
<1>3. ~(pos[p] < Oldest + Capacity) /\ pos[p] <= head
  BY <1>2, Numbers DEF IInv, TriersInv
<1> QED BY <1>3, Numbers

(* push() returns false only when the ring is full at that moment, however *)
(* old its copy of head_.                                                  *)
THEOREM RefusalsAreRight ==
  ASSUME Capacity > 1
  PROVE  Spec => RefusedOnlyWhenFull
<1>1. IInv /\ [Next]_vars =>
        [\A p \in Producers :
           ppc[p] = "seq" /\ ppc'[p] = "idle" => head - Oldest >= Capacity]_vars
  BY RefusalStep
<1> QED BY <1>1, InvariantHolds, PTL DEF Spec, RefusedOnlyWhenFull

(***************************************************************************)
(* The ring implements the queue of tickets                                *)
(***************************************************************************)
(* A sequence that has one more element at its end.                        *)
LEMMA AppendIs ==
  ASSUME NEW S, NEW s \in Seq(S), NEW t \in Seq(S), NEW e \in S,
         Len(t) = Len(s) + 1, t[Len(s) + 1] = e,
         \A i \in 1 .. Len(s) : t[i] = s[i]
  PROVE  t = Append(s, e)
<1>1. Append(s, e) \in Seq(S) /\ Len(Append(s, e)) = Len(s) + 1
  OBVIOUS
<1>2. \A i \in 1 .. Len(t) : t[i] = Append(s, e)[i]
  OBVIOUS
<1> QED BY <1>1, <1>2

(* A sequence that lacks the first element.                                *)
LEMMA TailIs ==
  ASSUME NEW S, NEW s \in Seq(S), NEW t \in Seq(S),
         Len(s) = Len(t) + 1,
         \A i \in 1 .. Len(t) : t[i] = s[i + 1]
  PROVE  t = Tail(s)
<1>1. s # <<>>
  OBVIOUS
<1>2. Tail(s) \in Seq(S) /\ Len(Tail(s)) = Len(t)
  BY <1>1
<1>3. \A i \in 1 .. Len(t) : t[i] = Tail(s)[i]
  BY <1>1
<1> QED BY <1>2, <1>3

(* What a ticket is.                                                       *)
TicketType == [element : Elements, ready : BOOLEAN]

(* The tickets are a sequence, one for each reserved position.             *)
TicketsInv ==
  /\ head - Oldest \in Nat
  /\ Tickets \in Seq(TicketType)
  /\ Len(Tickets) = head - Oldest
  /\ \A i \in 1 .. head - Oldest : Tickets[i] = Ticket(Oldest + i - 1)

(* The invariant says so of every state.                                   *)
LEMMA TicketsLen == IInv => TicketsInv
<1> SUFFICES ASSUME IInv PROVE TicketsInv
  OBVIOUS
<1>1. head - Oldest \in Nat
  BY Numbers DEF IInv, CountersInv
<1>2. \A i \in 1 .. head - Oldest : Ticket(Oldest + i - 1) \in TicketType
  <2> SUFFICES ASSUME NEW i \in 1 .. head - Oldest
               PROVE  items[Oldest + i - 1 + 1] \in Elements
    BY DEF Ticket, TicketType
  <2>1. Oldest + i - 1 + 1 \in 1 .. Len(items)
    BY Numbers DEF IInv, CountersInv
  <2> QED BY <2>1 DEF IInv, TypeOK
<1> DEFINE n == head - Oldest
<1>3. Tickets = [i \in 1 .. n |-> Ticket(Oldest + i - 1)]
  BY DEF Tickets
<1>4. \A i \in 1 .. n : Tickets[i] = Ticket(Oldest + i - 1)
  BY <1>3
<1> HIDE DEF n
<1>5. Tickets \in [1 .. n -> TicketType]
  BY <1>2, <1>3 DEF n
<1>6. Tickets \in Seq(TicketType) /\ Len(Tickets) = n
  BY <1>1, <1>5 DEF n
<1> QED BY <1>1, <1>4, <1>6 DEF n, TicketsInv

(* Steps that move none of what the tickets are made of.                   *)
LEMMA TicketsKept ==
  ASSUME UNCHANGED <<head, seq, items, taken>>, Oldest' = Oldest
  PROVE  UNCHANGED <<Tickets, taken>>
BY DEF Tickets, Ticket

(* A reservation takes a ticket.                                           *)
LEMMA ReserveTakes ==
  ASSUME IInv, TicketsInv, TicketsInv', NEW p \in Producers, Reserve(p)
  PROVE  Queue!TakeTicket(Element(p))
<1> DEFINE t == [element |-> Element(p), ready |-> FALSE]
<1>1. /\ Oldest' = Oldest /\ head' = head + 1 /\ seq' = seq /\ taken' = taken
      /\ head < Oldest + Capacity /\ seq[Slot(head)] = head
  <2>1. pos[p] = head /\ head < Oldest + Capacity
    BY DEF Reserve, IInv, TriersInv
  <2>2. head \in Window
    BY <2>1, Numbers DEF Window, IInv, CountersInv
  <2> QED BY <2>1, <2>2, Numbers
          DEF Reserve, consumerVars, Oldest, IInv, CellsInv
<1>2. /\ items'[head + 1] = Element(p)
      /\ \A i \in 1 .. head : items'[i] = items[i]
      /\ Element(p) \in Elements
  <2>1. Element(p) \in Elements
    BY ElementType DEF Reserve
  <2> QED BY <2>1 DEF Reserve, IInv, TypeOK, CountersInv
<1>3. PICK n \in Nat : n = head - Oldest
  BY DEF TicketsInv
<1>4. PICK f \in Nat : f = Oldest
  BY Numbers
<1>5. head = f + n /\ Oldest' = f /\ head' - Oldest' = n + 1 /\ head \in Nat
  BY <1>1, <1>3, <1>4, Numbers
<1>6. Len(Tickets) = n /\ Len(Tickets') = n + 1
  BY <1>3, <1>5 DEF TicketsInv
<1>7. Tickets'[n + 1] = t
  <2>1. Tickets'[n + 1] = Ticket(f + n)'
    <3>1. n + 1 \in 1 .. head' - Oldest' /\ f + (n + 1) - 1 = f + n
      BY <1>5
    <3>2. Tickets'[n + 1] = Ticket(f + (n + 1) - 1)'
      BY <1>5, <3>1 DEF TicketsInv
    <3> QED BY <3>1, <3>2
  <2>2. seq'[Slot(f + n)] # f + n + 1
    BY <1>1, <1>5
  <2> QED BY <1>2, <1>5, <2>1, <2>2 DEF Ticket
<1>8. ASSUME NEW i \in 1 .. n
      PROVE  Tickets'[i] = Tickets[i]
  <2>1. Tickets'[i] = Ticket(f + i - 1)' /\ Tickets[i] = Ticket(f + i - 1)
    BY <1>3, <1>4, <1>5 DEF TicketsInv
  <2>2. items'[f + i - 1 + 1] = items[f + i - 1 + 1]
    BY <1>2, <1>5
  <2> QED BY <1>1, <2>1, <2>2 DEF Ticket
<1>9. Tickets' = Append(Tickets, t)
  <2>1. t \in TicketType
    BY <1>2 DEF TicketType
  <2>2. Tickets \in Seq(TicketType) /\ Tickets' \in Seq(TicketType)
    BY DEF TicketsInv
  <2> HIDE DEF t
  <2> QED BY <1>6, <1>7, <1>8, <2>1, <2>2, AppendIs
<1>10. Len(Tickets) < Capacity
  BY <1>1, <1>4, <1>5, <1>6, Numbers
<1> QED BY <1>1, <1>9, <1>10 DEF Queue!TakeTicket

(* A publication makes the ticket of its position ready.                   *)
LEMMA PublishPublishes ==
  ASSUME IInv, TicketsInv, TicketsInv', NEW p \in Producers, Publish(p)
  PROVE  \E i \in 1 .. Len(Tickets) : Queue!PublishTicket(i)
<1>1. Writing(p)
  BY DEF Publish, Writing
<1>2. /\ Oldest' = Oldest /\ head' = head /\ items' = items /\ taken' = taken
      /\ seq' = [seq EXCEPT ![Slot(pos[p])] = pos[p] + 1]
  BY DEF Publish, consumerVars, historyVars, Oldest
<1>3. PICK w \in Nat : w = pos[p]
  BY Numbers
<1>4. PICK n \in Nat : n = head - Oldest
  BY DEF TicketsInv
<1>5. PICK f \in Nat : f = Oldest
  BY Numbers
<1>6. /\ f <= w /\ w < f + n /\ seq[Slot(w)] = w
      /\ f \in Nat /\ head = f + n /\ n <= Capacity /\ Capacity \in Nat
      /\ w \in Window
  BY <1>1, <1>3, <1>4, <1>5, Numbers
     DEF IInv, WritersInv, CountersInv, Window
<1> DEFINE i == w - f + 1
           t == [element |-> Tickets[i].element, ready |-> TRUE]
<1>7. i \in 1 .. n /\ f + i - 1 = w
  BY <1>6
<1>8. Tickets[i] = Ticket(w) /\ Tickets'[i] = Ticket(w)'
  BY <1>2, <1>4, <1>5, <1>7 DEF TicketsInv
<1>9. ~Tickets[i].ready /\ Tickets'[i] = t
  <2>1. seq'[Slot(w)] = w + 1
    BY <1>2, <1>3, <1>6, Numbers DEF IInv, TypeOK
  <2>2. Tickets[i] = [element |-> items[w + 1], ready |-> FALSE]
    <3>1. seq[Slot(w)] # w + 1
      BY <1>6
    <3> QED BY <1>8, <3>1 DEF Ticket
  <2>3. Tickets'[i] = [element |-> items[w + 1], ready |-> TRUE]
    BY <1>2, <1>8, <2>1 DEF Ticket
  <2> QED BY <2>2, <2>3
<1> HIDE DEF i
<1>10. ASSUME NEW j \in 1 .. n, j # i
       PROVE  Tickets'[j] = Tickets[j]
  <2>1. Tickets'[j] = Ticket(f + j - 1)' /\ Tickets[j] = Ticket(f + j - 1)
    BY <1>2, <1>4, <1>5 DEF TicketsInv
  <2>2. f + j - 1 \in Nat /\ f + j - 1 # w /\ f + j - 1 \in f .. f + Capacity - 1
    BY <1>6, <1>10 DEF i
  <2>3. f + j - 1 \in Window
    BY <1>5, <2>2 DEF Window
  <2>4. Slot(f + j - 1) # Slot(w)
    BY <1>6, <2>2, <2>3, WindowApart
  <2>5. seq'[Slot(f + j - 1)] = seq[Slot(f + j - 1)]
    BY <1>2, <1>3, <2>3, <2>4, Numbers DEF IInv, TypeOK
  <2> QED BY <1>2, <2>1, <2>5 DEF Ticket
<1>11. Tickets' = [Tickets EXCEPT ![i] = t]
  <2>1. /\ Tickets = [j \in 1 .. n |-> Tickets[j]]
        /\ Tickets' = [j \in 1 .. n |-> Tickets'[j]]
    BY <1>2, <1>4 DEF Tickets
  <2> HIDE DEF t
  <2> QED BY <1>7, <1>9, <1>10, <2>1
<1>12. i \in 1 .. Len(Tickets)
  BY <1>4, <1>7 DEF TicketsInv
<1> QED BY <1>2, <1>9, <1>11, <1>12 DEF Queue!PublishTicket

(* Giving a cell back pops the first ticket.                               *)
LEMMA FreePops ==
  ASSUME IInv, TicketsInv, TicketsInv', Free
  PROVE  Queue!Pop
<1>1. /\ Oldest = tail /\ Oldest' = tail + 1 /\ Reading
      /\ head' = head /\ items' = items /\ taken' = Append(taken, out)
      /\ seq' = [seq EXCEPT ![Slot(tail)] = tail + Capacity]
  BY DEF Free, Oldest, Reading
<1>2. out = items[tail + 1] /\ tail < head /\ seq[Slot(tail)] = tail + 1
  BY <1>1 DEF Free, IInv, ReaderInv
<1>3. PICK f \in Nat : f = tail
  BY Numbers
<1>4. PICK n \in Nat : head - Oldest = n + 1
  <2>1. head - Oldest - 1 \in Nat
    BY <1>1, <1>2, Numbers
  <2> QED BY <2>1, Numbers
<1>5. Oldest = f /\ Oldest' = f + 1 /\ head' - Oldest' = n
  BY <1>1, <1>3, <1>4, Numbers
<1>6. /\ Len(Tickets) = n + 1 /\ Len(Tickets') = n
      /\ Tickets \in Seq(TicketType) /\ Tickets' \in Seq(TicketType)
  BY <1>4, <1>5 DEF TicketsInv
<1>7. /\ Tickets # <<>> /\ Head(Tickets) = Tickets[1]
      /\ Tickets[1].ready /\ Tickets[1].element = out
  <2>1. Tickets[1] = Ticket(f)
    <3>1. 1 \in 1 .. head - Oldest /\ f + 1 - 1 = f
      BY <1>4
    <3>2. Tickets[1] = Ticket(f + 1 - 1)
      BY <1>5, <3>1 DEF TicketsInv
    <3> QED BY <3>1, <3>2
  <2>2. Tickets[1] = [element |-> out, ready |-> TRUE]
    BY <1>2, <1>3, <2>1 DEF Ticket
  <2> QED BY <1>6, <2>2
<1>8. ASSUME NEW j \in 1 .. n
      PROVE  Tickets'[j] = Tickets[j + 1]
  <2>1. Tickets'[j] = Ticket(f + j)' /\ Tickets[j + 1] = Ticket(f + j)
    <3>1. j + 1 \in 1 .. head - Oldest /\ f + (j + 1) - 1 = f + j
      BY <1>4
    <3>2. j \in 1 .. head' - Oldest' /\ (f + 1) + j - 1 = f + j
      BY <1>5
    <3>3. Tickets[j + 1] = Ticket(f + (j + 1) - 1)
      BY <1>5, <3>1 DEF TicketsInv
    <3>4. Tickets'[j] = Ticket((f + 1) + j - 1)'
      BY <1>5, <3>2 DEF TicketsInv
    <3> QED BY <3>1, <3>2, <3>3, <3>4
  <2>2. f + j \in f .. f + Capacity - 1 /\ f + j # f /\ f \in f .. f + Capacity - 1
    BY <1>4, <1>5, Numbers DEF IInv, CountersInv
  <2>3. f + j \in Window /\ f \in Window
    BY <1>5, <2>2 DEF Window
  <2>4. Slot(f + j) # Slot(f)
    BY <2>2, <2>3, WindowApart
  <2>5. seq'[Slot(f + j)] = seq[Slot(f + j)]
    BY <1>1, <1>3, <2>3, <2>4, Numbers DEF IInv, TypeOK
  <2>6. items' = items
    BY <1>1
  <2> QED BY <2>1, <2>5, <2>6 DEF Ticket
<1>9. Tickets' = Tail(Tickets)
  BY <1>6, <1>8, TailIs
<1> QED BY <1>1, <1>7, <1>9 DEF Queue!Pop

(* An empty ring is an empty queue.                                        *)
LEMMA InitRefines ==
  ASSUME Init, TicketsInv
  PROVE  Queue!TicketInit
<1>1. Len(Tickets) = 0
  BY DEF Init, Oldest, TicketsInv
<1> QED BY <1>1 DEF Init, TicketsInv, Queue!TicketInit

(* A step of the ring is a step of the queue or leaves it as it is.        *)
LEMMA StepRefines ==
  ASSUME IInv, TicketsInv, TicketsInv', [Next]_vars
  PROVE  [Queue!TicketNext]_<<Tickets, taken>>
<1>1. ASSUME NEW p \in Producers, Reserve(p)
      PROVE  Queue!TicketNext
  <2>1. Element(p) \in Elements
    BY <1>1, ElementType DEF Reserve
  <2> QED BY <1>1, <2>1, ReserveTakes DEF Queue!TicketNext
<1>2. ASSUME NEW p \in Producers, Publish(p)
      PROVE  Queue!TicketNext
  BY <1>2, PublishPublishes DEF Queue!TicketNext
<1>3. ASSUME Free
      PROVE  Queue!TicketNext
  BY <1>3, FreePops DEF Queue!TicketNext
<1>4. ASSUME NEW p \in Producers,
             BeginPush(p) \/ LoadSeq(p) \/ Reload(p) \/ ReserveFails(p) \/ Write(p)
      PROVE  UNCHANGED <<Tickets, taken>>
  <2>1. UNCHANGED <<head, seq, items, taken>> /\ Oldest' = Oldest
    BY <1>4 DEF BeginPush, LoadSeq, Reload, ReserveFails, Write, ringVars,
                consumerVars, historyVars, Oldest
  <2> QED BY <2>1, TicketsKept
<1>5. ASSUME BeginPop \/ Read \/ Advance \/ UNCHANGED vars
      PROVE  UNCHANGED <<Tickets, taken>>
  <2>1. UNCHANGED <<head, seq, items, taken>> /\ Oldest' = Oldest
    BY <1>5, Numbers
       DEF BeginPop, Read, Advance, vars, ringVars, consumerVars, historyVars,
           Oldest
  <2> QED BY <2>1, TicketsKept
<1> QED BY <1>1, <1>2, <1>3, <1>4, <1>5
        DEF Next, ProducerStep, ConsumerStep, Finished

(* The ring implements the queue of tickets.                               *)
THEOREM ImplementsTickets ==
  ASSUME Capacity > 1
  PROVE  Spec => ImplementsQueue
<1>1. Init /\ TicketsInv => Queue!TicketInit
  BY InitRefines
<1>2. IInv /\ TicketsInv /\ TicketsInv' /\ [Next]_vars
        => [Queue!TicketNext]_<<Tickets, taken>>
  BY StepRefines
<1> QED BY <1>1, <1>2, InvariantHolds, TicketsLen, PTL
        DEF Spec, ImplementsQueue, Queue!TicketSpec
=============================================================================
