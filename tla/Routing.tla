------------------------------- MODULE Routing ------------------------------
(***************************************************************************)
(* Orders routed by price: bestExecution of execution/smartRouter.ts, of   *)
(* the zBAutomos worker and of Automos, which ask one exchange after the   *)
(* other and send a limit order to the one they chose; and the slices of   *)
(* twapOrder.  Books move between and after the questions.                 *)
(***************************************************************************)
EXTENDS Integers, Sequences

CONSTANTS
  Venues,       \* the exchanges, in the order they are asked
  Books,        \* the [bid, ask] pairs they quote
  Reference,    \* expectedPrice, referencePrice
  MaxSlippage,  \* in basis points: maxSlippageBps, 10000 * maxSlippage
  Slices,       \* slices of a TWAP order
  MaxMoves      \* bound on the moves of the books

ASSUME RoutingAssumption ==
  /\ Len(Venues) \in Nat \ {0} /\ DOMAIN Venues = 1 .. Len(Venues)
  /\ Books \subseteq [bid : Nat, ask : Nat] /\ Reference \in Nat \ {0}
  /\ MaxSlippage \in Nat /\ Slices \in Nat /\ MaxMoves \in Nat

VARIABLES
  router,   \* whose order it is: "smart", "worker", "automos", "twap"
  side,
  books,    \* what each exchange quotes now
  moves,
  seen,     \* the prices read so far, in order
  best,     \* which of them was chosen; 0 is none
  sent,     \* the orders: [quote, price], the index of the price that led to it
  thrown    \* the call threw

routingVars == <<router, side, books, moves, seen, best, sent, thrown>>

RoutingInit ==
  /\ router \in {"smart", "worker", "automos", "twap"}
  /\ side \in {"buy", "sell"}
  /\ books \in [DOMAIN Venues -> Books]
  /\ moves = 0 /\ seen = <<>> /\ best = 0 /\ sent = <<>> /\ thrown = FALSE

Move(v, book) ==
  /\ moves < MaxMoves /\ books[v] # book
  /\ books' = [books EXCEPT ![v] = book]
  /\ moves' = moves + 1
  /\ UNCHANGED <<router, side, seen, best, sent, thrown>>

(* What a router reads of a book; getPrice of Automos does not know the    *)
(* side, and quotes the ask here.                                          *)
Price(book) == IF side = "buy" \/ router = "automos" THEN book.ask ELSE book.bid

(* Mutant: a price must only not be worse than the one chosen.             *)
NotWorse(price, chosen) ==
  IF side = "buy" \/ router = "automos" THEN price <= chosen ELSE price >= chosen

(* The condition to prefer a price to the one chosen; Automos takes the    *)
(* lower price whichever the side.                                         *)
Better(price, chosen) ==
  IF side = "buy" \/ router = "automos" THEN price < chosen ELSE price > chosen

Ask ==
  /\ router # "twap" /\ Len(seen) < Len(Venues)
  /\ LET price == Price(books[Len(seen) + 1])
     IN  /\ seen' = Append(seen, price)
         /\ best' = IF best = 0 \/ Better(price, seen[best]) THEN Len(seen') ELSE best
  /\ UNCHANGED <<router, side, books, moves, sent, thrown>>

Distance(price) == IF price > Reference THEN price - Reference ELSE Reference - price

SlippageTooHigh(price) == 10000 * Distance(price) > MaxSlippage * Reference

Send == sent' = Append(sent, [quote |-> best, price |-> seen[best]])

(* All have answered: the limit order goes out at the price that was read; *)
(* the smart router throws when that is too far from the expected one.     *)
SendBest ==
  /\ router # "twap" /\ Len(seen) = Len(Venues) /\ sent = <<>> /\ ~thrown
  /\ IF router = "smart" /\ SlippageTooHigh(seen[best])
     THEN thrown' = TRUE /\ UNCHANGED sent
     ELSE Send /\ UNCHANGED thrown
  /\ UNCHANGED <<router, side, books, moves, seen, best>>

(* smartExecute for the next slice of a TWAP order: its exchange is asked, *)
(* and a slice whose price is too far off is skipped and not made up for.  *)
ReadSlice ==
  /\ router = "twap" /\ Len(seen) < Slices /\ best = 0 /\ ~thrown
  /\ LET price == Price(books[1])
     IN  /\ seen' = Append(seen, price)
         /\ best' = IF SlippageTooHigh(price) THEN 0 ELSE Len(seen')
  /\ UNCHANGED <<router, side, books, moves, sent, thrown>>

SendSlice ==
  /\ router = "twap" /\ best # 0 /\ ~thrown
  /\ Send
  /\ best' = 0
  /\ UNCHANGED <<router, side, books, moves, seen, thrown>>

(* limitOrder throws: the slices after it are not placed, and the caller   *)
(* is not told of those before it.                                         *)
FailSlice ==
  /\ router = "twap" /\ best # 0 /\ ~thrown
  /\ thrown' = TRUE
  /\ UNCHANGED <<router, side, books, moves, seen, best, sent>>

RoutingNext ==
  \/ \E v \in DOMAIN Venues, b \in Books : Move(v, b)
  \/ Ask \/ SendBest
  \/ ReadSlice \/ SendSlice \/ FailSlice

RoutingSpec == RoutingInit /\ [][RoutingNext]_routingVars

(***************************************************************************)
(* However the books move between the questions, an order goes to the      *)
(* first exchange of the best price that was read (for Automos: of the     *)
(* lowest); a guarded order is within the tolerance of the expected price; *)
(* and a TWAP order places each slice once, in order, at the price read    *)
(* for it.                                                                 *)
(***************************************************************************)
OrdersFollowQuotes ==
  \A i \in DOMAIN sent :
    LET o == sent[i]
    IN  /\ o.price = seen[o.quote]
        /\ router \in {"smart", "twap"} => ~SlippageTooHigh(o.price)
        /\ router = "twap" => (i > 1 => o.quote > sent[i - 1].quote)
        /\ router # "twap" =>
             /\ i = 1
             /\ \A k \in DOMAIN seen :
                  /\ IF side = "buy" \/ router = "automos" THEN seen[k] >= o.price
                     ELSE seen[k] <= o.price
                  /\ k < o.quote => seen[k] # o.price
=============================================================================
