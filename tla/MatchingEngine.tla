---------------------------- MODULE MatchingEngine ----------------------------
(***************************************************************************)
(* pkg/dex/engine_pure_go.go: limit orders for ad slots and the batch       *)
(* auction that matches them.  Every method holds bookMu, so nothing runs   *)
(* between the steps of an auction; its matching loop is one step per       *)
(* iteration.  A heap is the set of its orders: Pop takes one of the best   *)
(* price, whichever of equal orders the heap has at its root.               *)
(*                                                                          *)
(* Prices are integers.  The decay of the clearing price is a constant of   *)
(* the code (the slot is taken to be ten minutes old, the half life is      *)
(* thirty), so a match wins when its price reaches DecayPercent per cent of *)
(* the median.  The id of an order is its place among all orders ever added, *)
(* ids being unique, as the callers make them.                              *)
(***************************************************************************)
EXTENDS Integers, Sequences, FiniteSets, FiniteSetsExt, Functions

CONSTANTS
    Slots,
    MaxOrders,      \* bound on the number of orders
    Prices,         \* prices an order may have
    Quantities,     \* quantities an order may have
    DecayPercent,   \* calculateTimeDecayFactor
    Free            \* bookMu is not held by an auction

Orders == 1..MaxOrders

ASSUME EngineAssumption ==
    /\ MaxOrders \in Nat
    /\ Prices \subseteq Nat /\ Quantities \subseteq Nat
    /\ DecayPercent \in 0..100
    /\ Free \notin Slots

VARIABLES
    order,      \* the orders given to AddOrder, as they were
    book,       \* ids in Bids and Asks of all order books
    quantity,   \* Order.Quantity, counted down by matches
    running,    \* the slot whose auction holds bookMu, or Free
    matches,    \* the matches of the running auction
    filled,     \* history: quantity of an order in the winners of all auctions
    lost,       \* history: quantity of an order in matches that did not win
    totalVolume \* PureGoEngine.totalVolume

vars == <<order, book, quantity, running, matches, filled, lost, totalVolume>>

Order == [slot : Slots, isBuy : BOOLEAN, price : Prices, quantity : Quantities]
MatchedOrder == [buy : Orders, sell : Orders, price : Prices, quantity : Nat]

TypeOK ==
    /\ order \in Seq(Order)
    /\ Len(order) <= MaxOrders
    /\ book \subseteq DOMAIN order
    /\ quantity \in [Orders -> Nat]
    /\ running \in Slots \cup {Free}
    /\ matches \in Seq(MatchedOrder)
    /\ filled \in [Orders -> Nat]
    /\ lost \in [Orders -> Nat]
    /\ totalVolume \in Nat

Init ==
    /\ order = <<>>
    /\ book = {}
    /\ quantity = [o \in Orders |-> 0]
    /\ running = Free
    /\ matches = <<>>
    /\ filled = [o \in Orders |-> 0]
    /\ lost = [o \in Orders |-> 0]
    /\ totalVolume = 0

-----------------------------------------------------------------------------

Bids(s) == {o \in book : order[o].slot = s /\ order[o].isBuy}
Asks(s) == {o \in book : order[o].slot = s /\ ~ order[o].isBuy}

\* Mutant of BestAsks: the heap of asks is ordered like that of bids.
HighestAsks(s) == {a \in Asks(s) : \A c \in Asks(s) : order[c].price <= order[a].price}

\* The orders a heap may have at its root.
BestBids(s) == {b \in Bids(s) : \A c \in Bids(s) : order[c].price <= order[b].price}
BestAsks(s) == {a \in Asks(s) : \A c \in Asks(s) : order[c].price >= order[a].price}

\* Best bid b and best ask a cross.
Crosses(b, a) == order[b].price >= order[a].price

AddOrder(new) ==
    /\ running = Free
    /\ Len(order) < MaxOrders
    /\ order' = Append(order, new)
    /\ book' = book \cup {Len(order')}
    /\ quantity' = [quantity EXCEPT ![Len(order')] = new.quantity]
    /\ UNCHANGED <<running, matches, filled, lost, totalVolume>>

\* CancelOrder, for an order that is in a book; otherwise nothing changes.
CancelOrder(o) ==
    /\ running = Free
    /\ o \in book
    /\ book' = book \ {o}
    /\ UNCHANGED <<order, quantity, running, matches, filled, lost, totalVolume>>

Lesser(m, n) == IF n < m THEN n ELSE m

\* RunBatchAuction takes the lock.
BeginAuction(s) ==
    /\ running = Free
    /\ running' = s
    /\ UNCHANGED <<order, book, quantity, matches, filled, lost, totalVolume>>

\* Mutants of MatchOrders: only the bid is counted down; a trade of nothing is
\* not recorded and both orders go back, though one of them is empty.
MatchOrdersAskKept(s) ==
    /\ running = s
    /\ \E b \in BestBids(s), a \in BestAsks(s) :
         LET qty == Lesser(quantity[b], quantity[a]) IN
         /\ Crosses(b, a)
         /\ matches' = Append(matches, [buy |-> b, sell |-> a, price |-> order[a].price,
                                        quantity |-> qty])
         /\ quantity' = [quantity EXCEPT ![b] = @ - qty]
         /\ book' = book \ {o \in {a, b} : quantity'[o] = 0}
    /\ UNCHANGED <<order, running, filled, lost, totalVolume>>

MatchOrdersEmptyBack(s) ==
    /\ running = s
    /\ \E b \in BestBids(s), a \in BestAsks(s) :
         LET qty == Lesser(quantity[b], quantity[a]) IN
         /\ Crosses(b, a)
         /\ IF qty = 0 THEN UNCHANGED <<matches, quantity, book>>
            ELSE /\ matches' = Append(matches, [buy |-> b, sell |-> a, price |-> order[a].price,
                                                quantity |-> qty])
                 /\ quantity' = [quantity EXCEPT ![a] = @ - qty, ![b] = @ - qty]
                 /\ book' = book \ {o \in {a, b} : quantity'[o] = 0}
    /\ UNCHANGED <<order, running, filled, lost, totalVolume>>

\* matchOrders, one iteration: the best bid and the best ask trade at the
\* ask's price what both have, and stay in the book when something is left.
MatchOrders(s) ==
    /\ running = s
    /\ \E b \in BestBids(s), a \in BestAsks(s) :
         LET qty == Lesser(quantity[b], quantity[a]) IN
         /\ Crosses(b, a)
         /\ matches' = Append(matches, [buy |-> b, sell |-> a, price |-> order[a].price,
                                        quantity |-> qty])
         /\ quantity' = [quantity EXCEPT ![a] = @ - qty, ![b] = @ - qty]
         /\ book' = book \ {o \in {a, b} : quantity'[o] = 0}
    /\ UNCHANGED <<order, running, filled, lost, totalVolume>>

\* calculateClearingPrice: the upper median of the prices, in the middle of
\* the sorted list; hundredths after the decay.
median(ms) ==
    LET upTo(p) == Cardinality({k \in DOMAIN ms : ms[k].price <= p})
    IN Min({p \in {ms[k].price : k \in DOMAIN ms} : upTo(p) > Len(ms) \div 2})
calculateClearingPrice(ms) == IF ms = <<>> THEN 0 ELSE median(ms) * DecayPercent

\* What order o has in the matches of ms at the places K.
VolumeOf(o, ms, K) ==
    SumFunctionOnSet([k \in DOMAIN ms |-> IF o \in {ms[k].buy, ms[k].sell}
                                          THEN ms[k].quantity ELSE 0], K)

\* A match wins when its price reaches the clearing price.
Winners == {k \in DOMAIN matches : matches[k].price * 100 >= calculateClearingPrice(matches)}

Unmatchable(s) == ~ \E b \in BestBids(s), a \in BestAsks(s) : Crosses(b, a)

\* RunBatchAuction, "Execute matches": the matches that reach the clearing
\* price win; the others are dropped, though their quantities are gone.
executeMatches ==
    /\ filled' = [o \in Orders |-> filled[o] + VolumeOf(o, matches, Winners)]
    /\ lost' = [o \in Orders |-> lost[o] + VolumeOf(o, matches, DOMAIN matches \ Winners)]
    /\ totalVolume' =
         totalVolume + SumFunctionOnSet([k \in DOMAIN matches |-> matches[k].quantity], Winners)

\* RunBatchAuction, after matchOrders.
EndAuction(s) ==
    /\ running = s
    /\ Unmatchable(s)
    /\ executeMatches
    /\ running' = Free
    /\ matches' = <<>>
    /\ UNCHANGED <<order, book, quantity>>

Next ==
    \/ \E new \in Order : AddOrder(new)
    \/ \E o \in book : CancelOrder(o)
    \/ \E s \in Slots : BeginAuction(s) \/ MatchOrders(s) \/ EndAuction(s)

Spec == Init /\ [][Next]_vars

\* An auction that has begun goes on: it holds the lock and does not wait.
FairSpec == Spec /\ \A s \in Slots : WF_vars(MatchOrders(s) \/ EndAuction(s))

-----------------------------------------------------------------------------
(* Properties *)

OrdersOf(s, isBuy) == {o \in DOMAIN order : order[o].slot = s /\ order[o].isBuy = isBuy}

\* Every unit of an order is in the book or was matched, once, over any number
\* of auctions with partial fills and cancellations in between; in every slot
\* as much is bought as is sold, and totalVolume is the sum of it.
UnitsAccounted ==
    /\ \A o \in DOMAIN order :
         order[o].quantity = quantity[o] + filled[o] + lost[o]
                               + IF running = Free THEN 0
                                 ELSE VolumeOf(o, matches, DOMAIN matches)
    /\ \A s \in Slots : SumFunctionOnSet(filled, OrdersOf(s, TRUE))
                          = SumFunctionOnSet(filled, OrdersOf(s, FALSE))
    /\ totalVolume = SumFunctionOnSet(filled, UNION {OrdersOf(s, TRUE) : s \in Slots})

\* While an auction matches, no order trades at a worse price than its limit,
\* and none that is left in the book has a better price than one that traded.
PricePriority ==
    running # Free =>
      \A k \in DOMAIN matches :
        LET m == matches[k] IN
        /\ order[m.buy].price >= m.price /\ m.price >= order[m.sell].price
        /\ \A o \in Bids(running) : order[o].price <= order[m.buy].price
        /\ \A o \in Asks(running) : order[o].price >= order[m.sell].price

\* The matching loop ends.
AuctionsEnd == \A s \in Slots : running = s ~> running = Free
=============================================================================
