------------------------- MODULE MatchingEngineProofs -------------------------
(***************************************************************************)
(* What holds of the matching engine for every number of orders and slots   *)
(* and every set of prices and quantities:                                   *)
(*  - TypeCorrect;                                                          *)
(*  - BestPricesTrade: PricePriority;                                       *)
(*  - EveryUnitAccounted: UnitsAccounted, over any number of auctions,       *)
(*    partial fills and cancellations.                                       *)
(***************************************************************************)
EXTENDS MatchingEngine, InductionTheorems

-----------------------------------------------------------------------------
(* Sequences of matches. *)

LEMMA Appended ==
    ASSUME NEW S, NEW s \in Seq(S), NEW e \in S
    PROVE  /\ Append(s, e) \in Seq(S) /\ Len(Append(s, e)) = Len(s) + 1
           /\ DOMAIN Append(s, e) = DOMAIN s \cup {Len(s) + 1} /\ Len(s) + 1 \notin DOMAIN s
           /\ \A k \in DOMAIN s : Append(s, e)[k] = s[k]
           /\ Append(s, e)[Len(s) + 1] = e
  OBVIOUS

LEMMA FiniteDomain ==
    ASSUME NEW S, NEW s \in Seq(S), NEW K \in SUBSET DOMAIN s
    PROVE  IsFiniteSet(DOMAIN s) /\ IsFiniteSet(K)
  <1>1. DOMAIN s = 1..Len(s) /\ Len(s) \in Nat
    OBVIOUS
  <1>2. IsFiniteSet(1..Len(s))
    BY <1>1, FS_Interval
  <1> QED BY <1>1, <1>2, FS_Subset

\* What o has in one match, and the matches of ms as o sees them.
PartIn(o, m) == IF o \in {m.buy, m.sell} THEN m.quantity ELSE 0
PartsIn(o, ms) == [k \in DOMAIN ms |-> PartIn(o, ms[k])]

LEMMA VolumeIsSum ==
    ASSUME NEW o, NEW ms, NEW K
    PROVE  VolumeOf(o, ms, K) = SumFunctionOnSet(PartsIn(o, ms), K)
  BY DEF VolumeOf, PartsIn, PartIn

LEMMA PartNat ==
    ASSUME NEW o, NEW m \in MatchedOrder
    PROVE  PartIn(o, m) \in Nat
  BY DEF PartIn, MatchedOrder

LEMMA PartsNat ==
    ASSUME NEW o, NEW ms \in Seq(MatchedOrder)
    PROVE  \A k \in DOMAIN ms : PartsIn(o, ms)[k] = PartIn(o, ms[k]) /\ PartsIn(o, ms)[k] \in Nat
  <1> SUFFICES ASSUME NEW k \in DOMAIN ms
               PROVE  PartsIn(o, ms)[k] = PartIn(o, ms[k]) /\ PartsIn(o, ms)[k] \in Nat
    OBVIOUS
  <1>1. ms[k] \in MatchedOrder
    OBVIOUS
  <1> QED BY <1>1, PartNat DEF PartsIn

LEMMA VolumeNat ==
    ASSUME NEW o, NEW ms \in Seq(MatchedOrder), NEW K \in SUBSET DOMAIN ms
    PROVE  VolumeOf(o, ms, K) \in Nat
  <1>1. \A k \in K : PartsIn(o, ms)[k] \in Nat
    BY PartsNat
  <1> QED BY <1>1, VolumeIsSum, FiniteDomain, SumNat

\* A match more.
LEMMA VolumeAppend ==
    ASSUME NEW o, NEW ms \in Seq(MatchedOrder), NEW m \in MatchedOrder
    PROVE  VolumeOf(o, Append(ms, m), DOMAIN Append(ms, m))
             = VolumeOf(o, ms, DOMAIN ms) + PartIn(o, m)
  <1> DEFINE new == Append(ms, m)
             n == Len(ms) + 1
             f == PartsIn(o, ms)
             g == PartsIn(o, new)
  <1>1. /\ new \in Seq(MatchedOrder) /\ DOMAIN new = DOMAIN ms \cup {n} /\ n \notin DOMAIN ms
        /\ \A k \in DOMAIN ms : new[k] = ms[k]
        /\ new[n] = m
    BY Appended
  <1> HIDE DEF new, n
  <1>2. \A k \in DOMAIN ms \cup {n} : g[k] \in Int /\ g[k] = PartIn(o, new[k])
    BY <1>1, PartsNat
  <1>3. \A k \in DOMAIN ms : f[k] \in Int /\ f[k] = g[k]
    BY <1>1, <1>2, PartsNat
  <1>4. g[n] = PartIn(o, m) /\ PartIn(o, m) \in Nat
    BY <1>1, <1>2, PartNat
  <1>5. IsFiniteSet(DOMAIN ms)
    BY FiniteDomain
  <1>6. VolumeOf(o, new, DOMAIN new) = SumFunctionOnSet(g, DOMAIN ms \cup {n})
    BY <1>1, VolumeIsSum
  <1>7. VolumeOf(o, ms, DOMAIN ms) = SumFunctionOnSet(f, DOMAIN ms)
    BY VolumeIsSum
  <1> HIDE DEF f, g
  <1>8. SumFunctionOnSet(g, DOMAIN ms \cup {n}) = g[n] + SumFunctionOnSet(g, DOMAIN ms)
    BY <1>1, <1>2, <1>5, SumAdd
  <1>9. SumFunctionOnSet(g, DOMAIN ms) = SumFunctionOnSet(f, DOMAIN ms)
    BY <1>3, <1>5, SumEqual
  <1>10. SumFunctionOnSet(f, DOMAIN ms) \in Int
    BY <1>3, <1>5, SumInt
  <1>11. VolumeOf(o, new, DOMAIN new) = VolumeOf(o, ms, DOMAIN ms) + PartIn(o, m)
    BY <1>4, <1>6, <1>7, <1>8, <1>9, <1>10
  <1> QED BY <1>11 DEF new

\* Winners and losers together.
LEMMA VolumeSplit ==
    ASSUME NEW o, NEW ms \in Seq(MatchedOrder), NEW K \in SUBSET DOMAIN ms
    PROVE  VolumeOf(o, ms, DOMAIN ms) = VolumeOf(o, ms, K) + VolumeOf(o, ms, DOMAIN ms \ K)
  <1> DEFINE f == PartsIn(o, ms)
             L == DOMAIN ms \ K
  <1>1. IsFiniteSet(K) /\ IsFiniteSet(L) /\ K \cap L = {} /\ K \cup L = DOMAIN ms
    BY FiniteDomain
  <1>2. \A k \in K \cup L : f[k] \in Int
    BY PartsNat
  <1>3. /\ VolumeOf(o, ms, DOMAIN ms) = SumFunctionOnSet(f, DOMAIN ms)
        /\ VolumeOf(o, ms, K) = SumFunctionOnSet(f, K)
        /\ VolumeOf(o, ms, L) = SumFunctionOnSet(f, L)
    BY VolumeIsSum
  <1> HIDE DEF f, L
  <1>4. SumFunctionOnSet(f, K \cup L) = SumFunctionOnSet(f, K) + SumFunctionOnSet(f, L)
    BY <1>1, <1>2, SumUnion
  <1>5. VolumeOf(o, ms, DOMAIN ms) = VolumeOf(o, ms, K) + VolumeOf(o, ms, L)
    BY <1>1, <1>3, <1>4
  <1> QED BY <1>5 DEF L

QuantitiesOf(ms) == [k \in DOMAIN ms |-> ms[k].quantity]

\* Orders of which each match of K has exactly one share between them what is
\* traded in K.
LEMMA VolumeShared ==
    ASSUME NEW ms \in Seq(MatchedOrder), NEW K \in SUBSET DOMAIN ms, NEW O, IsFiniteSet(O),
           NEW who \in [K -> O],
           \A k \in K : \A o \in O : o \in {ms[k].buy, ms[k].sell} <=> o = who[k]
    PROVE  SumFunctionOnSet([o \in O |-> VolumeOf(o, ms, K)], O)
             = SumFunctionOnSet(QuantitiesOf(ms), K)
  <1> DEFINE q == [k \in K |-> ms[k].quantity]
             part(o) == [k \in K |-> IF who[k] = o THEN q[k] ELSE 0]
             shares == [o \in O |-> SumFunctionOnSet(part(o), K)]
             volumes == [o \in O |-> VolumeOf(o, ms, K)]
  <1>1. IsFiniteSet(K)
    BY FiniteDomain
  <1>2. q \in [K -> Int]
    <2>1. \A k \in K : ms[k] \in MatchedOrder
      OBVIOUS
    <2>2. \A k \in K : ms[k].quantity \in Int
      BY <2>1 DEF MatchedOrder
    <2> QED BY <2>2
  <1>3. SumFunctionOnSet(shares, O) = SumFunctionOnSet(q, K)
    <2> HIDE DEF q
    <2> QED BY <1>1, <1>2, SumGrouped
  <1>4. SumFunctionOnSet(q, K) = SumFunctionOnSet(QuantitiesOf(ms), K)
    <2>1. \A k \in K : q[k] = QuantitiesOf(ms)[k]
      BY DEF QuantitiesOf
    <2> HIDE DEF q
    <2> QED BY <1>1, <2>1, SumEqual
  <1>5. ASSUME NEW o \in O PROVE shares[o] = volumes[o]
    <2>1. ASSUME NEW k \in K PROVE part(o)[k] = PartsIn(o, ms)[k]
      <3>1. o \in {ms[k].buy, ms[k].sell} <=> o = who[k]
        OBVIOUS
      <3> QED BY <3>1 DEF PartsIn, PartIn
    <2>2. SumFunctionOnSet(part(o), K) = SumFunctionOnSet(PartsIn(o, ms), K)
      <3> HIDE DEF part
      <3> QED BY <1>1, <2>1, SumEqual
    <2>3. volumes[o] = SumFunctionOnSet(PartsIn(o, ms), K)
      BY VolumeIsSum
    <2> QED BY <2>2, <2>3
  <1>6. SumFunctionOnSet(shares, O) = SumFunctionOnSet(volumes, O)
    <2> HIDE DEF shares, volumes
    <2> QED BY <1>5, SumEqual
  <1> QED BY <1>3, <1>4, <1>6

-----------------------------------------------------------------------------
(* Types, and what an auction's matches are about. *)

\* An auction's matches are between a bid and an ask of its slot.
Trading ==
    /\ running = Free => matches = <<>>
    /\ \A k \in DOMAIN matches : /\ matches[k].buy \in OrdersOf(running, TRUE)
                                 /\ matches[k].sell \in OrdersOf(running, FALSE)

Typed == TypeOK /\ Trading

\* The orders that are known.
LEMMA KnownOrders ==
    ASSUME TypeOK, NEW o \in DOMAIN order
    PROVE  /\ o \in Orders /\ order[o] \in Order
           /\ order[o].slot \in Slots /\ order[o].isBuy \in BOOLEAN
           /\ order[o].price \in Prices /\ order[o].price \in Nat
           /\ order[o].quantity \in Nat
  <1>1. o \in Orders /\ order[o] \in Order
    BY EngineAssumption, SMTT(30) DEF TypeOK, Orders
  <1> QED BY <1>1, EngineAssumption DEF Order

\* What one iteration of matchOrders trades.
LEMMA MatchStep ==
    ASSUME TypeOK, NEW s \in Slots, MatchOrders(s)
    PROVE  \E b \in BestBids(s), a \in BestAsks(s), qty \in Nat :
             /\ b \in Bids(s) /\ a \in Asks(s) /\ a # b
             /\ b \in OrdersOf(s, TRUE) /\ a \in OrdersOf(s, FALSE)
             /\ b \in Orders /\ a \in Orders /\ Crosses(b, a)
             /\ qty <= quantity[b] /\ qty <= quantity[a]
             /\ quantity[a] - qty \in Nat /\ quantity[b] - qty \in Nat
             /\ [buy |-> b, sell |-> a, price |-> order[a].price, quantity |-> qty] \in MatchedOrder
             /\ matches' = Append(matches, [buy |-> b, sell |-> a, price |-> order[a].price,
                                            quantity |-> qty])
             /\ quantity' = [quantity EXCEPT ![a] = quantity[a] - qty, ![b] = quantity[b] - qty]
             /\ book' \subseteq book
  <1> DEFINE qty(b, a) == Lesser(quantity[b], quantity[a])
  <1>1. PICK b \in BestBids(s), a \in BestAsks(s) :
          /\ Crosses(b, a)
          /\ matches' = Append(matches, [buy |-> b, sell |-> a, price |-> order[a].price,
                                         quantity |-> qty(b, a)])
          /\ quantity' = [quantity EXCEPT ![a] = @ - qty(b, a), ![b] = @ - qty(b, a)]
          /\ book' = book \ {o \in {a, b} : quantity'[o] = 0}
    BY Zenon DEF MatchOrders
  <1>2. /\ b \in book /\ order[b].slot = s /\ order[b].isBuy
        /\ a \in book /\ order[a].slot = s /\ ~ order[a].isBuy
        /\ b \in Bids(s) /\ a \in Asks(s)
    BY DEF BestBids, BestAsks, Bids, Asks
  <1>3. a # b /\ a \in DOMAIN order /\ b \in DOMAIN order
    BY <1>2 DEF TypeOK
  <1>4. a \in Orders /\ b \in Orders /\ order[a].price \in Prices
    BY <1>3, KnownOrders
  <1>5. b \in OrdersOf(s, TRUE) /\ a \in OrdersOf(s, FALSE)
    <2>1. order[b].isBuy \in BOOLEAN /\ order[a].isBuy \in BOOLEAN
      BY <1>3, KnownOrders
    <2>2. order[b].isBuy = TRUE /\ order[a].isBuy = FALSE
      BY <1>2, <2>1, Zenon
    <2> QED BY <1>2, <1>3, <2>2 DEF OrdersOf
  <1>6. quantity[a] \in Nat /\ quantity[b] \in Nat
    BY <1>4 DEF TypeOK
  <1>7. /\ qty(b, a) \in Nat /\ qty(b, a) <= quantity[b] /\ qty(b, a) <= quantity[a]
        /\ quantity[a] - qty(b, a) \in Nat /\ quantity[b] - qty(b, a) \in Nat
    BY <1>6 DEF Lesser
  <1> HIDE DEF qty
  <1>8. [buy |-> b, sell |-> a, price |-> order[a].price, quantity |-> qty(b, a)] \in MatchedOrder
    BY <1>4, <1>7 DEF MatchedOrder
  <1>9. quantity' = [quantity EXCEPT ![a] = quantity[a] - qty(b, a), ![b] = quantity[b] - qty(b, a)]
    BY <1>1, <1>3, <1>4 DEF TypeOK
  <1>10. book' \subseteq book
    BY <1>1
  <1> QED BY <1>1, <1>2, <1>3, <1>4, <1>5, <1>7, <1>8, <1>9, <1>10

LEMMA InitTyped == Init => Typed
  BY EngineAssumption DEF Init, Typed, TypeOK, Trading, Orders

LEMMA NextTyped == Typed /\ [Next]_vars => Typed'
  <1> SUFFICES ASSUME TypeOK, Trading, [Next]_vars PROVE TypeOK' /\ Trading'
    BY DEF Typed
  <1>n. MaxOrders \in Nat /\ Prices \subseteq Nat /\ Quantities \subseteq Nat /\ Free \notin Slots
    BY EngineAssumption
  <1>1. ASSUME NEW new \in Order, AddOrder(new) PROVE TypeOK' /\ Trading'
    <2>1. /\ order' = Append(order, new) /\ Len(order) < MaxOrders /\ order \in Seq(Order)
          /\ running = Free /\ matches = <<>>
      BY <1>1 DEF AddOrder, TypeOK, Trading
    <2>2. /\ order' \in Seq(Order) /\ Len(order') = Len(order) + 1
          /\ DOMAIN order' = DOMAIN order \cup {Len(order) + 1}
      BY <2>1, Appended
    <2>3. Len(order) \in Nat /\ Len(order') \in Orders /\ Len(order') <= MaxOrders
      BY <2>1, <2>2, <1>n DEF Orders
    <2>4. book' \subseteq DOMAIN order'
      BY <1>1, <2>2 DEF AddOrder, TypeOK
    <2>5. new.quantity \in Nat
      BY <1>n DEF Order
    <2>6. quantity' \in [Orders -> Nat]
      BY <1>1, <2>3, <2>5 DEF AddOrder, TypeOK
    <2>7. UNCHANGED <<running, matches, filled, lost, totalVolume>>
      BY <1>1 DEF AddOrder
    <2>8. TypeOK'
      BY <2>2, <2>3, <2>4, <2>6, <2>7 DEF TypeOK
    <2>9. Trading'
      BY <2>1, <2>7 DEF Trading
    <2> QED BY <2>8, <2>9
  <1>2. ASSUME NEW o \in book, CancelOrder(o) PROVE TypeOK' /\ Trading'
    BY <1>2 DEF CancelOrder, TypeOK, Trading, OrdersOf
  <1>3. ASSUME NEW s \in Slots, BeginAuction(s) PROVE TypeOK' /\ Trading'
    BY <1>3, <1>n DEF BeginAuction, TypeOK, Trading, OrdersOf
  <1>4. ASSUME NEW s \in Slots, MatchOrders(s) PROVE TypeOK' /\ Trading'
    <2>1. PICK b \in OrdersOf(s, TRUE), a \in OrdersOf(s, FALSE), qty \in Nat :
            /\ b \in Orders /\ a \in Orders
            /\ quantity[a] - qty \in Nat /\ quantity[b] - qty \in Nat
            /\ [buy |-> b, sell |-> a, price |-> order[a].price, quantity |-> qty] \in MatchedOrder
            /\ matches' = Append(matches, [buy |-> b, sell |-> a, price |-> order[a].price,
                                           quantity |-> qty])
            /\ quantity' = [quantity EXCEPT ![a] = quantity[a] - qty, ![b] = quantity[b] - qty]
            /\ book' \subseteq book
      BY <1>4, MatchStep, ZenonT(30)
    <2> DEFINE m == [buy |-> b, sell |-> a, price |-> order[a].price, quantity |-> qty]
    <2>2. m.buy = b /\ m.sell = a
      OBVIOUS
    <2>3. m \in MatchedOrder /\ matches' = Append(matches, m) /\ matches \in Seq(MatchedOrder)
      BY <2>1 DEF TypeOK
    <2> HIDE DEF m
    <2>4. /\ matches' \in Seq(MatchedOrder) /\ DOMAIN matches' = DOMAIN matches \cup {Len(matches) + 1}
          /\ \A k \in DOMAIN matches : matches'[k] = matches[k]
          /\ matches'[Len(matches) + 1] = m
      BY <2>3, Appended
    <2>5. UNCHANGED <<order, running, filled, lost, totalVolume>> /\ running = s
      BY <1>4 DEF MatchOrders
    <2>6. quantity' \in [Orders -> Nat] /\ book' \subseteq DOMAIN order'
      BY <2>1, <2>5 DEF TypeOK
    <2>7. TypeOK'
      BY <2>4, <2>5, <2>6 DEF TypeOK
    <2>8. ASSUME NEW k \in DOMAIN matches'
          PROVE  matches'[k].buy \in OrdersOf(s, TRUE) /\ matches'[k].sell \in OrdersOf(s, FALSE)
      BY <2>2, <2>4, <2>5, <1>n DEF Trading
    <2>9. Trading'
      BY <2>5, <2>8, <1>n DEF Trading, OrdersOf
    <2> QED BY <2>7, <2>9
  <1>5. ASSUME NEW s \in Slots, EndAuction(s) PROVE TypeOK' /\ Trading'
    <2> DEFINE W == Winners
               L == DOMAIN matches \ W
    <2>1. matches \in Seq(MatchedOrder) /\ W \in SUBSET DOMAIN matches /\ L \in SUBSET DOMAIN matches
      BY DEF TypeOK, Winners
    <2>2. /\ filled' = [o \in Orders |-> filled[o] + VolumeOf(o, matches, W)]
          /\ lost' = [o \in Orders |-> lost[o] + VolumeOf(o, matches, L)]
          /\ totalVolume' = totalVolume + SumFunctionOnSet(QuantitiesOf(matches), W)
      BY <1>5 DEF EndAuction, executeMatches, QuantitiesOf
    <2> HIDE DEF W, L
    <2>3. \A o \in Orders : VolumeOf(o, matches, W) \in Nat /\ VolumeOf(o, matches, L) \in Nat
      BY <2>1, VolumeNat
    <2>4. SumFunctionOnSet(QuantitiesOf(matches), W) \in Nat
      <3>1. \A k \in W : matches[k] \in MatchedOrder
        BY <2>1
      <3>2. \A k \in W : QuantitiesOf(matches)[k] \in Nat
        BY <2>1, <3>1 DEF QuantitiesOf, MatchedOrder
      <3> QED BY <2>1, <3>2, FiniteDomain, SumNat
    <2>5. filled' \in [Orders -> Nat] /\ lost' \in [Orders -> Nat] /\ totalVolume' \in Nat
      BY <2>2, <2>3, <2>4, SMTT(30) DEF TypeOK
    <2>6. running' = Free /\ matches' = <<>> /\ UNCHANGED <<order, book, quantity>>
      BY <1>5 DEF EndAuction
    <2>7. matches' \in Seq(MatchedOrder) /\ DOMAIN matches' = {}
      BY <2>6
    <2> QED BY <2>5, <2>6, <2>7 DEF TypeOK, Trading
  <1>6. CASE UNCHANGED vars
    BY <1>6 DEF vars, TypeOK, Trading, OrdersOf
  <1> QED BY <1>1, <1>2, <1>3, <1>4, <1>5, <1>6 DEF Next

\* engine_pure_go.go: every field keeps its type; no remaining quantity, an
\* unsigned number in the code, goes below zero.
THEOREM TypeCorrect == Spec => []TypeOK
  <1>1. Typed => TypeOK
    BY DEF Typed
  <1> QED BY <1>1, InitTyped, NextTyped, PTL DEF Spec

LEMMA AlwaysTyped == Spec => []Typed
  BY InitTyped, NextTyped, PTL DEF Spec

-----------------------------------------------------------------------------
(* Price priority. *)

\* matchOrders: no order trades at a worse price than its limit, and none that
\* is left in the book has a better price than one that traded.
THEOREM BestPricesTrade == Spec => []PricePriority
  <1>1. Init => PricePriority
    BY DEF Init, PricePriority
  <1>2. Typed /\ PricePriority /\ [Next]_vars => PricePriority'
    <2> SUFFICES ASSUME TypeOK, Trading, PricePriority, [Next]_vars PROVE PricePriority'
      BY DEF Typed
    <2>1. CASE \E s \in Slots : MatchOrders(s)
      <3>1. PICK s \in Slots : MatchOrders(s)
        BY <2>1
      <3>2. PICK b \in BestBids(s), a \in BestAsks(s), qty \in Nat :
              /\ b \in Bids(s) /\ a \in Asks(s) /\ Crosses(b, a)
              /\ [buy |-> b, sell |-> a, price |-> order[a].price, quantity |-> qty] \in MatchedOrder
              /\ matches' = Append(matches, [buy |-> b, sell |-> a, price |-> order[a].price,
                                             quantity |-> qty])
              /\ book' \subseteq book
        BY <3>1, MatchStep, ZenonT(30)
      <3> DEFINE m == [buy |-> b, sell |-> a, price |-> order[a].price, quantity |-> qty]
      <3>3. m.buy = b /\ m.sell = a /\ m.price = order[a].price
        OBVIOUS
      <3>4. m \in MatchedOrder /\ matches' = Append(matches, m) /\ matches \in Seq(MatchedOrder)
        BY <3>2 DEF TypeOK
      <3> HIDE DEF m
      <3>5. /\ DOMAIN matches' = DOMAIN matches \cup {Len(matches) + 1}
            /\ \A k \in DOMAIN matches : matches'[k] = matches[k]
            /\ matches'[Len(matches) + 1] = m
        BY <3>4, Appended
      <3>6. running = s /\ running' = s /\ order' = order /\ s # Free
        BY <3>1, EngineAssumption DEF MatchOrders
      <3>7. Bids(s)' \subseteq Bids(s) /\ Asks(s)' \subseteq Asks(s)
        BY <3>2, <3>6 DEF Bids, Asks
      <3>8. /\ order[b].price >= order[a].price
            /\ \A o \in Bids(s) : order[o].price <= order[b].price
            /\ \A o \in Asks(s) : order[o].price >= order[a].price
            /\ order[a].price \in Nat
        <4>1. a \in DOMAIN order
          BY <3>2 DEF Asks, TypeOK
        <4> QED BY <3>2, <4>1, KnownOrders DEF BestBids, BestAsks, Crosses
      <3>9. ASSUME NEW k \in DOMAIN matches'
            PROVE  /\ order[matches'[k].buy].price >= matches'[k].price
                   /\ matches'[k].price >= order[matches'[k].sell].price
                   /\ \A o \in Bids(s)' : order[o].price <= order[matches'[k].buy].price
                   /\ \A o \in Asks(s)' : order[o].price >= order[matches'[k].sell].price
        <4>1. CASE k = Len(matches) + 1
          <5>1. matches'[k] = m
            BY <3>5, <4>1
          <5> QED BY <3>3, <3>7, <3>8, <5>1
        <4>2. CASE k \in DOMAIN matches
          BY <3>5, <3>6, <3>7, <4>2 DEF PricePriority
        <4> QED BY <3>5, <4>1, <4>2
      <3> QED BY <3>6, <3>9 DEF PricePriority, Bids, Asks
    <2>2. CASE running' = Free
      BY <2>2 DEF PricePriority
    <2>3. CASE \E s \in Slots : BeginAuction(s)
      <3>1. DOMAIN matches' = {}
        BY <2>3 DEF BeginAuction, Trading
      <3> QED BY <3>1 DEF PricePriority
    <2>4. CASE UNCHANGED vars
      BY <2>4 DEF vars, PricePriority, Bids, Asks
    <2>5. \/ \E s \in Slots : MatchOrders(s)
          \/ running' = Free
          \/ \E s \in Slots : BeginAuction(s)
          \/ UNCHANGED vars
      BY DEF Next, AddOrder, CancelOrder, EndAuction
    <2> QED BY <2>1, <2>2, <2>3, <2>4, <2>5
  <1> QED BY <1>1, <1>2, AlwaysTyped, PTL DEF Spec

-----------------------------------------------------------------------------
(* The units of each order. *)

\* The first part of UnitsAccounted, and that an id not yet given has nothing.
OrdersAccounted ==
    /\ \A o \in DOMAIN order :
         order[o].quantity = quantity[o] + filled[o] + lost[o] + VolumeOf(o, matches, DOMAIN matches)
    /\ \A o \in Orders \ DOMAIN order : filled[o] = 0 /\ lost[o] = 0

LEMMA NothingMatched ==
    ASSUME NEW o
    PROVE  VolumeOf(o, <<>>, DOMAIN <<>>) = 0
  <1>1. DOMAIN <<>> = {}
    OBVIOUS
  <1> QED BY <1>1, VolumeIsSum, SumEmpty

LEMMA InitOrders == Init => OrdersAccounted
  BY DEF Init, OrdersAccounted

LEMMA NextOrders == Typed /\ Typed' /\ OrdersAccounted /\ [Next]_vars => OrdersAccounted'
  <1> SUFFICES ASSUME TypeOK, TypeOK', Trading, OrdersAccounted, [Next]_vars
               PROVE  OrdersAccounted'
    BY DEF Typed
  <1>1. ASSUME NEW new \in Order, AddOrder(new) PROVE OrdersAccounted'
    <2> DEFINE n == Len(order) + 1
    <2>1. /\ order' = Append(order, new) /\ order \in Seq(Order)
          /\ running = Free /\ matches = <<>> /\ matches' = <<>>
          /\ UNCHANGED <<filled, lost>>
      BY <1>1 DEF AddOrder, TypeOK, Trading
    <2>2. /\ Len(order') = n /\ DOMAIN order' = DOMAIN order \cup {n} /\ n \notin DOMAIN order
          /\ \A o \in DOMAIN order : order'[o] = order[o]
          /\ order'[n] = new
      BY <2>1, Appended
    <2>3. n \in Orders /\ n \in DOMAIN order'
      BY <2>2, EngineAssumption DEF TypeOK, Orders
    <2> HIDE DEF n
    <2>4. quantity' = [quantity EXCEPT ![n] = new.quantity] /\ new.quantity \in Nat
      BY <1>1, <2>2, EngineAssumption DEF AddOrder, Order
    <2>5. ASSUME NEW o \in DOMAIN order'
          PROVE  order'[o].quantity = quantity'[o] + filled'[o] + lost'[o]
                                        + VolumeOf(o, matches', DOMAIN matches')
      <3>1. VolumeOf(o, matches', DOMAIN matches') = 0 /\ VolumeOf(o, matches, DOMAIN matches) = 0
        BY <2>1, NothingMatched
      <3>2. CASE o = n
        <4>1. quantity'[o] = new.quantity /\ filled'[o] = 0 /\ lost'[o] = 0
          BY <2>1, <2>2, <2>3, <2>4, <3>2 DEF TypeOK, OrdersAccounted
        <4> QED BY <2>2, <2>4, <3>1, <3>2, <4>1
      <3>3. CASE o # n
        <4>1. o \in DOMAIN order /\ order'[o] = order[o] /\ quantity'[o] = quantity[o]
          BY <2>2, <2>4, <3>3 DEF TypeOK
        <4> QED BY <2>1, <3>1, <4>1 DEF OrdersAccounted
      <3> QED BY <3>2, <3>3
    <2>6. \A o \in Orders \ DOMAIN order' : filled'[o] = 0 /\ lost'[o] = 0
      BY <2>1, <2>2 DEF OrdersAccounted
    <2> QED BY <2>5, <2>6 DEF OrdersAccounted
  <1>2. ASSUME NEW s \in Slots, MatchOrders(s) PROVE OrdersAccounted'
    <2>1. PICK b \in Orders, a \in Orders, qty \in Nat :
            /\ a # b
            /\ quantity[a] - qty \in Nat /\ quantity[b] - qty \in Nat
            /\ [buy |-> b, sell |-> a, price |-> order[a].price, quantity |-> qty] \in MatchedOrder
            /\ matches' = Append(matches, [buy |-> b, sell |-> a, price |-> order[a].price,
                                           quantity |-> qty])
            /\ quantity' = [quantity EXCEPT ![a] = quantity[a] - qty, ![b] = quantity[b] - qty]
      BY <1>2, MatchStep, ZenonT(30)
    <2> DEFINE m == [buy |-> b, sell |-> a, price |-> order[a].price, quantity |-> qty]
    <2>2. \A o : PartIn(o, m) = IF o \in {a, b} THEN qty ELSE 0
      BY DEF PartIn
    <2>3. m \in MatchedOrder /\ matches' = Append(matches, m) /\ matches \in Seq(MatchedOrder)
      BY <2>1 DEF TypeOK
    <2> HIDE DEF m
    <2>4. UNCHANGED <<order, filled, lost>>
      BY <1>2 DEF MatchOrders
    <2>5. ASSUME NEW o \in DOMAIN order
          PROVE  order[o].quantity = quantity'[o] + filled[o] + lost[o]
                                        + VolumeOf(o, matches', DOMAIN matches')
      <3> DEFINE v == VolumeOf(o, matches, DOMAIN matches)
      <3>1. VolumeOf(o, matches', DOMAIN matches') = v + PartIn(o, m)
        BY <2>3, VolumeAppend
      <3>2. v \in Nat
        BY <2>3, VolumeNat
      <3> HIDE DEF v
      <3>3. o \in Orders /\ quantity[o] \in Nat /\ filled[o] \in Nat /\ lost[o] \in Nat
        BY KnownOrders DEF TypeOK
      <3>4. order[o].quantity = quantity[o] + filled[o] + lost[o] + v
        BY DEF OrdersAccounted, v
      <3>5. CASE o \in {a, b}
        <4>1. quantity'[o] = quantity[o] - qty /\ PartIn(o, m) = qty
          BY <2>1, <2>2, <3>5 DEF TypeOK
        <4> QED BY <3>1, <3>2, <3>3, <3>4, <4>1
      <3>6. CASE o \notin {a, b}
        <4>1. quantity'[o] = quantity[o] /\ PartIn(o, m) = 0
          BY <2>1, <2>2, <3>3, <3>6 DEF TypeOK
        <4> QED BY <3>1, <3>2, <3>3, <3>4, <4>1
      <3> QED BY <3>5, <3>6
    <2> QED BY <2>4, <2>5 DEF OrdersAccounted
  <1>3. ASSUME NEW s \in Slots, EndAuction(s) PROVE OrdersAccounted'
    <2> DEFINE W == Winners
               L == DOMAIN matches \ W
    <2>1. matches \in Seq(MatchedOrder) /\ W \in SUBSET DOMAIN matches /\ L \in SUBSET DOMAIN matches
      BY DEF TypeOK, Winners
    <2>2. /\ filled' = [o \in Orders |-> filled[o] + VolumeOf(o, matches, W)]
          /\ lost' = [o \in Orders |-> lost[o] + VolumeOf(o, matches, L)]
          /\ matches' = <<>> /\ UNCHANGED <<order, quantity>>
      BY <1>3 DEF EndAuction, executeMatches
    <2>3. ASSUME NEW o \in DOMAIN order
          PROVE  order[o].quantity = quantity[o] + filled'[o] + lost'[o]
                                        + VolumeOf(o, matches', DOMAIN matches')
      <3> DEFINE v == VolumeOf(o, matches, DOMAIN matches)
                 w == VolumeOf(o, matches, W)
                 l == VolumeOf(o, matches, L)
      <3>1. VolumeOf(o, matches', DOMAIN matches') = 0
        BY <2>2, NothingMatched
      <3>2. o \in Orders /\ quantity[o] \in Nat /\ filled[o] \in Nat /\ lost[o] \in Nat
        BY KnownOrders DEF TypeOK
      <3>3. v = w + l /\ w \in Nat /\ l \in Nat
        <4> HIDE DEF W
        <4> QED BY <2>1, VolumeSplit, VolumeNat
      <3>4. filled'[o] = filled[o] + w /\ lost'[o] = lost[o] + l
        BY <2>2, <3>2
      <3>5. order[o].quantity = quantity[o] + filled[o] + lost[o] + v
        BY DEF OrdersAccounted
      <3> HIDE DEF v, w, l
      <3> QED BY <3>1, <3>2, <3>3, <3>4, <3>5
    <2>4. ASSUME NEW o \in Orders \ DOMAIN order PROVE filled'[o] = 0 /\ lost'[o] = 0
      <3>1. \A k \in DOMAIN matches : o \notin {matches[k].buy, matches[k].sell}
        BY DEF Trading, OrdersOf
      <3>2. \A k \in DOMAIN matches : PartsIn(o, matches)[k] = 0
        BY <3>1 DEF PartsIn, PartIn
      <3>3. VolumeOf(o, matches, W) = 0 /\ VolumeOf(o, matches, L) = 0
        <4> HIDE DEF W
        <4>1. IsFiniteSet(W) /\ IsFiniteSet(L)
          BY <2>1, FiniteDomain
        <4> HIDE DEF L
        <4>2. (\A k \in W : PartsIn(o, matches)[k] = 0) /\ (\A k \in L : PartsIn(o, matches)[k] = 0)
          BY <2>1, <3>2
        <4> QED BY <4>1, <4>2, SumZero, VolumeIsSum
      <3>4. filled[o] = 0 /\ lost[o] = 0
        BY DEF OrdersAccounted
      <3> HIDE DEF W, L
      <3> QED BY <2>2, <3>3, <3>4
    <2> QED BY <2>2, <2>3, <2>4 DEF OrdersAccounted
  <1>4. CASE UNCHANGED <<order, quantity, matches, filled, lost>>
    BY <1>4 DEF OrdersAccounted
  <1>5. \/ \E new \in Order : AddOrder(new)
        \/ \E s \in Slots : MatchOrders(s) \/ EndAuction(s)
        \/ UNCHANGED <<order, quantity, matches, filled, lost>>
    BY DEF Next, CancelOrder, BeginAuction, vars
  <1> QED BY <1>1, <1>2, <1>3, <1>4, <1>5

-----------------------------------------------------------------------------
(* The two sides of the market. *)

Buyers == UNION {OrdersOf(s, TRUE) : s \in Slots}

\* The other parts of UnitsAccounted.
SidesBalance ==
    /\ \A s \in Slots : SumFunctionOnSet(filled, OrdersOf(s, TRUE))
                          = SumFunctionOnSet(filled, OrdersOf(s, FALSE))
    /\ totalVolume = SumFunctionOnSet(filled, Buyers)

LEMMA SidesFinite ==
    ASSUME TypeOK, NEW O \in SUBSET DOMAIN order
    PROVE  IsFiniteSet(O) /\ O \subseteq Orders /\ \A o \in O : filled[o] \in Int
  <1>1. IsFiniteSet(O)
    BY FiniteDomain DEF TypeOK
  <1>2. O \subseteq Orders
    BY KnownOrders
  <1> QED BY <1>1, <1>2 DEF TypeOK

\* A new order, which has nothing yet, changes no sum.
LEMMA NewOrderAddsNothing ==
    ASSUME TypeOK, NEW O \in SUBSET DOMAIN order, NEW n \in Orders \ DOMAIN order, filled[n] = 0,
           NEW P, P = O \/ P = O \cup {n}
    PROVE  SumFunctionOnSet(filled, P) = SumFunctionOnSet(filled, O)
  <1>1. CASE P = O
    BY <1>1
  <1>2. CASE P = O \cup {n}
    <2>1. IsFiniteSet(O) /\ n \notin O /\ \A o \in O \cup {n} : filled[o] \in Int
      BY SidesFinite
    <2>2. SumFunctionOnSet(filled, O \cup {n}) = filled[n] + SumFunctionOnSet(filled, O)
      BY <2>1, SumAdd
    <2>3. SumFunctionOnSet(filled, O) \in Int
      BY <2>1, SumInt
    <2> QED BY <1>2, <2>2, <2>3
  <1> QED BY <1>1, <1>2

\* An auction's winners raise the sum of each side of its slot by what they trade.
LEMMA SideGrows ==
    ASSUME TypeOK, NEW W \in SUBSET DOMAIN matches, NEW O \in SUBSET DOMAIN order,
           NEW who \in [W -> O],
           \A k \in W : \A o \in O : o \in {matches[k].buy, matches[k].sell} <=> o = who[k],
           filled' = [o \in Orders |-> filled[o] + VolumeOf(o, matches, W)]
    PROVE  SumFunctionOnSet(filled', O)
             = SumFunctionOnSet(filled, O) + SumFunctionOnSet(QuantitiesOf(matches), W)
  <1> DEFINE volumes == [o \in O |-> VolumeOf(o, matches, W)]
  <1>1. IsFiniteSet(O) /\ O \subseteq Orders /\ \A o \in O : filled[o] \in Int
    BY SidesFinite
  <1>2. matches \in Seq(MatchedOrder)
    BY DEF TypeOK
  <1>3. SumFunctionOnSet(volumes, O) = SumFunctionOnSet(QuantitiesOf(matches), W)
    BY <1>1, <1>2, VolumeShared
  <1>4. ASSUME NEW o \in O
        PROVE  filled[o] \in Int /\ volumes[o] \in Int /\ filled'[o] = filled[o] + volumes[o]
    <2>1. VolumeOf(o, matches, W) \in Nat
      BY <1>2, VolumeNat
    <2> QED BY <1>1, <2>1
  <1> HIDE DEF volumes
  <1>5. SumFunctionOnSet(filled', O) = SumFunctionOnSet(filled, O) + SumFunctionOnSet(volumes, O)
    BY <1>1, <1>4, SumPlus
  <1> QED BY <1>3, <1>5

\* Orders without a match keep their sum.
LEMMA SideStays ==
    ASSUME TypeOK, NEW W \in SUBSET DOMAIN matches, NEW O \in SUBSET DOMAIN order,
           \A k \in W : \A o \in O : o \notin {matches[k].buy, matches[k].sell},
           filled' = [o \in Orders |-> filled[o] + VolumeOf(o, matches, W)]
    PROVE  SumFunctionOnSet(filled', O) = SumFunctionOnSet(filled, O)
  <1>1. IsFiniteSet(O) /\ O \subseteq Orders /\ \A o \in O : filled[o] \in Int
    BY SidesFinite
  <1>2. IsFiniteSet(W)
    BY FiniteDomain DEF TypeOK
  <1>3. ASSUME NEW o \in O PROVE filled'[o] = filled[o]
    <2>1. \A k \in W : PartsIn(o, matches)[k] = 0
      BY DEF PartsIn, PartIn
    <2>2. VolumeOf(o, matches, W) = 0
      BY <1>2, <2>1, SumZero, VolumeIsSum
    <2>3. filled[o] \in Int /\ o \in Orders
      BY <1>1
    <2> QED BY <2>2, <2>3
  <1> DEFINE after == filled'
  <1>4. \A o \in O : after[o] = filled[o]
    BY <1>3
  <1> HIDE DEF after
  <1>5. SumFunctionOnSet(after, O) = SumFunctionOnSet(filled, O)
    BY <1>1, <1>4, SumEqual
  <1> QED BY <1>5 DEF after

LEMMA InitSides == Init => SidesBalance
  <1> SUFFICES ASSUME Init PROVE SidesBalance
    OBVIOUS
  <1>1. DOMAIN order = {}
    BY DEF Init
  <1>2. Buyers = {} /\ \A s \in Slots : OrdersOf(s, TRUE) = {} /\ OrdersOf(s, FALSE) = {}
    BY <1>1 DEF OrdersOf, Buyers
  <1> QED BY <1>2, SumEmpty DEF Init, SidesBalance

LEMMA AddOrderSides ==
    ASSUME TypeOK, OrdersAccounted, SidesBalance, NEW new \in Order, AddOrder(new)
    PROVE  SidesBalance'
  <1> DEFINE n == Len(order) + 1
  <1>1. order' = Append(order, new) /\ order \in Seq(Order) /\ UNCHANGED <<filled, totalVolume>>
    BY DEF AddOrder, TypeOK
  <1>2. /\ DOMAIN order' = DOMAIN order \cup {n} /\ n \notin DOMAIN order
        /\ \A o \in DOMAIN order : order'[o] = order[o]
        /\ order'[n] = new
    BY <1>1, Appended
  <1>3. n \in Orders \ DOMAIN order
    BY <1>2, EngineAssumption DEF AddOrder, TypeOK, Orders
  <1> HIDE DEF n
  <1>4. filled[n] = 0
    BY <1>3 DEF OrdersAccounted
  <1>5. ASSUME NEW s \in Slots, NEW side
        PROVE  OrdersOf(s, side)' = OrdersOf(s, side) \/ OrdersOf(s, side)' = OrdersOf(s, side) \cup {n}
    <2>1. CASE new.slot = s /\ new.isBuy = side
      <3>1. OrdersOf(s, side)' = OrdersOf(s, side) \cup {n}
        BY <1>2, <2>1 DEF OrdersOf
      <3> QED BY <3>1
    <2>2. CASE ~ (new.slot = s /\ new.isBuy = side)
      <3>1. OrdersOf(s, side)' = OrdersOf(s, side)
        BY <1>2, <2>2 DEF OrdersOf
      <3> QED BY <3>1
    <2> QED BY <2>1, <2>2
  <1>6. ASSUME NEW s \in Slots, NEW side
        PROVE  SumFunctionOnSet(filled, OrdersOf(s, side)') = SumFunctionOnSet(filled, OrdersOf(s, side))
    <2>1. OrdersOf(s, side) \in SUBSET DOMAIN order
      BY DEF OrdersOf
    <2> QED BY <1>3, <1>4, <1>5, <2>1, NewOrderAddsNothing
  <1>7. Buyers' = Buyers \/ Buyers' = Buyers \cup {n}
    <2>1. Buyers = {o \in DOMAIN order : order[o].slot \in Slots /\ order[o].isBuy = TRUE}
      BY DEF Buyers, OrdersOf
    <2>2. Buyers' = {o \in DOMAIN order' : order'[o].slot \in Slots /\ order'[o].isBuy = TRUE}
      BY DEF Buyers, OrdersOf
    <2>3. CASE new.slot \in Slots /\ new.isBuy = TRUE
      <3>1. Buyers' = Buyers \cup {n}
        BY <1>2, <2>1, <2>2, <2>3
      <3> QED BY <3>1
    <2>4. CASE ~ (new.slot \in Slots /\ new.isBuy = TRUE)
      <3>1. Buyers' = Buyers
        BY <1>2, <2>1, <2>2, <2>4
      <3> QED BY <3>1
    <2> QED BY <2>3, <2>4
  <1>8. SumFunctionOnSet(filled, Buyers') = SumFunctionOnSet(filled, Buyers)
    <2>1. Buyers \in SUBSET DOMAIN order
      BY DEF Buyers, OrdersOf
    <2> QED BY <1>3, <1>4, <1>7, <2>1, NewOrderAddsNothing
  <1> QED BY <1>1, <1>6, <1>8 DEF SidesBalance

LEMMA EndAuctionSides ==
    ASSUME TypeOK, Trading, SidesBalance, NEW s \in Slots, EndAuction(s)
    PROVE  SidesBalance'
  <1> DEFINE W == Winners
             traded == SumFunctionOnSet(QuantitiesOf(matches), W)
  <1>1. /\ W \in SUBSET DOMAIN matches /\ running = s /\ UNCHANGED order
        /\ filled' = [o \in Orders |-> filled[o] + VolumeOf(o, matches, W)]
        /\ totalVolume' = totalVolume + traded
    BY DEF EndAuction, executeMatches, QuantitiesOf, Winners
  <1> HIDE DEF W
  <1>2. \A k \in W : matches[k].buy \in OrdersOf(s, TRUE) /\ matches[k].sell \in OrdersOf(s, FALSE)
    BY <1>1 DEF Trading
  <1>3. /\ \A u \in Slots, side \in BOOLEAN : OrdersOf(u, side) \in SUBSET DOMAIN order
        /\ Buyers \in SUBSET DOMAIN order /\ OrdersOf(s, TRUE) \subseteq Buyers
        /\ Buyers \cap OrdersOf(s, FALSE) = {}
    BY DEF OrdersOf, Buyers
  <1>4. SumFunctionOnSet(filled', OrdersOf(s, TRUE)) = SumFunctionOnSet(filled, OrdersOf(s, TRUE)) + traded
    <2> DEFINE O == OrdersOf(s, TRUE)
               who == [k \in W |-> matches[k].buy]
    <2>1. who \in [W -> O] /\ O \in SUBSET DOMAIN order
      BY <1>2, <1>3
    <2>2. \A k \in W : \A o \in O : o \in {matches[k].buy, matches[k].sell} <=> o = who[k]
      BY <1>2, <1>3
    <2> HIDE DEF O, who
    <2>3. SumFunctionOnSet(filled', O) = SumFunctionOnSet(filled, O) + traded
      BY <1>1, <2>1, <2>2, SideGrows
    <2> QED BY <2>3 DEF O
  <1>5. SumFunctionOnSet(filled', OrdersOf(s, FALSE)) = SumFunctionOnSet(filled, OrdersOf(s, FALSE)) + traded
    <2> DEFINE O == OrdersOf(s, FALSE)
               who == [k \in W |-> matches[k].sell]
    <2>1. who \in [W -> O] /\ O \in SUBSET DOMAIN order
      BY <1>2, <1>3
    <2>2. \A k \in W : \A o \in O : o \in {matches[k].buy, matches[k].sell} <=> o = who[k]
      BY <1>2, <1>3
    <2> HIDE DEF O, who
    <2>3. SumFunctionOnSet(filled', O) = SumFunctionOnSet(filled, O) + traded
      BY <1>1, <2>1, <2>2, SideGrows
    <2> QED BY <2>3 DEF O
  <1>6. SumFunctionOnSet(filled', Buyers) = SumFunctionOnSet(filled, Buyers) + traded
    <2> DEFINE who == [k \in W |-> matches[k].buy]
    <2>1. who \in [W -> Buyers]
      BY <1>2, <1>3
    <2>2. \A k \in W : \A o \in Buyers : o \in {matches[k].buy, matches[k].sell} <=> o = who[k]
      BY <1>2, <1>3
    <2> HIDE DEF who
    <2> QED BY <1>1, <1>3, <2>1, <2>2, SideGrows
  <1>7. ASSUME NEW u \in Slots, u # s, NEW side \in BOOLEAN
        PROVE  SumFunctionOnSet(filled', OrdersOf(u, side)) = SumFunctionOnSet(filled, OrdersOf(u, side))
    <2>1. \A k \in W : \A o \in OrdersOf(u, side) : o \notin {matches[k].buy, matches[k].sell}
      BY <1>2, <1>7 DEF OrdersOf
    <2>2. OrdersOf(u, side) \in SUBSET DOMAIN order
      BY DEF OrdersOf
    <2> QED BY <1>1, <2>1, <2>2, SideStays
  <1>8. Buyers' = Buyers /\ \A u \in Slots, side \in BOOLEAN : OrdersOf(u, side)' = OrdersOf(u, side)
    BY <1>1 DEF Buyers, OrdersOf
  <1> HIDE DEF traded
  <1>9. ASSUME NEW u \in Slots
        PROVE  SumFunctionOnSet(filled', OrdersOf(u, TRUE)) = SumFunctionOnSet(filled', OrdersOf(u, FALSE))
    <2>1. SumFunctionOnSet(filled, OrdersOf(u, TRUE)) = SumFunctionOnSet(filled, OrdersOf(u, FALSE))
      BY DEF SidesBalance
    <2>2. CASE u = s
      BY <1>4, <1>5, <2>1, <2>2
    <2>3. CASE u # s
      BY <1>7, <2>1, <2>3
    <2> QED BY <2>2, <2>3
  <1> QED BY <1>1, <1>6, <1>8, <1>9 DEF SidesBalance

\* RunBatchAuction, AddOrder and CancelOrder, in any order and any number: every
\* unit of an order is in its remaining quantity or was matched, once; in every
\* slot as much is bought as is sold; totalVolume is the sum of it.
THEOREM EveryUnitAccounted == Spec => []UnitsAccounted
  <1>1. Typed /\ OrdersAccounted /\ SidesBalance /\ [Next]_vars => SidesBalance'
    <2> SUFFICES ASSUME TypeOK, Trading, OrdersAccounted, SidesBalance, [Next]_vars
                 PROVE  SidesBalance'
      BY DEF Typed
    <2>1. CASE \E new \in Order : AddOrder(new)
      BY <2>1, AddOrderSides
    <2>2. CASE \E s \in Slots : EndAuction(s)
      BY <2>2, EndAuctionSides
    <2>3. CASE UNCHANGED <<order, filled, totalVolume>>
      BY <2>3 DEF SidesBalance, Buyers, OrdersOf
    <2>4. \/ \E new \in Order : AddOrder(new)
          \/ \E s \in Slots : EndAuction(s)
          \/ UNCHANGED <<order, filled, totalVolume>>
      BY DEF Next, CancelOrder, BeginAuction, MatchOrders, vars
    <2> QED BY <2>1, <2>2, <2>3, <2>4
  <1>2. Typed /\ OrdersAccounted /\ SidesBalance => UnitsAccounted
    <2> SUFFICES ASSUME TypeOK, Trading, OrdersAccounted, SidesBalance
                 PROVE  UnitsAccounted
      BY DEF Typed
    <2>1. ASSUME NEW o \in DOMAIN order
          PROVE  order[o].quantity = quantity[o] + filled[o] + lost[o]
                                       + IF running = Free THEN 0
                                         ELSE VolumeOf(o, matches, DOMAIN matches)
      <3>1. running = Free => VolumeOf(o, matches, DOMAIN matches) = 0
        BY NothingMatched DEF Trading
      <3> QED BY <3>1 DEF OrdersAccounted
    <2> QED BY <2>1 DEF UnitsAccounted, SidesBalance, Buyers
  <1> QED BY <1>1, <1>2, InitSides, InitOrders, NextOrders, AlwaysTyped, PTL DEF Spec
=============================================================================
