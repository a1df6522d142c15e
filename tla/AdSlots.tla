------------------------------- MODULE AdSlots -------------------------------
(***************************************************************************)
(* pkg/chainvm/adslot_rpc.go: perishable ad slots, sold as tokens that are  *)
(* burned when an impression is delivered, with sealed orders and a pool of *)
(* liquidity per slot.  Handlers run one at a time, as a VM executes its    *)
(* calls.  They write before they call the DEX, and what they wrote stays   *)
(* when that call fails: the failing outcomes are part of the actions.      *)
(*                                                                          *)
(* VMState is modelled as the maps the handlers use.  MintAsset, BurnAsset, *)
(* AddOrder, transferAUSD and the hash of a commitment are not in the       *)
(* repository: a burn needs the tokens, a transfer the balance, and a       *)
(* commitment is the price it hides.  Active is true for ever, since        *)
(* nothing clears it.  Reserves are counted in the smallest unit            *)
(* decimal.Div keeps, Scale units to the AUSD, and rates in units of 1/One. *)
(* LastPrice and the LP tokens are computed from the reserves and read by   *)
(* nothing; the Sqrt behind the LP tokens is not in the decimal library,    *)
(* and is taken not to fail.                                                *)
(***************************************************************************)
EXTENDS Integers, FiniteSets, Functions

CONSTANTS
    Slots,          \* slot ids
    SlotPublishers, Traders,
    Orders,         \* order ids
    None,           \* no slot, no order, no pool
    Windows,        \* [start, end] a CreateAdSlot may ask for
    Supplies,       \* MaxImpressions a CreateAdSlot may ask for
    Floors,         \* FloorCPM a CreateAdSlot may ask for, of any sign
    Prices,         \* LimitPrice of a PlaceOrder, a decimal of any sign
    SealedPrices,   \* prices a commitment may hide
    DeliveryCounts, \* RecordDeliveryRequest.Count
    Liquidities,    \* InitialAUSD of a CreateAdMM_Pool, of any sign
    SwapAmounts,    \* InitialSlots of a CreateAdMM_Pool and AmountIn of a SwapAdMM
    Rates,          \* TimeDecayRate, in units of 1/One, of any sign
    One, Scale,
    Word,           \* 2^64
    Funds,          \* AUSD every trader starts with
    Pool,           \* the account "pool"
    MaxReserve,     \* bound on the AUSD of a pool, which is a decimal
    MaxClock        \* bound on the clock

Holders == SlotPublishers \cup Traders

\* Floors are even: prices are counted in units half a floor is a number of,
\* as the premium of a slot begins with half its floor.
ASSUME AdSlotsAssumption ==
    /\ IsFiniteSet(Holders) /\ Windows \subseteq [start : Nat, end : Nat]
    /\ Word \in Nat \ {0} /\ Word % 2 = 0
    /\ Supplies \subseteq 0..(Word - 1) /\ DeliveryCounts \subseteq 0..(Word - 1)
    /\ SwapAmounts \subseteq 0..(Word - 1)
    /\ Prices \subseteq Int /\ SealedPrices \subseteq Int
    /\ \A floor \in Floors : floor \in Int /\ floor % 2 = 0
    /\ Liquidities \subseteq Int /\ Rates \subseteq Int
    /\ One \in Nat \ {0} /\ Scale \in Nat \ {0} /\ MaxClock \in Nat
    /\ Funds \in Nat /\ MaxReserve \in Nat

VARIABLES
    slots,      \* VMState ad slots
    tokens,     \* the registry of adslot-<id> tokens
    orders,     \* VMState ad slot orders
    book,       \* what the DEX got with each order
    pools,      \* VMState pools
    ausd,       \* AUSD balances of the traders and of the account "pool"
    clock       \* the clock

slotsVars == <<slots, tokens, orders, book, pools, ausd, clock>>

AdSlot ==
    [publisher : SlotPublishers, start : Nat, end : Nat, max : Nat, delivered : Nat, floor : Int]
AdSlotOrder ==
    [trader : Traders, slot : Slots, isBuy : BOOLEAN, sealed : BOOLEAN, limit : Int,
     commitment : Int, revealed : BOOLEAN]
uint64 == 0..(Word - 1)
AdMM_Pool == [ausd : Int, slots : uint64, rate : Int]
BookEntry == [slot : Slots, isBuy : BOOLEAN, price : Int]

ASSUME NoSlotAssumption ==
    None \notin AdSlot /\ None \notin AdSlotOrder /\ None \notin AdMM_Pool /\ None \notin BookEntry

SlotsTypeOK ==
    /\ slots \in [Slots -> AdSlot \cup {None}]
    /\ tokens \in [Slots -> [Holders -> Nat]]
    /\ orders \in [Orders -> AdSlotOrder \cup {None}]
    /\ book \in [Orders -> BookEntry \cup {None}]
    /\ pools \in [Slots -> AdMM_Pool \cup {None}]
    /\ ausd \in [Traders \cup {Pool} -> Nat]
    /\ clock \in Nat

SlotsInit ==
    /\ slots = [s \in Slots |-> None]
    /\ tokens = [s \in Slots |-> [h \in Holders |-> 0]]
    /\ orders = [o \in Orders |-> None]
    /\ book = [o \in Orders |-> None]
    /\ pools = [s \in Slots |-> None]
    /\ ausd = [h \in Traders \cup {Pool} |-> IF h = Pool THEN 0 ELSE Funds]
    /\ clock = 0

-----------------------------------------------------------------------------

\* CreateAdSlot: an id nobody had, all tokens to the publisher.  The slot
\* stays when the tokens cannot be minted.
CreateAdSlot(s, p, window, max, floor) ==
    /\ window.start <= window.end
    /\ window.end >= clock
    /\ max # 0
    /\ slots[s] = None
    /\ slots' = [slots EXCEPT ![s] =
         [publisher |-> p, start |-> window.start, end |-> window.end, max |-> max,
          delivered |-> 0, floor |-> floor]]
    /\ tokens' \in {tokens, [tokens EXCEPT ![s][p] = @ + max]}
    /\ UNCHANGED <<orders, book, pools, ausd, clock>>

\* Mutant of calculateCurrentPrice: the price decays towards zero.
calculateDecayingPrice(slot, now) ==
    IF now > slot.end THEN 0
    ELSE IF now < slot.start \/ slot.end = slot.start THEN slot.floor
    ELSE (slot.floor * (slot.end - now)) \div (slot.end - slot.start)

\* calculateCurrentPrice at the time now: the floor before the window; in it
\* the floor and a premium that falls from half of it to nothing.  Rounded up,
\* so that a limit reaches the price exactly when it reaches the decimal.
calculateCurrentPrice(slot, now) ==
    IF now > slot.end THEN 0
    ELSE IF now < slot.start \/ slot.end = slot.start THEN slot.floor
    ELSE LET total == slot.end - slot.start
         IN slot.floor + ((slot.floor \div 2) * (slot.end - now) + total - 1) \div total

\* PlaceOrder: an order of the same id is replaced; a sealed one names its
\* commitment.  calculateCurrentPrice reads the clock anew, and finds the slot
\* free when it has ended since.  The order stays when the DEX refuses it.
PlaceOrder(o, t, s, isBuy, sealed, limit, commitment, later) ==
    /\ slots[s] # None
    /\ clock <= slots[s].end
    /\ isBuy => limit >= calculateCurrentPrice(slots[s], later)
    /\ orders' = [orders EXCEPT ![o] =
         [trader |-> t, slot |-> s, isBuy |-> isBuy, sealed |-> sealed, limit |-> limit,
          commitment |-> IF sealed THEN commitment ELSE 0, revealed |-> FALSE]]
    /\ book' \in {book, [book EXCEPT ![o] = [slot |-> s, isBuy |-> isBuy, price |-> limit]]}
    /\ clock' = later
    /\ UNCHANGED <<slots, tokens, pools, ausd>>

\* RevealBid: the sealed price becomes the limit; the DEX is not told.
RevealBid(o, price) ==
    /\ orders[o] # None
    /\ orders[o].sealed
    /\ ~ orders[o].revealed
    /\ price = orders[o].commitment
    /\ orders' = [orders EXCEPT ![o].limit = price, ![o].revealed = TRUE]
    /\ UNCHANGED <<slots, tokens, book, pools, ausd, clock>>

-----------------------------------------------------------------------------

\* int64 of a uint64.
int64(x) == IF 2 * x >= Word THEN x - Word ELSE x

\* CreateAdMM_Pool: a slot has one pool.  The pool is written before the AUSD
\* of the provider moves and stays when the transfer fails.
CreateAdMM_Pool(s, t, amount, supply, rate) ==
    /\ slots[s] # None
    /\ pools[s] = None
    /\ supply # 0       \* decimal.Div panics
    /\ pools' = [pools EXCEPT ![s] = [ausd |-> amount, slots |-> supply, rate |-> rate]]
    /\ ausd' = IF 0 < amount /\ amount <= ausd[t]
                 THEN [ausd EXCEPT ![t] = @ - amount, ![Pool] = @ + amount]
                 ELSE ausd
    /\ UNCHANGED <<slots, tokens, orders, book, clock>>

\* Mutant of calculateTimeDecay: a slot that has ended is not treated apart.
calculateTimeDecayUnbounded(slot, rate) ==
    IF slot.end = slot.start THEN One
    ELSE One - (rate * (clock - slot.start)) \div (slot.end - slot.start)

\* calculateTimeDecay: 1 - rate * elapsed, above 1 before the window.
calculateTimeDecay(slot, rate) ==
    IF clock > slot.end THEN 0
    ELSE IF slot.end = slot.start THEN One
    ELSE One - (rate * (clock - slot.start)) \div (slot.end - slot.start)

\* decimal.Div: the nearest unit, half a unit away from zero.
Div(n, d) ==
    LET up == IF d > 0 THEN n ELSE -n
        down == IF d > 0 THEN d ELSE -d
    IN IF up >= 0 THEN (2 * up + down) \div (2 * down) ELSE -((down - 2 * up) \div (2 * down))

\* calculateAMM_Swap: what the constant product, scaled by the decay, leaves
\* of the other reserve, in units of 1/Scale; Div panics when it is to divide
\* by zero.
effectiveK(pool, slot) == pool.ausd * int64(pool.slots) * calculateTimeDecay(slot, pool.rate)

newSlots(pool, amountIn) == int64((pool.slots + amountIn) % Word)
newAUSD(pool, amountIn) == pool.ausd + Scale * int64(amountIn)

ausdLeft(pool, slot, amountIn) ==
    Div(effectiveK(pool, slot), One * newSlots(pool, amountIn))
slotsLeft(pool, slot, amountIn) ==
    Div(Scale * effectiveK(pool, slot), One * newAUSD(pool, amountIn))

\* SwapAdMM: the reserves change by the amounts; nothing else moves.  Slots
\* bought are rounded down and subtracted from a uint64.
SwapAdMM(s, amountIn, buyAUSD) ==
    /\ pools[s] # None
    /\ pools[s].ausd > 0 /\ pools[s].slots # 0
    /\ IF buyAUSD
         THEN LET left == ausdLeft(pools[s], slots[s], amountIn)
              IN /\ newSlots(pools[s], amountIn) # 0
                 /\ pools[s].ausd - left > 0
                 /\ pools' = [pools EXCEPT ![s].slots = (@ + amountIn) % Word,
                                           ![s].ausd = left]
         ELSE LET out == Scale * int64(pools[s].slots) - slotsLeft(pools[s], slots[s], amountIn)
              IN /\ newAUSD(pools[s], amountIn) # 0
                 /\ newAUSD(pools[s], amountIn) <= MaxReserve
                 /\ out > 0
                 /\ pools' = [pools EXCEPT ![s].ausd = newAUSD(pools[s], amountIn),
                                           ![s].slots = (@ - out \div Scale) % Word]
    /\ UNCHANGED <<slots, tokens, orders, book, ausd, clock>>

-----------------------------------------------------------------------------

\* RecordDelivery: in the window and within the capacity, a sum of uint64s.
\* The delivery is recorded first; the burn fails when the publisher has not
\* that many tokens left, and the record stays.
RecordDelivery(s, count) ==
    /\ slots[s] # None
    /\ slots[s].start <= clock /\ clock <= slots[s].end
    /\ LET slot == slots[s]
           p == slot.publisher
           total == (slot.delivered + count) % Word
       IN /\ total <= slot.max
          /\ slots' = [slots EXCEPT ![s].delivered = total]
          /\ tokens' = IF tokens[s][p] >= count
                         THEN [tokens EXCEPT ![s][p] = @ - count] ELSE tokens
    /\ UNCHANGED <<orders, book, pools, ausd, clock>>

\* The DEX moves a token of a slot that was sold.
TransferAsset(s, from, to) ==
    /\ from # to
    /\ tokens[s][from] > 0
    /\ tokens' = [tokens EXCEPT ![s][from] = @ - 1, ![s][to] = @ + 1]
    /\ UNCHANGED <<slots, orders, book, pools, ausd, clock>>

ClockTick ==
    /\ clock < MaxClock
    /\ clock' = clock + 1
    /\ UNCHANGED <<slots, tokens, orders, book, pools, ausd>>

SlotsNext ==
    \/ \E s \in Slots, p \in SlotPublishers, w \in Windows, max \in Supplies, floor \in Floors :
         CreateAdSlot(s, p, w, max, floor)
    \/ \E o \in Orders, t \in Traders, s \in Slots, isBuy, sealed \in BOOLEAN,
          limit \in Prices, commitment \in SealedPrices, later \in clock..MaxClock :
         PlaceOrder(o, t, s, isBuy, sealed, limit, commitment, later)
    \/ \E o \in Orders, price \in SealedPrices : RevealBid(o, price)
    \/ \E s \in Slots, t \in Traders, amount \in Liquidities, supply \in SwapAmounts,
          rate \in Rates :
         CreateAdMM_Pool(s, t, amount, supply, rate)
    \/ \E s \in Slots, amountIn \in SwapAmounts, buyAUSD \in BOOLEAN : SwapAdMM(s, amountIn, buyAUSD)
    \/ \E s \in Slots, count \in DeliveryCounts : RecordDelivery(s, count)
    \/ \E s \in Slots, from, to \in Holders : TransferAsset(s, from, to)
    \/ ClockTick

SlotsSpec == SlotsInit /\ [][SlotsNext]_slotsVars

-----------------------------------------------------------------------------
(* Properties *)

\* A slot still on sale.  (The premium of a negative floor is negative too.)
OnSale(s) == clock <= slots[s].end /\ slots[s].floor >= 0

\* As long as a slot is on sale, every bid for it that the DEX has, and every
\* bid that was not revealed, offers its floor at least, whenever the bid was
\* placed, however often it was replaced and however long PlaceOrder took.
BidsReachFloor ==
    \A o \in Orders :
      /\ book[o] # None /\ book[o].isBuy /\ OnSale(book[o].slot)
           => book[o].price >= slots[book[o].slot].floor
      /\ orders[o] # None /\ orders[o].isBuy /\ ~ orders[o].revealed /\ OnSale(orders[o].slot)
           => orders[o].limit >= slots[orders[o].slot].floor

\* A swap pays into one reserve and takes from the other no more than is in
\* it, as long as the decay rate is between 0 and 1 and the slots of the pool
\* and of the swap together stay within int64.
SwapTakesWhatIsThere ==
    \A s \in Slots, amountIn \in SwapAmounts, buyAUSD \in BOOLEAN :
      /\ SwapAdMM(s, amountIn, buyAUSD)
      /\ pools[s].rate \in 0..One
      /\ 2 * (pools[s].slots + amountIn) < Word
      => /\ 0 <= pools'[s].ausd
         /\ IF buyAUSD
              THEN pools'[s].ausd < pools[s].ausd /\ pools'[s].slots >= pools[s].slots
              ELSE pools'[s].ausd >= pools[s].ausd /\ pools'[s].slots <= pools[s].slots

\* No swap, before, in or after the window, overdraws a pool: the AUSD stays
\* at or above zero, the uint64 of slots does not wrap, and no swap lowers
\* both reserves.
PoolsNeverOverdrawn == [][SwapTakesWhatIsThere]_slotsVars

Outstanding(s) == SumFunctionOnSet(tokens[s], Holders)

\* What RecordDelivery is for (adslot_rpc.go: "burns tokens", "Burn delivered
\* tokens from circulation"): no more tokens circulate than there are
\* impressions still to be delivered.  Violated: tokens are burned from the
\* publisher, and when it has sold them the burn fails after the delivery was
\* recorded.
DeliveredTokensAreBurned ==
    \A s \in Slots : slots[s] # None =>
      Outstanding(s) <= slots[s].max - slots[s].delivered
=============================================================================
