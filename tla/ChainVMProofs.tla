---------------------------- MODULE ChainVMProofs ----------------------------
(***************************************************************************)
(* Theorems about pkg/chainvm: the handlers of EscrowRPC as AUSDSettlement  *)
(* drives them, and the ad slots, for any constants.                        *)
(*                                                                          *)
(* Whatever the settlement does, the escrow sees one of its handlers        *)
(* (NextIsEscrowStep), so the books of the escrow are proved once for any   *)
(* caller: counters equal sums over the reservations, debts to publishers   *)
(* equal what campaigns have spent, and the escrow account equals what      *)
(* others than itself have funded.  The settlement adds the types of its    *)
(* buckets and that a delivered reservation is settled, waits or expired.   *)
(*                                                                          *)
(* The price of a slot on sale reaches its floor (PriceReachesFloor), which *)
(* bids then keep; and where int64 changes no value, the decay and so what  *)
(* a swap leaves of a reserve is at least zero (ReserveLeft).               *)
(***************************************************************************)
EXTENDS AUSDSettlement, AdSlots, InductionTheorems

\* What a step of the settlement does to the escrow: one handler or nothing.
EscrowStep ==
    \/ \E c \in Campaigns, a \in Advertisers, amount \in Amounts, bps \in Holdbacks :
         FundCampaign(c, a, amount, bps)
    \/ \E c \in Campaigns, escrowAmount \in Deals : CreatePGDeal(c, escrowAmount)
    \/ \E r \in Reservations, c \in Campaigns, p \in Publishers, amount \in Amounts, ttl \in Nat :
         ReserveBudget(r, c, p, amount, ttl)
    \/ \E r \in Reservations : SettleReceipt(r)
    \/ Tick
    \/ UNCHANGED escrowVars

\* The settlement reaches the escrow only through its handlers, and only with
\* the reservation of a proof it holds.
LEMMA NextIsEscrowStep ==
    ASSUME witnesses \in [Buckets -> Seq(DeliveryProof)], [Next]_vars
    PROVE  EscrowStep
  <1>1. ASSUME NEW proof \in DeliveryProof, settleImpression(proof) PROVE EscrowStep
    <2>1. proof.reservation \in Reservations
      BY DEF DeliveryProof
    <2>2. SettleReceipt(proof.reservation) \/ UNCHANGED escrowVars
      BY <1>1 DEF settleImpression
    <2> QED BY <2>1, <2>2 DEF EscrowStep
  <1>2. ASSUME NEW proof \in DeliveryProof, NEW b \in Buckets, SubmitDeliveryProof(proof, b)
        PROVE  EscrowStep
    <2>1. settleImpression(proof) \/ UNCHANGED escrowVars
      BY <1>2 DEF SubmitDeliveryProof
    <2>2. CASE UNCHANGED escrowVars
      BY <2>2 DEF EscrowStep
    <2> QED BY <1>1, <2>1, <2>2
  <1>3. ASSUME NEW b \in Buckets, BatchSettle(b) PROVE EscrowStep
    <2>1. witnesses[b] \in Seq(DeliveryProof) /\ witnesses[b] # <<>>
      BY <1>3 DEF BatchSettle
    <2>2. Head(witnesses[b]) \in DeliveryProof
      BY <2>1
    <2>3. settleImpression(Head(witnesses[b]))
      BY <1>3 DEF BatchSettle
    <2> QED BY <1>1, <2>2, <2>3
  <1>4. ASSUME AdvertiserCalls PROVE EscrowStep
    BY <1>4 DEF AdvertiserCalls, EscrowStep
  <1>5. ASSUME NEW r \in Reservations, NEW c \in Campaigns, NEW p \in Publishers,
               NEW amount \in Amounts, NEW ttl \in Nat, ReserveBudget(r, c, p, amount, ttl)
        PROVE  EscrowStep
    BY <1>5 DEF EscrowStep
  <1>6. ASSUME ReserveCalls PROVE EscrowStep
    <2>1. \A ttl \in TTLs : ttl \in Nat
      BY EscrowRPCAssumption
    <2> QED BY <1>5, <1>6, <2>1 DEF ReserveCalls
  <1>7. ASSUME NEW r \in Reservations, NEW c \in Campaigns, NEW p \in Publishers,
               NEW price \in Amounts, ProcessImpressionWin(r, c, p, price)
        PROVE  EscrowStep
    <2>1. ReserveBudget(r, c, p, price, 2)
      BY <1>7 DEF ProcessImpressionWin
    <2> QED BY <1>5, <2>1
  <1>8. CASE BatchEnd \/ UNCHANGED vars
    <2>1. UNCHANGED escrowVars
      BY <1>8 DEF BatchEnd, vars
    <2> QED BY <2>1 DEF EscrowStep
  <1>9. CASE Tick
    BY <1>9 DEF EscrowStep
  <1> QED BY <1>2, <1>3, <1>4, <1>6, <1>7, <1>8, <1>9 DEF Next

-----------------------------------------------------------------------------
(* Sums over reservations, campaigns and publishers *)

Entries == [Reservations -> Reservation \cup {NoReservation}]

\* What each reservation locks and has paid of the budget of c, and what it
\* has earned publisher p.
lockedBy(res, c) ==
    [r \in Reservations |->
       IF res[r] # NoReservation /\ ~ res[r].settled /\ res[r].campaignID = c
         THEN res[r].amount ELSE 0]
paidBy(res, c) ==
    [r \in Reservations |->
       IF res[r] # NoReservation /\ res[r].settled /\ res[r].campaignID = c
         THEN res[r].amount ELSE 0]
earnedBy(res, p) ==
    [r \in Reservations |->
       IF res[r] # NoReservation /\ res[r].settled /\ res[r].publisher = p
         THEN res[r].amount ELSE 0]

locked(res, c) == SumFunctionOnSet(lockedBy(res, c), Reservations)
paid(res, c) == SumFunctionOnSet(paidBy(res, c), Reservations)
earned(res, p) == SumFunctionOnSet(earnedBy(res, p), Reservations)

\* The sums the properties speak of, before and after a step.
LEMMA CoinSums ==
    /\ EveryCoinHasAReservation <=>
         \A c \in Campaigns : reservedBudget[c] = locked(reservations, c)
                                /\ spentBudget[c] = paid(reservations, c)
    /\ EveryCoinHasAReservation' <=>
         \A c \in Campaigns : reservedBudget'[c] = locked(reservations', c)
                                /\ spentBudget'[c] = paid(reservations', c)
    /\ PublishersPaidInFull <=>
         \A p \in Publishers :
           publisherBalance[p] + pendingReleases[p] = earned(reservations, p)
    /\ PublishersPaidInFull' <=>
         \A p \in Publishers :
           publisherBalance'[p] + pendingReleases'[p] = earned(reservations', p)
  <1>1. ASSUME NEW c
        PROVE  /\ AmountOf({r \in Reservations : Open(r) /\ reservations[r].campaignID = c})
                    = locked(reservations, c)
               /\ AmountOf({r \in Reservations : Settled(r) /\ reservations[r].campaignID = c})
                    = paid(reservations, c)
               /\ AmountOf({r \in Reservations : Settled(r) /\ reservations[r].publisher = c})
                    = earned(reservations, c)
    BY DEF AmountOf, Open, Settled, lockedBy, paidBy, earnedBy, locked, paid, earned
  <1>2. ASSUME NEW c
        PROVE  /\ AmountOf({r \in Reservations : Open(r) /\ reservations[r].campaignID = c})'
                    = locked(reservations', c)
               /\ AmountOf({r \in Reservations : Settled(r) /\ reservations[r].campaignID = c})'
                    = paid(reservations', c)
               /\ AmountOf({r \in Reservations : Settled(r) /\ reservations[r].publisher = c})'
                    = earned(reservations', c)
    BY DEF AmountOf, Open, Settled, lockedBy, paidBy, earnedBy, locked, paid, earned
  <1> QED BY <1>1, <1>2 DEF EveryCoinHasAReservation, PublishersPaidInFull

\* What reservations lock, have paid and have earned are natural numbers.
LEMMA CoinTypes ==
    ASSUME NEW res \in Entries, NEW k
    PROVE  /\ \A r \in Reservations : /\ lockedBy(res, k)[r] \in Nat
                                      /\ paidBy(res, k)[r] \in Nat
                                      /\ earnedBy(res, k)[r] \in Nat
           /\ locked(res, k) \in Nat /\ paid(res, k) \in Nat /\ earned(res, k) \in Nat
  <1>1. \A r \in Reservations : res[r] # NoReservation => res[r].amount \in Nat
    BY DEF Entries, Reservation
  <1>2. \A r \in Reservations : /\ lockedBy(res, k)[r] \in Nat
                                /\ paidBy(res, k)[r] \in Nat
                                /\ earnedBy(res, k)[r] \in Nat
    BY <1>1 DEF lockedBy, paidBy, earnedBy
  <1>3. locked(res, k) \in Nat
    BY <1>2, SumNat, EscrowRPCAssumption DEF locked
  <1>4. paid(res, k) \in Nat
    BY <1>2, SumNat, EscrowRPCAssumption DEF paid
  <1>5. earned(res, k) \in Nat
    BY <1>2, SumNat, EscrowRPCAssumption DEF earned
  <1> QED BY <1>2, <1>3, <1>4, <1>5

\* When one reservation changes, the sums change by what is in it.
LEMMA OneReservation ==
    ASSUME NEW res \in Entries, NEW new \in Entries, NEW r \in Reservations,
           \A q \in Reservations \ {r} : new[q] = res[q], NEW k
    PROVE  /\ locked(new, k) = locked(res, k) - lockedBy(res, k)[r] + lockedBy(new, k)[r]
           /\ paid(new, k) = paid(res, k) - paidBy(res, k)[r] + paidBy(new, k)[r]
           /\ earned(new, k) = earned(res, k) - earnedBy(res, k)[r] + earnedBy(new, k)[r]
  <1>1. \A q \in Reservations \ {r} : /\ lockedBy(new, k)[q] = lockedBy(res, k)[q]
                                      /\ paidBy(new, k)[q] = paidBy(res, k)[q]
                                      /\ earnedBy(new, k)[q] = earnedBy(res, k)[q]
    BY DEF lockedBy, paidBy, earnedBy
  <1>2. \A q \in Reservations : /\ lockedBy(new, k)[q] \in Int /\ lockedBy(res, k)[q] \in Int
                                /\ paidBy(new, k)[q] \in Int /\ paidBy(res, k)[q] \in Int
                                /\ earnedBy(new, k)[q] \in Int /\ earnedBy(res, k)[q] \in Int
    BY CoinTypes
  <1>3. locked(new, k) = locked(res, k) - lockedBy(res, k)[r] + lockedBy(new, k)[r]
    BY <1>1, <1>2, SumChange, EscrowRPCAssumption DEF locked
  <1>4. paid(new, k) = paid(res, k) - paidBy(res, k)[r] + paidBy(new, k)[r]
    BY <1>1, <1>2, SumChange, EscrowRPCAssumption DEF paid
  <1>5. earned(new, k) = earned(res, k) - earnedBy(res, k)[r] + earnedBy(new, k)[r]
    BY <1>1, <1>2, SumChange, EscrowRPCAssumption DEF earned
  <1> QED BY <1>3, <1>4, <1>5

\* A new reservation locks its amount.
LEMMA EntryOpened ==
    ASSUME NEW res \in Entries, NEW r \in Reservations, NEW x \in Reservation,
           res[r] = NoReservation, ~ x.settled, NEW k
    PROVE  LET new == [res EXCEPT ![r] = x]
           IN /\ new \in Entries
              /\ locked(new, k) = locked(res, k) + (IF k = x.campaignID THEN x.amount ELSE 0)
              /\ paid(new, k) = paid(res, k)
              /\ earned(new, k) = earned(res, k)
  <1> DEFINE new == [res EXCEPT ![r] = x]
  <1>1. new \in Entries /\ new[r] = x /\ \A q \in Reservations \ {r} : new[q] = res[q]
    BY DEF Entries
  <1>2. x # NoReservation /\ x.amount \in Nat
    BY NoReservationAssumption DEF Reservation
  <1> HIDE DEF new
  <1>3. /\ lockedBy(res, k)[r] = 0 /\ paidBy(res, k)[r] = 0 /\ earnedBy(res, k)[r] = 0
        /\ lockedBy(new, k)[r] = IF k = x.campaignID THEN x.amount ELSE 0
        /\ paidBy(new, k)[r] = 0 /\ earnedBy(new, k)[r] = 0
    BY <1>1, <1>2 DEF lockedBy, paidBy, earnedBy
  <1>4. /\ locked(new, k) = locked(res, k) - lockedBy(res, k)[r] + lockedBy(new, k)[r]
        /\ paid(new, k) = paid(res, k) - paidBy(res, k)[r] + paidBy(new, k)[r]
        /\ earned(new, k) = earned(res, k) - earnedBy(res, k)[r] + earnedBy(new, k)[r]
    BY <1>1, OneReservation
  <1>5. /\ locked(new, k) = locked(res, k) + (IF k = x.campaignID THEN x.amount ELSE 0)
        /\ paid(new, k) = paid(res, k)
        /\ earned(new, k) = earned(res, k)
    BY <1>2, <1>3, <1>4, CoinTypes
  <1> QED BY <1>1, <1>5 DEF new

\* A settled reservation no longer locks its amount and has paid it.
LEMMA EntrySettled ==
    ASSUME NEW res \in Entries, NEW r \in Reservations, NEW k,
           res[r] # NoReservation, ~ res[r].settled
    PROVE  LET new == [res EXCEPT ![r].settled = TRUE]
               x == res[r]
           IN /\ new \in Entries /\ x \in Reservation
              /\ locked(new, k) = locked(res, k) - (IF k = x.campaignID THEN x.amount ELSE 0)
              /\ paid(new, k) = paid(res, k) + (IF k = x.campaignID THEN x.amount ELSE 0)
              /\ earned(new, k) = earned(res, k) + (IF k = x.publisher THEN x.amount ELSE 0)
  <1> DEFINE new == [res EXCEPT ![r].settled = TRUE]
             x == res[r]
  <1>1. x \in Reservation
    BY DEF Entries
  <1>2. /\ new \in Entries /\ new[r] \in Reservation
        /\ new[r].settled /\ new[r].campaignID = x.campaignID
        /\ new[r].publisher = x.publisher /\ new[r].amount = x.amount
        /\ \A q \in Reservations \ {r} : new[q] = res[q]
    BY <1>1 DEF Entries, Reservation
  <1>3. x # NoReservation /\ ~ x.settled /\ new[r] # NoReservation /\ x.amount \in Nat
    BY <1>1, <1>2, NoReservationAssumption DEF Reservation
  <1> HIDE DEF new
  <1>4. /\ lockedBy(res, k)[r] = IF k = x.campaignID THEN x.amount ELSE 0
        /\ paidBy(res, k)[r] = 0 /\ earnedBy(res, k)[r] = 0
        /\ lockedBy(new, k)[r] = 0
        /\ paidBy(new, k)[r] = IF k = x.campaignID THEN x.amount ELSE 0
        /\ earnedBy(new, k)[r] = IF k = x.publisher THEN x.amount ELSE 0
    BY <1>2, <1>3 DEF lockedBy, paidBy, earnedBy
  <1>5. /\ locked(new, k) = locked(res, k) - lockedBy(res, k)[r] + lockedBy(new, k)[r]
        /\ paid(new, k) = paid(res, k) - paidBy(res, k)[r] + paidBy(new, k)[r]
        /\ earned(new, k) = earned(res, k) - earnedBy(res, k)[r] + earnedBy(new, k)[r]
    BY <1>2, OneReservation
  <1>6. /\ locked(new, k) = locked(res, k) - (IF k = x.campaignID THEN x.amount ELSE 0)
        /\ paid(new, k) = paid(res, k) + (IF k = x.campaignID THEN x.amount ELSE 0)
        /\ earned(new, k) = earned(res, k) + (IF k = x.publisher THEN x.amount ELSE 0)
    BY <1>3, <1>4, <1>5, CoinTypes
  <1> QED BY <1>1, <1>2, <1>6 DEF new

-----------------------------------------------------------------------------
(* The books of the escrow *)

owedTo(balance, pending) == [p \in Publishers |-> balance[p] + pending[p]]

\* What the provers see of one group of variables at a time: what never takes
\* part in a sum,
Config ==
    /\ advertiser \in [Campaigns -> Advertisers \cup {NoOne}]
    /\ holdbackBps \in [Campaigns -> BasisPoints]
    /\ guaranteedDeals \in [Campaigns -> Seq(Int)]
    /\ now \in Nat

\* the counters of campaigns, coin by coin, and within the total as long as
\* no deal has a negative amount,
Fair(deals) == \A k \in 1..Len(deals) : deals[k] >= 0

Counters ==
    /\ reservations \in Entries
    /\ totalBudget \in [Campaigns -> Nat] /\ availableBudget \in [Campaigns -> Nat]
    /\ reservedBudget \in [Campaigns -> Nat] /\ spentBudget \in [Campaigns -> Nat]
    /\ \A c \in Campaigns : /\ reservedBudget[c] = locked(reservations, c)
                            /\ spentBudget[c] = paid(reservations, c)
                            /\ Fair(guaranteedDeals[c]) =>
                                 availableBudget[c] + reservedBudget[c] + spentBudget[c]
                                   <= totalBudget[c]

\* what publishers are owed,
Debts ==
    /\ publisherBalance \in [Publishers -> Nat] /\ pendingReleases \in [Publishers -> Nat]
    /\ \A p \in Publishers : publisherBalance[p] + pendingReleases[p] = earned(reservations, p)
    /\ SumFunctionOnSet(owedTo(publisherBalance, pendingReleases), Publishers)
         = SumFunctionOnSet(spentBudget, Campaigns)

\* and the AUSD of the escrow account, to which a campaign of its own brings
\* nothing.
broughtTo(owner, total) ==
    [c \in Campaigns |-> IF owner[c] = EscrowAccount THEN 0 ELSE total[c]]

Backing ==
    /\ balances \in [Accounts -> Nat]
    /\ \A c \in Campaigns : advertiser[c] = NoOne => totalBudget[c] = 0
    /\ balances[EscrowAccount] = SumFunctionOnSet(broughtTo(advertiser, totalBudget), Campaigns)

Books == Config /\ Counters /\ Debts /\ Backing

\* Only the first funding of a campaign writes its advertiser and holdback,
\* and a deal is appended to the deals.
LEMMA ConfigStep == ASSUME Config, EscrowStep PROVE Config'
  <1>1. ASSUME NEW c \in Campaigns, NEW a \in Advertisers, NEW amount \in Amounts,
               NEW bps \in Holdbacks, FundCampaign(c, a, amount, bps)
        PROVE  Config'
    <2>1. bps \in BasisPoints
      BY <1>1, EscrowRPCAssumption DEF FundCampaign, BasisPoints
    <2>2. advertiser' = [advertiser EXCEPT ![c] = a] /\ UNCHANGED <<guaranteedDeals, now>>
      BY <1>1 DEF FundCampaign
    <2>3. holdbackBps' = [holdbackBps EXCEPT ![c] = IF advertiser[c] = NoOne THEN bps ELSE @]
      BY <1>1 DEF FundCampaign
    <2>4. holdbackBps' \in [Campaigns -> BasisPoints]
      BY <2>1, <2>3 DEF Config
    <2>5. advertiser' \in [Campaigns -> Advertisers \cup {NoOne}]
      BY <2>2 DEF Config
    <2> QED BY <2>2, <2>4, <2>5 DEF Config
  <1>2. ASSUME NEW c \in Campaigns, NEW amount \in Deals, CreatePGDeal(c, amount)
        PROVE  Config'
    <2>1. /\ guaranteedDeals' = [guaranteedDeals EXCEPT ![c] = Append(@, amount)]
          /\ UNCHANGED <<advertiser, holdbackBps, now>>
      BY <1>2 DEF CreatePGDeal
    <2>2. amount \in Int
      BY EscrowRPCAssumption
    <2>3. Append(guaranteedDeals[c], amount) \in Seq(Int)
      BY <2>2 DEF Config
    <2>4. guaranteedDeals' \in [Campaigns -> Seq(Int)]
      BY <2>1, <2>3 DEF Config
    <2> QED BY <2>1, <2>4 DEF Config
  <1>3. CASE Tick
    BY <1>3 DEF Tick, Config
  <1>4. CASE \/ \E r \in Reservations, c \in Campaigns, p \in Publishers, amount \in Amounts,
                  ttl \in Nat : ReserveBudget(r, c, p, amount, ttl)
             \/ \E r \in Reservations : SettleReceipt(r)
             \/ UNCHANGED escrowVars
    <2>1. UNCHANGED <<advertiser, holdbackBps, guaranteedDeals, now>>
      BY <1>4 DEF ReserveBudget, SettleReceipt, escrowVars
    <2> QED BY <2>1 DEF Config
  <1> QED BY <1>1, <1>2, <1>3, <1>4 DEF EscrowStep

\* FundCampaign, ReserveBudget, SettleReceipt and CreatePGDeal do to the
\* counters what they do to the reservations.
LEMMA CountersStep == ASSUME Counters, Config, EscrowStep PROVE Counters'
  <1>1. ASSUME NEW c \in Campaigns, NEW a \in Advertisers, NEW amount \in Amounts,
               NEW bps \in Holdbacks, FundCampaign(c, a, amount, bps)
        PROVE  Counters'
    <2>1. /\ totalBudget' = [totalBudget EXCEPT ![c] = @ + amount]
          /\ availableBudget' = [availableBudget EXCEPT ![c] = @ + amount]
          /\ UNCHANGED <<reservedBudget, spentBudget, reservations, guaranteedDeals>>
          /\ amount \in Nat
      BY <1>1, EscrowRPCAssumption DEF FundCampaign
    <2> QED BY <2>1 DEF Counters
  <1>2. ASSUME NEW c \in Campaigns, NEW amount \in Deals, CreatePGDeal(c, amount)
        PROVE  Counters'
    <2>1. /\ availableBudget' = [availableBudget EXCEPT ![c] = @ - amount]
          /\ guaranteedDeals' = [guaranteedDeals EXCEPT ![c] = Append(@, amount)]
          /\ availableBudget[c] >= amount
          /\ UNCHANGED <<totalBudget, reservedBudget, spentBudget, reservations>>
          /\ amount \in Int
      BY <1>2, EscrowRPCAssumption DEF CreatePGDeal
    <2>2. availableBudget' \in [Campaigns -> Nat]
      BY <2>1 DEF Counters
    <2>3. ASSUME Fair(guaranteedDeals'[c]) PROVE Fair(guaranteedDeals[c]) /\ amount >= 0
      <3>1. /\ guaranteedDeals[c] \in Seq(Int)
            /\ guaranteedDeals'[c] = Append(guaranteedDeals[c], amount)
        BY <2>1 DEF Config
      <3>2. /\ Len(guaranteedDeals'[c]) = Len(guaranteedDeals[c]) + 1
            /\ guaranteedDeals'[c][Len(guaranteedDeals[c]) + 1] = amount
            /\ \A k \in 1..Len(guaranteedDeals[c]) :
                 guaranteedDeals'[c][k] = guaranteedDeals[c][k]
            /\ Len(guaranteedDeals[c]) \in Nat
        BY <2>1, <3>1
      <3> QED BY <2>3, <3>2 DEF Fair
    <2>4. ASSUME NEW k \in Campaigns, Fair(guaranteedDeals'[k])
          PROVE  availableBudget'[k] + reservedBudget[k] + spentBudget[k] <= totalBudget[k]
      <3>1. CASE k = c
        BY <2>1, <2>3, <2>4, <3>1 DEF Counters
      <3>2. CASE k # c
        <4>1. guaranteedDeals'[k] = guaranteedDeals[k] /\ availableBudget'[k] = availableBudget[k]
          BY <2>1, <3>2 DEF Config, Counters
        <4> QED BY <2>4, <4>1 DEF Counters
      <3> QED BY <3>1, <3>2
    <2> QED BY <2>1, <2>2, <2>4 DEF Counters
  <1>3. ASSUME NEW r \in Reservations, NEW c \in Campaigns, NEW p \in Publishers,
               NEW amount \in Amounts, NEW ttl \in Nat, ReserveBudget(r, c, p, amount, ttl)
        PROVE  Counters'
    <2> DEFINE x == [campaignID |-> c, publisher |-> p, amount |-> amount,
                     expires |-> now + ttl, settled |-> FALSE]
    <2>1. /\ availableBudget' = [availableBudget EXCEPT ![c] = @ - amount]
          /\ reservedBudget' = [reservedBudget EXCEPT ![c] = @ + amount]
          /\ reservations' = [reservations EXCEPT ![r] = x]
          /\ reservations[r] = NoReservation
          /\ availableBudget[c] >= amount
          /\ UNCHANGED <<totalBudget, spentBudget, guaranteedDeals>>
          /\ amount \in Nat /\ amount > 0
      BY <1>3, EscrowRPCAssumption DEF ReserveBudget
    <2>2. x \in Reservation /\ ~ x.settled /\ x.campaignID = c /\ x.amount = amount
      BY <2>1 DEF Config, Reservation
    <2> HIDE DEF x
    <2>3. reservations \in Entries
      BY DEF Counters
    <2>4. /\ reservations' \in Entries
          /\ \A k : /\ locked(reservations', k)
                         = locked(reservations, k) + (IF k = c THEN amount ELSE 0)
                    /\ paid(reservations', k) = paid(reservations, k)
      <3>1. ASSUME NEW k
            PROVE  /\ [reservations EXCEPT ![r] = x] \in Entries
                   /\ locked([reservations EXCEPT ![r] = x], k)
                        = locked(reservations, k) + (IF k = x.campaignID THEN x.amount ELSE 0)
                   /\ paid([reservations EXCEPT ![r] = x], k) = paid(reservations, k)
        <4>1. reservations[r] = NoReservation /\ x \in Reservation /\ ~ x.settled
          BY <2>1, <2>2
        <4> QED BY <2>3, <4>1, EntryOpened
      <3> QED BY <2>1, <2>2, <3>1
    <2>5. /\ availableBudget' \in [Campaigns -> Nat] /\ reservedBudget' \in [Campaigns -> Nat]
          /\ totalBudget' \in [Campaigns -> Nat] /\ spentBudget' \in [Campaigns -> Nat]
      BY <2>1 DEF Counters
    <2>6. ASSUME NEW k \in Campaigns
          PROVE  /\ reservedBudget'[k] = locked(reservations', k)
                 /\ spentBudget'[k] = paid(reservations', k)
                 /\ Fair(guaranteedDeals'[k]) =>
                      availableBudget'[k] + reservedBudget'[k] + spentBudget'[k] <= totalBudget'[k]
      <3>1. /\ availableBudget[k] \in Nat /\ reservedBudget[k] \in Nat
            /\ spentBudget[k] \in Nat /\ totalBudget[k] \in Nat
            /\ reservedBudget[k] = locked(reservations, k) /\ spentBudget[k] = paid(reservations, k)
            /\ Fair(guaranteedDeals[k]) =>
                 availableBudget[k] + reservedBudget[k] + spentBudget[k] <= totalBudget[k]
        BY DEF Counters
      <3>2. /\ availableBudget'[k] = availableBudget[k] - (IF k = c THEN amount ELSE 0)
            /\ reservedBudget'[k] = reservedBudget[k] + (IF k = c THEN amount ELSE 0)
            /\ spentBudget'[k] = spentBudget[k] /\ totalBudget'[k] = totalBudget[k]
            /\ guaranteedDeals'[k] = guaranteedDeals[k]
        BY <2>1, <3>1 DEF Counters
      <3>3. /\ locked(reservations', k) = locked(reservations, k) + (IF k = c THEN amount ELSE 0)
            /\ paid(reservations', k) = paid(reservations, k)
        BY <2>4
      <3>4. amount \in Nat
        BY <2>1
      <3> QED BY <3>1, <3>2, <3>3, <3>4
    <2> QED BY <2>4, <2>5, <2>6 DEF Counters
  <1>4. ASSUME NEW r \in Reservations, SettleReceipt(r) PROVE Counters'
    <2> DEFINE c == reservations[r].campaignID
               amount == reservations[r].amount
    <2>1. /\ reservedBudget' = [reservedBudget EXCEPT ![c] = @ - amount]
          /\ spentBudget' = [spentBudget EXCEPT ![c] = @ + amount]
          /\ reservations' = [reservations EXCEPT ![r].settled = TRUE]
          /\ reservations[r] # NoReservation /\ ~ reservations[r].settled
          /\ UNCHANGED <<totalBudget, availableBudget, guaranteedDeals>>
      BY <1>4 DEF SettleReceipt, CanSettle
    <2>2. reservations \in Entries
      BY DEF Counters
    <2>3. /\ reservations' \in Entries /\ reservations[r] \in Reservation
          /\ \A k : /\ locked(reservations', k)
                         = locked(reservations, k) - (IF k = c THEN amount ELSE 0)
                    /\ paid(reservations', k)
                         = paid(reservations, k) + (IF k = c THEN amount ELSE 0)
      <3>1. ASSUME NEW k
            PROVE  LET new == [reservations EXCEPT ![r].settled = TRUE]
                   IN /\ new \in Entries /\ reservations[r] \in Reservation
                      /\ locked(new, k) = locked(reservations, k) - (IF k = c THEN amount ELSE 0)
                      /\ paid(new, k) = paid(reservations, k) + (IF k = c THEN amount ELSE 0)
        BY <2>1, <2>2, EntrySettled, ZenonT(30)
      <3> QED BY <2>1, <3>1
    <2>4. c \in Campaigns /\ amount \in Nat
      BY <2>3 DEF Reservation
    <2> HIDE DEF c, amount
    <2>5. ASSUME NEW k \in Campaigns
          PROVE  /\ reservedBudget'[k] = locked(reservations', k)
                 /\ spentBudget'[k] = paid(reservations', k)
                 /\ Fair(guaranteedDeals'[k]) =>
                      availableBudget'[k] + reservedBudget'[k] + spentBudget'[k] <= totalBudget'[k]
      <3>1. /\ availableBudget[k] \in Nat /\ reservedBudget[k] \in Nat
            /\ spentBudget[k] \in Nat /\ totalBudget[k] \in Nat
            /\ reservedBudget[k] = locked(reservations, k) /\ spentBudget[k] = paid(reservations, k)
            /\ Fair(guaranteedDeals[k]) =>
                 availableBudget[k] + reservedBudget[k] + spentBudget[k] <= totalBudget[k]
        BY DEF Counters
      <3>2. /\ reservedBudget'[k] = reservedBudget[k] - (IF k = c THEN amount ELSE 0)
            /\ spentBudget'[k] = spentBudget[k] + (IF k = c THEN amount ELSE 0)
            /\ availableBudget'[k] = availableBudget[k] /\ totalBudget'[k] = totalBudget[k]
            /\ guaranteedDeals'[k] = guaranteedDeals[k]
        BY <2>1, <2>4, <3>1 DEF Counters
      <3>3. /\ locked(reservations', k) = locked(reservations, k) - (IF k = c THEN amount ELSE 0)
            /\ paid(reservations', k) = paid(reservations, k) + (IF k = c THEN amount ELSE 0)
        BY <2>3
      <3> QED BY <2>4, <3>1, <3>2, <3>3
    <2>6. \A k \in Campaigns : locked(reservations', k) \in Nat /\ paid(reservations', k) \in Nat
      BY <2>3, CoinTypes
    <2>7. /\ reservedBudget' \in [Campaigns -> Nat] /\ spentBudget' \in [Campaigns -> Nat]
          /\ totalBudget' \in [Campaigns -> Nat] /\ availableBudget' \in [Campaigns -> Nat]
      <3>1. \A k \in Campaigns : reservedBudget'[k] \in Nat /\ spentBudget'[k] \in Nat
        BY <2>5, <2>6
      <3> QED BY <2>1, <3>1 DEF Counters
    <2> QED BY <2>3, <2>5, <2>7 DEF Counters
  <1>5. CASE Tick \/ UNCHANGED escrowVars
    <2>1. UNCHANGED <<reservations, totalBudget, availableBudget, reservedBudget, spentBudget,
                      guaranteedDeals>>
      BY <1>5 DEF Tick, escrowVars
    <2> QED BY <2>1 DEF Counters
  <1> QED BY <1>1, <1>2, <1>3, <1>4, <1>5 DEF EscrowStep

\* The holdback is a part of the amount.
LEMMA HoldbackIsPart ==
    ASSUME NEW amount \in Nat, NEW bps \in BasisPoints
    PROVE  LET holdback == (amount * bps) \div 10000
           IN holdback \in Nat /\ holdback <= amount
  <1>1. amount * bps \in Nat /\ amount * bps <= amount * 10000
    BY DEF BasisPoints
  <1> QED BY <1>1

\* What a settlement adds to the two accounts of the publisher is the amount.
LEMMA SettlePays ==
    ASSUME Config, Counters, Debts, NEW r \in Reservations, SettleReceipt(r)
    PROVE  LET p == reservations[r].publisher
               amount == reservations[r].amount
           IN /\ reservations[r] \in Reservation
              /\ publisherBalance' \in [Publishers -> Nat]
              /\ pendingReleases' \in [Publishers -> Nat]
              /\ publisherBalance'[p] + pendingReleases'[p]
                   = publisherBalance[p] + pendingReleases[p] + amount
              /\ \A q \in Publishers \ {p} : /\ publisherBalance'[q] = publisherBalance[q]
                                             /\ pendingReleases'[q] = pendingReleases[q]
  <1> DEFINE c == reservations[r].campaignID
             p == reservations[r].publisher
             amount == reservations[r].amount
             holdback == (amount * holdbackBps[c]) \div 10000
  <1>1. reservations[r] \in Reservation
    BY DEF SettleReceipt, CanSettle, Counters, Entries
  <1>2. c \in Campaigns /\ p \in Publishers /\ amount \in Nat
    BY <1>1 DEF Reservation
  <1>3. holdbackBps[c] \in BasisPoints
    BY <1>2 DEF Config
  <1>4. holdback \in Nat /\ holdback <= amount
    BY <1>2, <1>3, HoldbackIsPart
  <1>5. /\ publisherBalance' = [publisherBalance EXCEPT ![p] = @ + (amount - holdback)]
        /\ pendingReleases' = [pendingReleases EXCEPT ![p] = @ + holdback]
    BY DEF SettleReceipt
  <1> HIDE DEF c, p, amount, holdback
  <1>6. /\ publisherBalance' \in [Publishers -> Nat]
        /\ pendingReleases' \in [Publishers -> Nat]
        /\ publisherBalance'[p] + pendingReleases'[p]
             = publisherBalance[p] + pendingReleases[p] + amount
        /\ \A q \in Publishers \ {p} : /\ publisherBalance'[q] = publisherBalance[q]
                                       /\ pendingReleases'[q] = pendingReleases[q]
    BY <1>2, <1>4, <1>5 DEF Debts
  <1> QED BY <1>1, <1>6 DEF p, amount

\* A receipt adds its amount to what its publisher has earned and to what its
\* campaign has spent; nothing else touches either.
LEMMA DebtsStep == ASSUME Config, Counters, Debts, EscrowStep, Counters' PROVE Debts'
  <1>0. reservations \in Entries
    BY DEF Counters
  <1>1. ASSUME NEW r \in Reservations, SettleReceipt(r) PROVE Debts'
    <2> DEFINE c == reservations[r].campaignID
               p == reservations[r].publisher
               amount == reservations[r].amount
               owed == owedTo(publisherBalance, pendingReleases)
               owedNext == owedTo(publisherBalance', pendingReleases')
    <2>1. /\ reservations[r] \in Reservation
          /\ publisherBalance' \in [Publishers -> Nat]
          /\ pendingReleases' \in [Publishers -> Nat]
          /\ publisherBalance'[p] + pendingReleases'[p]
               = publisherBalance[p] + pendingReleases[p] + amount
          /\ \A q \in Publishers \ {p} : /\ publisherBalance'[q] = publisherBalance[q]
                                         /\ pendingReleases'[q] = pendingReleases[q]
      BY <1>1, SettlePays
    <2>2. /\ spentBudget' = [spentBudget EXCEPT ![c] = @ + amount]
          /\ reservations' = [reservations EXCEPT ![r].settled = TRUE]
          /\ reservations[r] # NoReservation /\ ~ reservations[r].settled
      BY <1>1 DEF SettleReceipt, CanSettle
    <2>3. c \in Campaigns /\ p \in Publishers /\ amount \in Nat
      BY <2>1 DEF Reservation
    <2>4. ASSUME NEW q \in Publishers
          PROVE  publisherBalance'[q] + pendingReleases'[q] = earned(reservations', q)
      <3>1. earned([reservations EXCEPT ![r].settled = TRUE], q)
              = earned(reservations, q) + (IF q = p THEN amount ELSE 0)
        BY <1>0, <2>2, EntrySettled, ZenonT(30)
      <3>2. earned(reservations', q) = earned(reservations, q) + (IF q = p THEN amount ELSE 0)
        BY <2>2, <3>1
      <3>3. /\ publisherBalance[q] \in Nat /\ pendingReleases[q] \in Nat
            /\ publisherBalance[q] + pendingReleases[q] = earned(reservations, q)
        BY DEF Debts
      <3> HIDE DEF p, amount
      <3> QED BY <2>1, <2>3, <3>2, <3>3
    <2> HIDE DEF c, p, amount
    <2>5. SumFunctionOnSet(owedNext, Publishers) = SumFunctionOnSet(owed, Publishers) + amount
      <3>1. /\ \A q \in Publishers : owed[q] \in Int /\ owedNext[q] \in Int
            /\ \A q \in Publishers \ {p} : owedNext[q] = owed[q]
            /\ owedNext[p] = owed[p] + amount
        BY <2>1, <2>3 DEF Debts, owedTo
      <3> HIDE DEF owed, owedNext
      <3>2. SumFunctionOnSet(owedNext, Publishers)
              = SumFunctionOnSet(owed, Publishers) - owed[p] + owedNext[p]
        BY <2>3, <3>1, SumChange, EscrowRPCAssumption
      <3>3. SumFunctionOnSet(owed, Publishers) \in Int
        BY <3>1, SumInt, EscrowRPCAssumption
      <3> QED BY <2>3, <3>1, <3>2, <3>3
    <2>6. SumFunctionOnSet(spentBudget', Campaigns)
            = SumFunctionOnSet(spentBudget, Campaigns) + amount
      <3>1. /\ \A k \in Campaigns : spentBudget[k] \in Int /\ spentBudget'[k] \in Int
            /\ \A k \in Campaigns \ {c} : spentBudget'[k] = spentBudget[k]
            /\ spentBudget'[c] = spentBudget[c] + amount
        BY <2>2, <2>3 DEF Counters
      <3>2. SumFunctionOnSet(spentBudget', Campaigns)
              = SumFunctionOnSet(spentBudget, Campaigns) - spentBudget[c] + spentBudget'[c]
        BY <2>3, <3>1, SumChange, EscrowRPCAssumption
      <3>3. SumFunctionOnSet(spentBudget, Campaigns) \in Int
        BY <3>1, SumInt, EscrowRPCAssumption
      <3> QED BY <2>3, <3>1, <3>2, <3>3
    <2>7. SumFunctionOnSet(owed, Publishers) = SumFunctionOnSet(spentBudget, Campaigns)
      BY DEF Debts
    <2> QED BY <2>1, <2>4, <2>5, <2>6, <2>7 DEF Debts
  <1>2. ASSUME NEW r \in Reservations, NEW c \in Campaigns, NEW p \in Publishers,
               NEW amount \in Amounts, NEW ttl \in Nat, ReserveBudget(r, c, p, amount, ttl)
        PROVE  Debts'
    <2> DEFINE x == [campaignID |-> c, publisher |-> p, amount |-> amount,
                     expires |-> now + ttl, settled |-> FALSE]
    <2>1. /\ reservations' = [reservations EXCEPT ![r] = x]
          /\ reservations[r] = NoReservation
          /\ UNCHANGED <<spentBudget, publisherBalance, pendingReleases>>
          /\ amount \in Nat /\ amount > 0
      BY <1>2, EscrowRPCAssumption DEF ReserveBudget
    <2>2. x \in Reservation /\ ~ x.settled
      BY <2>1 DEF Config, Reservation
    <2> HIDE DEF x
    <2>3. ASSUME NEW q PROVE earned(reservations', q) = earned(reservations, q)
      <3>1. earned([reservations EXCEPT ![r] = x], q) = earned(reservations, q)
        BY <1>0, <2>1, <2>2, EntryOpened
      <3> QED BY <2>1, <3>1
    <2> QED BY <2>1, <2>3 DEF Debts
  <1>3. CASE \/ \E c \in Campaigns, a \in Advertisers, amount \in Amounts, bps \in Holdbacks :
                  FundCampaign(c, a, amount, bps)
             \/ \E c \in Campaigns, escrowAmount \in Deals : CreatePGDeal(c, escrowAmount)
             \/ Tick
             \/ UNCHANGED escrowVars
    <2>1. UNCHANGED <<reservations, spentBudget, publisherBalance, pendingReleases>>
      BY <1>3 DEF FundCampaign, CreatePGDeal, Tick, escrowVars
    <2> QED BY <2>1 DEF Debts
  <1> QED BY <1>1, <1>2, <1>3 DEF EscrowStep

\* FundCampaign adds to the escrow account what it adds to the total, unless
\* the escrow account pays itself.
LEMMA BackingStep == ASSUME Config, Counters, Backing, EscrowStep PROVE Backing'
  <1>1. ASSUME NEW c \in Campaigns, NEW a \in Advertisers, NEW amount \in Amounts,
               NEW bps \in Holdbacks, FundCampaign(c, a, amount, bps)
        PROVE  Backing'
    <2> DEFINE brought == broughtTo(advertiser, totalBudget)
               broughtNext == broughtTo(advertiser', totalBudget')
               gain == IF a = EscrowAccount THEN 0 ELSE amount
    <2>1. /\ totalBudget' = [totalBudget EXCEPT ![c] = @ + amount]
          /\ advertiser' = [advertiser EXCEPT ![c] = a]
          /\ advertiser[c] \in {NoOne, a}
          /\ balances[a] >= amount
          /\ balances' = [balances EXCEPT ![a] = @ - amount, ![EscrowAccount] = @ + amount]
          /\ amount \in Nat
      BY <1>1, EscrowRPCAssumption DEF FundCampaign, transferAUSD
    <2>2. a \in Accounts /\ EscrowAccount \in Accounts /\ a # NoOne /\ EscrowAccount # NoOne
      BY EscrowRPCAssumption DEF Accounts
    <2>3. balances' \in [Accounts -> Nat] /\ balances'[EscrowAccount] = balances[EscrowAccount] + gain
      <3>1. CASE a = EscrowAccount
        BY <2>1, <2>2, <3>1 DEF Backing
      <3>2. CASE a # EscrowAccount
        BY <2>1, <2>2, <3>2 DEF Backing
      <3> QED BY <3>1, <3>2
    <2>4. \A k \in Campaigns : advertiser'[k] = NoOne => totalBudget'[k] = 0
      BY <2>1, <2>2 DEF Config, Counters, Backing
    <2>5. \A k \in Campaigns : brought[k] \in Int /\ broughtNext[k] \in Int
      BY <2>1 DEF Counters, broughtTo
    <2>6. \A k \in Campaigns \ {c} : broughtNext[k] = brought[k]
      BY <2>1 DEF Config, Counters, broughtTo
    <2>7. broughtNext[c] = brought[c] + gain
      <3>1. /\ advertiser'[c] = a /\ totalBudget'[c] = totalBudget[c] + amount
            /\ totalBudget[c] \in Nat
        BY <2>1 DEF Config, Counters
      <3>2. CASE a = EscrowAccount
        <4>1. brought[c] = 0 /\ broughtNext[c] = 0
          BY <2>1, <2>2, <3>1, <3>2 DEF Backing, broughtTo
        <4> QED BY <3>2, <4>1
      <3>3. CASE a # EscrowAccount
        <4>1. brought[c] = totalBudget[c] /\ broughtNext[c] = totalBudget'[c]
          BY <2>1, <2>2, <3>1, <3>3 DEF broughtTo
        <4> QED BY <3>1, <3>3, <4>1
      <3> QED BY <3>2, <3>3
    <2>8. gain \in Int /\ SumFunctionOnSet(brought, Campaigns) = balances[EscrowAccount]
      BY <2>1 DEF Backing
    <2> HIDE DEF brought, broughtNext, gain
    <2>9. SumFunctionOnSet(broughtNext, Campaigns)
            = SumFunctionOnSet(brought, Campaigns) - brought[c] + broughtNext[c]
      BY <2>5, <2>6, SumChange, EscrowRPCAssumption
    <2>10. SumFunctionOnSet(brought, Campaigns) \in Int
      BY <2>5, SumInt, EscrowRPCAssumption
    <2>11. SumFunctionOnSet(broughtNext, Campaigns) = SumFunctionOnSet(brought, Campaigns) + gain
      BY <2>5, <2>7, <2>8, <2>9, <2>10
    <2> QED BY <2>3, <2>4, <2>8, <2>11 DEF Backing, broughtNext
  <1>2. CASE \/ \E c \in Campaigns, escrowAmount \in Deals : CreatePGDeal(c, escrowAmount)
             \/ \E r \in Reservations, c \in Campaigns, p \in Publishers, amount \in Amounts,
                  ttl \in Nat : ReserveBudget(r, c, p, amount, ttl)
             \/ \E r \in Reservations : SettleReceipt(r)
             \/ Tick
             \/ UNCHANGED escrowVars
    <2>1. UNCHANGED <<advertiser, totalBudget, balances>>
      BY <1>2 DEF CreatePGDeal, ReserveBudget, SettleReceipt, Tick, escrowVars
    <2> QED BY <2>1 DEF Backing
  <1> QED BY <1>1, <1>2 DEF EscrowStep

\* The escrow starts empty.
LEMMA BooksInit == EscrowInit => Books
  <1> SUFFICES ASSUME EscrowInit PROVE Books
    OBVIOUS
  <1>1. Config
    BY DEF EscrowInit, Config, BasisPoints
  <1>2. \A r \in Reservations : reservations[r] = NoReservation
    BY DEF EscrowInit
  <1>3. ASSUME NEW k
        PROVE  locked(reservations, k) = 0 /\ paid(reservations, k) = 0 /\ earned(reservations, k) = 0
    <2>1. \A r \in Reservations : /\ lockedBy(reservations, k)[r] = 0
                                  /\ paidBy(reservations, k)[r] = 0
                                  /\ earnedBy(reservations, k)[r] = 0
      BY <1>2 DEF lockedBy, paidBy, earnedBy
    <2> QED BY <2>1, SumZero, EscrowRPCAssumption DEF locked, paid, earned
  <1>4. Counters
    BY <1>3 DEF EscrowInit, Counters, Entries
  <1>5. Debts
    <2>1. \A p \in Publishers : owedTo(publisherBalance, pendingReleases)[p] = 0
      BY DEF EscrowInit, owedTo
    <2>2. \A c \in Campaigns : spentBudget[c] = 0
      BY DEF EscrowInit
    <2>3. /\ SumFunctionOnSet(owedTo(publisherBalance, pendingReleases), Publishers) = 0
          /\ SumFunctionOnSet(spentBudget, Campaigns) = 0
      BY <2>1, <2>2, SumZero, EscrowRPCAssumption
    <2> QED BY <1>3, <2>3 DEF EscrowInit, Debts
  <1>6. Backing
    <2>1. \A c \in Campaigns : /\ totalBudget[c] = 0
                               /\ broughtTo(advertiser, totalBudget)[c] = 0
      BY DEF EscrowInit, broughtTo
    <2>2. SumFunctionOnSet(broughtTo(advertiser, totalBudget), Campaigns) = 0
      BY <2>1, SumZero, EscrowRPCAssumption
    <2>3. balances \in [Accounts -> Nat] /\ balances[EscrowAccount] = 0
      BY EscrowRPCAssumption DEF EscrowInit, Accounts
    <2> QED BY <2>1, <2>2, <2>3 DEF Backing
  <1> QED BY <1>1, <1>4, <1>5, <1>6 DEF Books

\* Books is inductive.
LEMMA BooksStep == ASSUME Books, EscrowStep PROVE Books'
  BY ConfigStep, CountersStep, DebtsStep, BackingStep DEF Books

-----------------------------------------------------------------------------
(* The settlement *)

Counts == 0..MaxProofs

Oracle ==
    /\ witnesses \in [Buckets -> Seq(DeliveryProof)]
    /\ batch \in Buckets \cup {Idle}
    /\ submitted \in [Reservations -> Counts]
    /\ delivered \subseteq Reservations

\* Proofs join a bucket at its end and leave it at its head.
LEMMA OracleStep == ASSUME Oracle, [Next]_vars PROVE Oracle'
  <1>1. ASSUME NEW proof \in DeliveryProof, NEW b \in Buckets, SubmitDeliveryProof(proof, b)
        PROVE  Oracle'
    <2> DEFINE r == proof.reservation
    <2>1. r \in Reservations
      BY DEF DeliveryProof
    <2>2. /\ submitted[r] < MaxProofs
          /\ witnesses' = [witnesses EXCEPT ![b] = Append(@, proof)]
          /\ submitted' = [submitted EXCEPT ![r] = @ + 1]
          /\ delivered' \subseteq delivered \cup {r}
          /\ batch' = batch
      BY <1>1 DEF SubmitDeliveryProof
    <2>3. Append(witnesses[b], proof) \in Seq(DeliveryProof)
      BY DEF Oracle
    <2>4. submitted[r] + 1 \in Counts
      BY <2>1, <2>2, SettlementAssumption DEF Oracle, Counts
    <2> HIDE DEF r
    <2>5. witnesses' \in [Buckets -> Seq(DeliveryProof)]
      BY <2>2, <2>3 DEF Oracle
    <2>6. submitted' \in [Reservations -> Counts]
      BY <2>2, <2>4 DEF Oracle
    <2> QED BY <2>1, <2>2, <2>5, <2>6 DEF Oracle
  <1>2. ASSUME NEW b \in Buckets, BatchSettle(b) PROVE Oracle'
    <2>1. /\ witnesses[b] # <<>>
          /\ witnesses' = [witnesses EXCEPT ![b] = Tail(@)]
          /\ batch' = b
          /\ UNCHANGED <<submitted, delivered>>
      BY <1>2 DEF BatchSettle
    <2>2. Tail(witnesses[b]) \in Seq(DeliveryProof)
      BY <2>1 DEF Oracle
    <2> QED BY <2>1, <2>2 DEF Oracle
  <1>3. CASE BatchEnd
    BY <1>3 DEF BatchEnd, Oracle
  <1>4. CASE UNCHANGED settlementVars
    BY <1>4 DEF settlementVars, Oracle
  <1>5. \/ \E proof \in DeliveryProof, b \in Buckets : SubmitDeliveryProof(proof, b)
        \/ \E b \in Buckets : BatchSettle(b)
        \/ BatchEnd
        \/ UNCHANGED settlementVars
    BY DEF Next, ProcessImpressionWin, vars
  <1> QED BY <1>1, <1>2, <1>3, <1>4, <1>5

\* The inductive invariant of the settlement.
SettlementInv == Books /\ Oracle

\* It holds before the first call.
LEMMA InvInit == Init => SettlementInv
  <1> SUFFICES ASSUME Init PROVE SettlementInv
    OBVIOUS
  <1>1. Books
    BY BooksInit DEF Init
  <1>2. 0 \in Counts
    BY SettlementAssumption DEF Counts
  <1>3. witnesses = [b \in Buckets |-> <<>>] /\ submitted = [r \in Reservations |-> 0]
    BY DEF Init
  <1>4. <<>> \in Seq(DeliveryProof)
    OBVIOUS
  <1>5. Oracle
    BY <1>2, <1>3, <1>4 DEF Init, Oracle
  <1> QED BY <1>1, <1>5 DEF SettlementInv

\* It is inductive: the escrow moves by its handlers only.
LEMMA InvStep == SettlementInv /\ [Next]_vars => SettlementInv'
  BY NextIsEscrowStep, BooksStep, OracleStep DEF SettlementInv, Oracle

\* What the invariant says in the words of the properties.
LEMMA InvMeans == SettlementInv => TypeOK /\ DeliveryPaidOnce /\ EscrowBacked
  <1> SUFFICES ASSUME SettlementInv PROVE TypeOK /\ DeliveryPaidOnce /\ EscrowBacked
    OBVIOUS
  <1>1. Config /\ Counters /\ Debts /\ Backing /\ Oracle
    BY DEF SettlementInv, Books
  <1>2. TypeOK
    <2>1. submitted \in [Reservations -> 0..MaxProofs]
      BY <1>1 DEF Oracle, Counts
    <2>2. EscrowTypeOK
      BY <1>1 DEF Config, Counters, Debts, Backing, Entries, EscrowTypeOK
    <2> QED BY <1>1, <2>1, <2>2 DEF Oracle, TypeOK
  <1>3. DeliveryPaidOnce
    BY <1>1, CoinSums DEF Counters, Debts, DeliveryPaidOnce
  <1>4. EscrowBacked
    <2> DEFINE brought == broughtTo(advertiser, totalBudget)
               owed == owedTo(publisherBalance, pendingReleases)
    <2>1. balances[EscrowAccount] = SumFunctionOnSet(brought, Campaigns)
      BY <1>1 DEF Backing
    <2>2. ASSUME NothingFromNowhere
          PROVE  balances[EscrowAccount] >= SumFunctionOnSet(owed, Publishers)
      <3>1. \A c \in Campaigns : Fair(guaranteedDeals[c]) /\ brought[c] = totalBudget[c]
        BY <2>2 DEF NothingFromNowhere, Fair, broughtTo
      <3>2. \A c \in Campaigns : /\ spentBudget[c] \in Int /\ brought[c] \in Int
                                 /\ spentBudget[c] <= brought[c]
        BY <1>1, <3>1 DEF Counters
      <3> HIDE DEF brought
      <3>3. /\ SumFunctionOnSet(spentBudget, Campaigns) <= SumFunctionOnSet(brought, Campaigns)
            /\ SumFunctionOnSet(spentBudget, Campaigns) \in Int
            /\ SumFunctionOnSet(brought, Campaigns) \in Int
        BY <3>2, SumMonotone, SumInt, EscrowRPCAssumption
      <3> QED BY <1>1, <2>1, <3>3 DEF Debts
    <2> QED BY <2>1, <2>2 DEF EscrowBacked, owedTo, broughtTo
  <1> QED BY <1>2, <1>3, <1>4

\* No budget, balance or debt of the handlers goes below zero.
THEOREM TypeCorrect == Spec => []TypeOK
  BY InvInit, InvStep, InvMeans, PTL DEF Spec

\* However often SubmitDeliveryProof and BatchSettlement report a delivery,
\* SettleReceipt moves its money once.
THEOREM PaidOnce == Spec => []DeliveryPaidOnce
  BY InvInit, InvStep, InvMeans, PTL DEF Spec

\* The escrow account holds every budget that FundCampaign raised for others
\* than itself, and that covers all that SettleReceipt owes to publishers,
\* unless the escrow account was an advertiser or CreatePGDeal took a deal of
\* negative amount.
THEOREM Backed == Spec => []EscrowBacked
  BY InvInit, InvStep, InvMeans, PTL DEF Spec

-----------------------------------------------------------------------------
(* The refinement of IdealEscrow *)

\* What an entry holds in the ideal escrow, and the reservations that are paid.
heldBy(x) ==
    IF x # NoReservation /\ ~ x.settled
      THEN [of |-> x.campaignID, for |-> x.publisher, amount |-> x.amount]
      ELSE NoReservation

settledIn(res) == {r \in Reservations : res[r] # NoReservation /\ res[r].settled}

Money == [of : Campaigns, for : Publishers, amount : Nat \ {0}]

\* Writing one entry changes one hold, and one payment.
LEMMA EntryWritten ==
    ASSUME reservations \in Entries, NEW r \in Reservations, NEW x,
           reservations' = [reservations EXCEPT ![r] = x]
    PROVE  /\ holds' = [holds EXCEPT ![r] = heldBy(x)]
           /\ settledIn(reservations') =
                IF x # NoReservation /\ x.settled
                  THEN settledIn(reservations) \cup {r} ELSE settledIn(reservations) \ {r}
  <1>1. /\ reservations'[r] = x
        /\ \A q \in Reservations \ {r} : reservations'[q] = reservations[q]
    BY DEF Entries
  <1>2. \A q \in Reservations : holds'[q] = IF q = r THEN heldBy(x) ELSE holds[q]
    BY <1>1 DEF holds, Open, heldBy
  <1>3. DOMAIN holds' = Reservations /\ DOMAIN holds = Reservations
    BY DEF holds
  <1>4. holds' = [holds EXCEPT ![r] = heldBy(x)]
    BY <1>2, <1>3 DEF holds
  <1>5. settledIn(reservations') =
          IF x # NoReservation /\ x.settled
            THEN settledIn(reservations) \cup {r} ELSE settledIn(reservations) \ {r}
    BY <1>1 DEF settledIn
  <1> QED BY <1>4, <1>5

\* Where the reservations stay as they are, so do the holds and the payments.
LEMMA EntriesKept ==
    ASSUME reservations' = reservations
    PROVE  holds' = holds /\ settledIn(reservations') = settledIn(reservations)
  BY DEF holds, Open, settledIn

\* FundCampaign pays into a purse.
LEMMA FundIsIdeal ==
    ASSUME Books, NEW c \in Campaigns, NEW a \in Advertisers, NEW amount \in Amounts,
           NEW bps \in Holdbacks, FundCampaign(c, a, amount, bps)
    PROVE  Ideal!Fund(c)
  <1>1. amount \in Nat /\ amount > 0
    BY EscrowRPCAssumption DEF FundCampaign
  <1>2. /\ availableBudget' = [availableBudget EXCEPT ![c] = @ + amount]
        /\ reservations' = reservations
        /\ publisherBalance' = publisherBalance /\ pendingReleases' = pendingReleases
    BY DEF FundCampaign
  <1>3. availableBudget \in [Campaigns -> Nat]
    BY DEF Books, Counters
  <1>4. availableBudget'[c] > availableBudget[c]
    BY <1>1, <1>2, <1>3
  <1>5. availableBudget' = [availableBudget EXCEPT ![c] = availableBudget'[c]]
    BY <1>2, <1>3
  <1>6. holds' = holds /\ settledIn(reservations') = settledIn(reservations)
    BY <1>2, EntriesKept
  <1> QED BY <1>2, <1>4, <1>5, <1>6 DEF Ideal!Fund, settledIn, Settled

\* CreatePGDeal takes out of a purse, pays into it when the deal has a negative
\* amount, and leaves it when the deal costs nothing.
LEMMA DealIsIdeal ==
    ASSUME Books, NEW c \in Campaigns, NEW amount \in Deals, CreatePGDeal(c, amount)
    PROVE  Ideal!TakeOut(c) \/ Ideal!Fund(c) \/ UNCHANGED (Ideal!vars)
  <1>1. amount \in Int
    BY EscrowRPCAssumption
  <1>2. /\ availableBudget' = [availableBudget EXCEPT ![c] = @ - amount]
        /\ availableBudget[c] >= amount
        /\ reservations' = reservations
        /\ publisherBalance' = publisherBalance /\ pendingReleases' = pendingReleases
    BY DEF CreatePGDeal
  <1>3. availableBudget \in [Campaigns -> Nat]
    BY DEF Books, Counters
  <1>4. holds' = holds /\ settledIn(reservations') = settledIn(reservations)
    BY <1>2, EntriesKept
  <1>5. availableBudget' = [availableBudget EXCEPT ![c] = availableBudget'[c]]
    BY <1>2, <1>3
  <1>6. CASE amount = 0
    <2>1. availableBudget' = availableBudget
      BY <1>2, <1>3, <1>6
    <2> QED BY <1>2, <1>4, <2>1 DEF Ideal!vars, settledIn, Settled
  <1>7. CASE amount > 0
    <2>1. 0 <= availableBudget'[c] /\ availableBudget'[c] < availableBudget[c]
      BY <1>1, <1>2, <1>3, <1>7
    <2> QED BY <1>2, <1>4, <1>5, <2>1 DEF Ideal!TakeOut, settledIn, Settled
  <1>8. CASE amount < 0
    <2>1. availableBudget'[c] > availableBudget[c]
      BY <1>1, <1>2, <1>3, <1>8
    <2> QED BY <1>2, <1>4, <1>5, <2>1 DEF Ideal!Fund, settledIn, Settled
  <1> QED BY <1>1, <1>6, <1>7, <1>8

\* ReserveBudget promises money to a publisher.
LEMMA ReserveIsIdeal ==
    ASSUME Books, NEW r \in Reservations, NEW c \in Campaigns, NEW p \in Publishers,
           NEW amount \in Amounts, NEW ttl \in Nat, ReserveBudget(r, c, p, amount, ttl)
    PROVE  Ideal!Promise(r, c, p)
  <1> DEFINE res == [campaignID |-> c, publisher |-> p, amount |-> amount,
                     expires |-> now + ttl, settled |-> FALSE]
             money == [of |-> c, for |-> p, amount |-> amount]
  <1>1. amount \in Nat \ {0}
    BY EscrowRPCAssumption DEF ReserveBudget
  <1>2. /\ reservations' = [reservations EXCEPT ![r] = res]
        /\ availableBudget' = [availableBudget EXCEPT ![c] = @ - amount]
        /\ availableBudget[c] >= amount
        /\ reservations[r] = NoReservation
        /\ publisherBalance' = publisherBalance /\ pendingReleases' = pendingReleases
    BY DEF ReserveBudget
  <1>3. reservations \in Entries /\ availableBudget \in [Campaigns -> Nat] /\ now \in Nat
    BY DEF Books, Counters, Config
  <1>4. res \in Reservation
    BY <1>1, <1>3 DEF Reservation
  <1>5. res # NoReservation
    BY <1>4, NoReservationAssumption
  <1>6. money \in Money
    BY <1>1 DEF Money
  <1>7. money # NoReservation
    BY <1>6, NoReservationAssumption DEF Money
  <1>8. heldBy(res) = money /\ ~ res.settled
    BY <1>5 DEF heldBy
  <1> HIDE DEF res, money
  <1>9. /\ holds' = [holds EXCEPT ![r] = money]
        /\ settledIn(reservations') = settledIn(reservations) \ {r}
    BY <1>2, <1>3, <1>5, <1>8, EntryWritten
  <1>10. r \notin settledIn(reservations)
    BY <1>2 DEF settledIn
  <1>11. holds[r] = NoReservation
    BY <1>2 DEF holds, Open
  <1>12. holds'[r] = money
    BY <1>9 DEF holds
  <1>13. holds'[r].amount = amount /\ money = [of |-> c, for |-> p, amount |-> holds'[r].amount]
    BY <1>12 DEF money
  <1>14. 0 < amount /\ amount <= availableBudget[c]
    BY <1>1, <1>2, <1>3
  <1>15. settledIn(reservations') = settledIn(reservations)
    BY <1>9, <1>10
  <1> QED BY <1>2, <1>7, <1>9, <1>10, <1>11, <1>12, <1>13, <1>14, <1>15
          DEF Ideal!Promise, settledIn, Settled

\* SettleReceipt pays what the reservation holds to its publisher, part of it
\* as a holdback.
LEMMA SettleIsIdeal ==
    ASSUME Books, NEW r \in Reservations, SettleReceipt(r)
    PROVE  Ideal!Pay(r)
  <1> DEFINE x == reservations[r]
             settledX == [x EXCEPT !.settled = TRUE]
             money == [of |-> x.campaignID, for |-> x.publisher, amount |-> x.amount]
             owed == owedTo(publisherBalance, pendingReleases)
             owedNext == owedTo(publisherBalance', pendingReleases')
  <1>1. /\ x # NoReservation /\ ~ x.settled /\ availableBudget' = availableBudget
        /\ reservations' = [reservations EXCEPT ![r].settled = TRUE]
    BY DEF SettleReceipt, CanSettle
  <1>2. reservations \in Entries
    BY DEF Books, Counters
  <1>3. reservations' = [reservations EXCEPT ![r] = settledX]
    BY <1>1, <1>2 DEF Entries
  <1>4. /\ x \in Reservation
        /\ publisherBalance'[x.publisher] + pendingReleases'[x.publisher]
             = publisherBalance[x.publisher] + pendingReleases[x.publisher] + x.amount
        /\ \A q \in Publishers \ {x.publisher} : /\ publisherBalance'[q] = publisherBalance[q]
                                                 /\ pendingReleases'[q] = pendingReleases[q]
    BY SettlePays DEF Books
  <1>5. owedNext = [owed EXCEPT ![x.publisher] = @ + x.amount]
    <2>1. x.publisher \in Publishers
      BY <1>4 DEF Reservation
    <2>2. \A q \in Publishers : owedNext[q] = IF q = x.publisher THEN owed[q] + x.amount ELSE owed[q]
      BY <1>4 DEF owedTo
    <2>3. owedNext = [q \in Publishers |-> owedNext[q]] /\ owed = [q \in Publishers |-> owed[q]]
      BY DEF owedTo
    <2> HIDE DEF owed, owedNext, x
    <2> QED BY <2>1, <2>2, <2>3
  <1>6. settledX \in Reservation /\ settledX.settled
    BY <1>4 DEF Reservation
  <1>7. settledX # NoReservation
    BY <1>6, NoReservationAssumption
  <1>8. heldBy(settledX) = NoReservation
    BY <1>6 DEF heldBy
  <1>9. /\ holds' = [holds EXCEPT ![r] = NoReservation]
        /\ settledIn(reservations') = settledIn(reservations) \cup {r}
    BY <1>2, <1>3, <1>6, <1>7, <1>8, EntryWritten
  <1>10. holds[r] = money
    BY <1>1 DEF holds, Open
  <1>11. money \in Money
    BY <1>4 DEF Reservation, Money
  <1>12. holds[r] # NoReservation
    BY <1>10, <1>11, NoReservationAssumption DEF Money
  <1>13. holds[r].for = x.publisher /\ holds[r].amount = x.amount
    BY <1>10
  <1> HIDE DEF settledX, money
  <1> QED BY <1>1, <1>5, <1>9, <1>12, <1>13 DEF Ideal!Pay, settledIn, Settled, owedTo

\* The empty escrow is an empty ideal escrow.
LEMMA InitIsIdeal == Init => Ideal!Init
  <1> SUFFICES ASSUME Init PROVE Ideal!Init
    OBVIOUS
  <1>1. EscrowInit
    BY DEF Init
  <1>2. \A r \in Reservations : reservations[r] = NoReservation
    BY <1>1 DEF EscrowInit
  <1>3. holds = [r \in Reservations |-> NoReservation]
    BY <1>2 DEF holds, Open
  <1>4. {r \in Reservations : Settled(r)} = {}
    BY <1>2 DEF Settled
  <1>5. [p \in Publishers |-> publisherBalance[p] + pendingReleases[p]] = [p \in Publishers |-> 0]
    BY <1>1 DEF EscrowInit
  <1> QED BY <1>1, <1>3, <1>4, <1>5 DEF EscrowInit, Ideal!Init

\* Every step of the settlement is a step of the ideal escrow or changes
\* nothing of it.
LEMMA StepIsIdeal == SettlementInv /\ [Next]_vars => [Ideal!Next]_(Ideal!vars)
  <1> SUFFICES ASSUME SettlementInv, [Next]_vars PROVE [Ideal!Next]_(Ideal!vars)
    OBVIOUS
  <1>1. Books /\ EscrowStep
    BY NextIsEscrowStep DEF SettlementInv, Oracle
  <1>2. ASSUME NEW c \in Campaigns, NEW a \in Advertisers, NEW amount \in Amounts,
               NEW bps \in Holdbacks, FundCampaign(c, a, amount, bps)
        PROVE  Ideal!Next
    BY <1>1, <1>2, FundIsIdeal DEF Ideal!Next
  <1>3. ASSUME NEW c \in Campaigns, NEW amount \in Deals, CreatePGDeal(c, amount)
        PROVE  Ideal!Next \/ UNCHANGED (Ideal!vars)
    BY <1>1, <1>3, DealIsIdeal DEF Ideal!Next
  <1>4. ASSUME NEW r \in Reservations, NEW c \in Campaigns, NEW p \in Publishers,
               NEW amount \in Amounts, NEW ttl \in Nat, ReserveBudget(r, c, p, amount, ttl)
        PROVE  Ideal!Next
    BY <1>1, <1>4, ReserveIsIdeal DEF Ideal!Next
  <1>5. ASSUME NEW r \in Reservations, SettleReceipt(r) PROVE Ideal!Next
    BY <1>1, <1>5, SettleIsIdeal DEF Ideal!Next
  <1>6. CASE Tick \/ UNCHANGED escrowVars
    <2>1. /\ availableBudget' = availableBudget /\ reservations' = reservations
          /\ publisherBalance' = publisherBalance /\ pendingReleases' = pendingReleases
      BY <1>6 DEF Tick, escrowVars
    <2>2. holds' = holds /\ settledIn(reservations') = settledIn(reservations)
      BY <2>1, EntriesKept
    <2> QED BY <2>1, <2>2 DEF Ideal!vars, settledIn, Settled
  <1> QED BY <1>1, <1>2, <1>3, <1>4, <1>5, <1>6 DEF EscrowStep

\* The handlers implement IdealEscrow: whatever the settlement calls, what
\* ReserveBudget locks is paid once and whole by SettleReceipt, or stays.
THEOREM Refinement == Spec => ImplementsIdealEscrow
  BY InvInit, InvStep, InitIsIdeal, StepIsIdeal, PTL
     DEF Spec, ImplementsIdealEscrow, Ideal!Spec

-----------------------------------------------------------------------------
(* Delivered is lost to nothing but the clock *)

\* A viewable proof for r waits in a bucket.
Waiting(r, w) ==
    \E b \in Buckets : \E k \in 1..Len(w[b]) : w[b][k].reservation = r /\ w[b][k].viewable

Expired(r) == now > reservations[r].expires

\* No handler undoes a settlement or moves an expiry.
LEMMA ExistingStays ==
    ASSUME Books, EscrowStep, NEW r \in Reservations, reservations[r] # NoReservation
    PROVE  /\ reservations'[r] # NoReservation
           /\ Settled(r) => Settled(r)'
           /\ Expired(r) => Expired(r)'
  <1>1. reservations \in Entries /\ now \in Nat /\ reservations[r] \in Reservation
    BY DEF Books, Counters, Config, Entries
  <1>2. ASSUME NEW q \in Reservations, NEW c \in Campaigns, NEW p \in Publishers,
               NEW amount \in Amounts, NEW ttl \in Nat, ReserveBudget(q, c, p, amount, ttl)
        PROVE  reservations'[r] = reservations[r] /\ now' = now
    <2>1. q # r
      BY <1>2 DEF ReserveBudget
    <2> QED BY <1>1, <1>2, <2>1 DEF ReserveBudget, Entries
  <1>3. ASSUME NEW q \in Reservations, SettleReceipt(q)
        PROVE  /\ now' = now
               /\ \/ reservations'[r] = reservations[r]
                  \/ /\ reservations'[r] # NoReservation /\ Settled(r)'
                     /\ reservations'[r].expires = reservations[r].expires
    <2>1. reservations' = [reservations EXCEPT ![q].settled = TRUE] /\ now' = now
      BY <1>3 DEF SettleReceipt
    <2>2. CASE q = r
      <3>1. reservations'[r] = [reservations[r] EXCEPT !.settled = TRUE]
        BY <1>1, <2>1, <2>2 DEF Entries
      <3>2. /\ reservations'[r] \in Reservation /\ reservations'[r].settled
            /\ reservations'[r].expires = reservations[r].expires
        BY <1>1, <3>1 DEF Reservation
      <3> QED BY <2>1, <3>2, NoReservationAssumption DEF Settled
    <2>3. CASE q # r
      BY <1>1, <2>1, <2>3 DEF Entries
    <2> QED BY <2>2, <2>3
  <1>4. CASE \/ \E c \in Campaigns, a \in Advertisers, amount \in Amounts, bps \in Holdbacks :
                  FundCampaign(c, a, amount, bps)
             \/ \E c \in Campaigns, escrowAmount \in Deals : CreatePGDeal(c, escrowAmount)
             \/ UNCHANGED escrowVars
    <2>1. reservations' = reservations /\ now' = now
      BY <1>4 DEF FundCampaign, CreatePGDeal, escrowVars
    <2> QED BY <2>1 DEF Settled, Expired
  <1>5. CASE Tick
    <2>1. reservations' = reservations /\ now' = now + 1
      BY <1>5 DEF Tick
    <2>2. reservations[r].expires \in Nat
      BY <1>1 DEF Reservation
    <2> QED BY <1>1, <2>1, <2>2 DEF Settled, Expired
  <1> QED BY <1>2, <1>3, <1>4, <1>5 DEF EscrowStep, Settled, Expired

\* A proof that joins a bucket waits there, and those before it stay.
LEMMA WaitingAppend ==
    ASSUME NEW w \in [Buckets -> Seq(DeliveryProof)], NEW proof \in DeliveryProof,
           NEW b \in Buckets, NEW r,
           Waiting(r, w) \/ (proof.reservation = r /\ proof.viewable)
    PROVE  Waiting(r, [w EXCEPT ![b] = Append(@, proof)])
  <1> DEFINE v == [w EXCEPT ![b] = Append(@, proof)]
  <1>1. /\ v[b] = Append(w[b], proof) /\ \A q \in Buckets \ {b} : v[q] = w[q]
        /\ w[b] \in Seq(DeliveryProof)
    OBVIOUS
  <1>2. /\ Len(v[b]) = Len(w[b]) + 1 /\ v[b][Len(w[b]) + 1] = proof /\ Len(w[b]) \in Nat
        /\ \A k \in 1..Len(w[b]) : v[b][k] = w[b][k]
    BY <1>1
  <1> HIDE DEF v
  <1>3. CASE proof.reservation = r /\ proof.viewable
    <2>1. Len(w[b]) + 1 \in 1..Len(v[b])
      BY <1>2
    <2> QED BY <1>2, <1>3, <2>1 DEF Waiting, v
  <1>4. CASE Waiting(r, w)
    <2>1. PICK q \in Buckets : \E k \in 1..Len(w[q]) : w[q][k].reservation = r /\ w[q][k].viewable
      BY <1>4 DEF Waiting
    <2>2. PICK k \in 1..Len(w[q]) : w[q][k].reservation = r /\ w[q][k].viewable
      BY <2>1
    <2>3. k \in 1..Len(v[q]) /\ v[q][k] = w[q][k]
      BY <1>1, <1>2, <2>2, SMTT(30)
    <2>4. Waiting(r, v)
      BY <2>2, <2>3 DEF Waiting
    <2> QED BY <2>4 DEF v
  <1> QED BY <1>3, <1>4

\* The head of a bucket leaves it, the others wait on.
LEMMA WaitingTail ==
    ASSUME NEW w \in [Buckets -> Seq(DeliveryProof)], NEW b \in Buckets, w[b] # <<>>, NEW r,
           Waiting(r, w)
    PROVE  \/ Head(w[b]).reservation = r /\ Head(w[b]).viewable
           \/ Waiting(r, [w EXCEPT ![b] = Tail(@)])
  <1> DEFINE v == [w EXCEPT ![b] = Tail(@)]
  <1>1. v[b] = Tail(w[b]) /\ \A q \in Buckets \ {b} : v[q] = w[q]
    OBVIOUS
  <1>2. /\ w[b] \in Seq(DeliveryProof) /\ Len(w[b]) \in Nat \ {0} /\ Head(w[b]) = w[b][1]
        /\ Len(v[b]) = Len(w[b]) - 1
        /\ \A k \in 1..Len(w[b]) - 1 : v[b][k] = w[b][k + 1]
    BY <1>1
  <1> HIDE DEF v
  <1>3. PICK q \in Buckets : \E k \in 1..Len(w[q]) : w[q][k].reservation = r /\ w[q][k].viewable
    BY DEF Waiting
  <1>4. PICK k \in 1..Len(w[q]) : w[q][k].reservation = r /\ w[q][k].viewable
    BY <1>3
  <1>5. CASE q # b
    <2>1. Waiting(r, v)
      BY <1>1, <1>4, <1>5 DEF Waiting
    <2> QED BY <2>1 DEF v
  <1>6. CASE q = b /\ k = 1
    BY <1>2, <1>4, <1>6
  <1>7. CASE q = b /\ k # 1
    <2>1. k - 1 \in 1..Len(v[b]) /\ v[b][k - 1] = w[b][k]
      BY <1>2, <1>4, <1>7
    <2>2. Waiting(r, v)
      BY <1>4, <1>7, <2>1 DEF Waiting
    <2> QED BY <2>2 DEF v
  <1> QED BY <1>5, <1>6, <1>7

\* What DeliveryLostOnlyByExpiry says of one reservation, and that the
\* reservation was there.
Kept(r) ==
    /\ reservations[r] # NoReservation
    /\ Settled(r) \/ Expired(r) \/ Waiting(r, witnesses)

AllKept == \A r \in delivered : Kept(r)

\* A step that leaves a proof where it waits, or settles it, loses no delivery.
LEMMA KeptStep ==
    ASSUME SettlementInv, AllKept, [Next]_vars
    PROVE  AllKept'
  <1>1. Books /\ Oracle /\ EscrowStep
    BY NextIsEscrowStep DEF SettlementInv, Oracle
  <1>2. witnesses \in [Buckets -> Seq(DeliveryProof)] /\ delivered \subseteq Reservations
    BY <1>1 DEF Oracle
  <1>3. ASSUME NEW r \in Reservations, reservations[r] # NoReservation,
               \/ Settled(r) \/ Expired(r)
               \/ Settled(r)' \/ Expired(r)' \/ Waiting(r, witnesses')
        PROVE  Kept(r)'
    <2>1. /\ reservations'[r] # NoReservation
          /\ Settled(r) => Settled(r)'
          /\ Expired(r) => Expired(r)'
      BY <1>1, <1>3, ExistingStays
    <2>2. Waiting(r, witnesses)' <=> Waiting(r, witnesses')
      BY DEF Waiting
    <2> QED BY <1>3, <2>1, <2>2 DEF Kept
  <1>4. ASSUME NEW proof \in DeliveryProof, NEW b \in Buckets, SubmitDeliveryProof(proof, b)
        PROVE  AllKept'
    <2>1. /\ witnesses' = [witnesses EXCEPT ![b] = Append(@, proof)]
          /\ \A r \in delivered' : r \in delivered
                                     \/ (r = proof.reservation /\ proof.viewable /\ CanSettle(r))
      BY <1>4 DEF SubmitDeliveryProof
    <2>2. proof.reservation \in Reservations
      BY DEF DeliveryProof
    <2>3. ASSUME NEW r \in delivered' PROVE Kept(r)'
      <3>1. r \in Reservations
        BY <1>2, <2>1, <2>2
      <3>2. reservations[r] # NoReservation
        BY <2>1 DEF AllKept, Kept, CanSettle
      <3>3. CASE Waiting(r, witnesses) \/ (proof.reservation = r /\ proof.viewable)
        <4>1. Waiting(r, witnesses')
          BY <1>2, <2>1, <3>3, WaitingAppend
        <4> QED BY <1>3, <3>1, <3>2, <4>1
      <3>4. CASE Settled(r) \/ Expired(r)
        BY <1>3, <3>1, <3>2, <3>4
      <3> QED BY <2>1, <3>3, <3>4 DEF AllKept, Kept
    <2> QED BY <2>3 DEF AllKept
  <1>5. ASSUME NEW b \in Buckets, BatchSettle(b) PROVE AllKept'
    <2>1. /\ witnesses[b] # <<>>
          /\ witnesses' = [witnesses EXCEPT ![b] = Tail(@)]
          /\ settleImpression(Head(witnesses[b]))
          /\ delivered' = delivered
      BY <1>5 DEF BatchSettle
    <2>2. ASSUME NEW r \in delivered PROVE Kept(r)'
      <3>1. r \in Reservations /\ reservations[r] # NoReservation
        BY <1>2 DEF AllKept, Kept
      <3>2. CASE Settled(r) \/ Expired(r) \/ Waiting(r, witnesses')
        BY <1>3, <3>1, <3>2
      <3>3. CASE /\ ~ Settled(r) /\ ~ Expired(r)
                 /\ Head(witnesses[b]).reservation = r /\ Head(witnesses[b]).viewable
        <4>1. reservations \in Entries /\ now \in Nat
          BY <1>1 DEF Books, Counters, Config
        <4>2. reservations[r].expires \in Nat
          BY <3>1, <4>1 DEF Entries, Reservation
        <4>3. CanSettle(r)
          BY <3>1, <3>3, <4>1, <4>2 DEF CanSettle, Settled, Expired
        <4>4. settleImpression(Head(witnesses[b])) => SettleReceipt(r)
          BY <3>3, <4>3, Zenon DEF settleImpression
        <4>5. SettleReceipt(r)
          BY <2>1, <4>4
        <4>6. reservations' = [reservations EXCEPT ![r].settled = TRUE]
          BY <4>5 DEF SettleReceipt
        <4>7. reservations'[r] \in Reservation /\ reservations'[r].settled
          BY <3>1, <4>1, <4>6 DEF Entries, Reservation
        <4>8. Settled(r)'
          BY <4>7, NoReservationAssumption DEF Settled
        <4> QED BY <1>3, <3>1, <4>8
      <3>4. Settled(r) \/ Expired(r) \/ Waiting(r, witnesses)
        BY DEF AllKept, Kept
      <3> QED BY <1>2, <2>1, <3>2, <3>3, <3>4, WaitingTail
    <2> QED BY <2>1, <2>2 DEF AllKept
  <1>6. ASSUME UNCHANGED <<witnesses, delivered>> PROVE AllKept'
    <2>1. ASSUME NEW r \in delivered PROVE Kept(r)'
      <3>1. /\ r \in Reservations /\ reservations[r] # NoReservation
            /\ Settled(r) \/ Expired(r) \/ Waiting(r, witnesses')
        BY <1>2, <1>6 DEF AllKept, Kept
      <3> QED BY <1>3, <3>1
    <2> QED BY <1>6, <2>1 DEF AllKept
  <1>7. \/ \E proof \in DeliveryProof, b \in Buckets : SubmitDeliveryProof(proof, b)
        \/ \E b \in Buckets : BatchSettle(b)
        \/ UNCHANGED <<witnesses, delivered>>
    BY DEF Next, ProcessImpressionWin, BatchEnd, settlementVars, vars
  <1> QED BY <1>4, <1>5, <1>6, <1>7

\* A delivery reported in time by a viewable proof is lost to nothing but the
\* clock: in whatever order its proofs reach SubmitDeliveryProof and
\* BatchSettlement, until its reservation expires it is settled or waits.
THEOREM DeliveryKept == Spec => []DeliveryLostOnlyByExpiry
  <1>1. Init => AllKept
    BY DEF Init, AllKept
  <1>2. SettlementInv /\ AllKept /\ [Next]_vars => AllKept'
    BY KeptStep
  <1>3. AllKept => DeliveryLostOnlyByExpiry
    BY DEF AllKept, Kept, Expired, Waiting, DeliveryLostOnlyByExpiry, ProofWaits
  <1> QED BY InvInit, InvStep, <1>1, <1>2, <1>3, PTL DEF Spec

-----------------------------------------------------------------------------
(* Ad slots: prices, decay and swaps. *)

\* Up to the end of its window a slot costs its floor at least, if that is not
\* negative.
LEMMA PriceReachesFloor ==
    ASSUME NEW slot \in AdSlot, slot.start <= slot.end, NEW now1 \in Nat, now1 <= slot.end,
           slot.floor >= 0
    PROVE  calculateCurrentPrice(slot, now1) \in Nat /\ calculateCurrentPrice(slot, now1) >= slot.floor
  <1>1. slot.floor \in Nat /\ slot.start \in Nat /\ slot.end \in Nat
    BY DEF AdSlot
  <1>2. CASE now1 < slot.start \/ slot.end = slot.start
    BY <1>1, <1>2 DEF calculateCurrentPrice
  <1>3. CASE ~ (now1 < slot.start \/ slot.end = slot.start)
    <2> DEFINE total == slot.end - slot.start
               half == slot.floor \div 2
               left == slot.end - now1
               up == (half * left + total - 1) \div total
    <2>1. total \in Nat \ {0} /\ half \in Nat /\ left \in Nat
      BY <1>1, <1>3
    <2>2. calculateCurrentPrice(slot, now1) = slot.floor + up
      BY <1>1, <1>3 DEF calculateCurrentPrice
    <2>3. up \in Nat
      <3> HIDE DEF total, half, left
      <3>1. half * left \in Nat
        BY <2>1
      <3>2. half * left + total - 1 \in Nat
        BY <2>1, <3>1
      <3> QED BY <2>1, <3>2, QuotientNat
    <2> HIDE DEF up
    <2> QED BY <1>1, <2>2, <2>3
  <1> QED BY <1>2, <1>3

\* The decay is a number, and at least zero when the rate is at most 1.
LEMMA DecayBounds ==
    ASSUME NEW slot \in AdSlot, slot.start <= slot.end, clock \in Nat, NEW rate \in Int
    PROVE  /\ calculateTimeDecay(slot, rate) \in Int
           /\ rate \in 0..One => calculateTimeDecay(slot, rate) >= 0
  <1>1. slot.start \in Nat /\ slot.end \in Nat /\ One \in Nat \ {0}
    BY AdSlotsAssumption DEF AdSlot
  <1>2. CASE clock > slot.end \/ slot.end = slot.start
    BY <1>1, <1>2 DEF calculateTimeDecay
  <1>3. CASE ~ (clock > slot.end \/ slot.end = slot.start)
    <2> DEFINE total == slot.end - slot.start
               elapsed == clock - slot.start
               gone == (rate * elapsed) \div total
    <2>1. total \in Nat \ {0} /\ elapsed \in Int /\ elapsed <= total
      BY <1>1, <1>3
    <2>2. calculateTimeDecay(slot, rate) = One - gone
      BY <1>1, <1>3 DEF calculateTimeDecay
    <2>3. gone \in Int /\ (rate \in 0..One => gone <= One)
      <3> HIDE DEF total, elapsed
      <3>1. rate * elapsed \in Int
        BY <2>1
      <3>2. gone \in Int
        BY <2>1, <3>1, QuotientRemainder
      <3>3. ASSUME rate \in 0..One PROVE gone <= One
        <4>1. rate \in Nat /\ rate <= One
          BY <1>1, <3>3
        <4>2. rate * elapsed <= One * total
          BY <1>1, <2>1, <4>1, PartOfWhole
        <4> QED BY <1>1, <2>1, <3>1, <4>2, QuotientAtMost
      <3> QED BY <3>2, <3>3
    <2> HIDE DEF gone
    <2> QED BY <1>1, <2>2, <2>3
  <1> QED BY <1>2, <1>3

\* Below half of a word int64 changes nothing; it always is a number.
LEMMA Int64Bounds ==
    ASSUME NEW x \in uint64
    PROVE  int64(x) \in Int /\ (2 * x < Word => int64(x) = x)
  BY AdSlotsAssumption DEF int64, uint64

\* decimal.Div of numbers is a number, and of natural numbers a natural one.
LEMMA DivBounds ==
    ASSUME NEW n \in Int, NEW d \in Int \ {0}
    PROVE  Div(n, d) \in Int /\ (n >= 0 /\ d > 0 => Div(n, d) \in Nat)
  <1>1. ASSUME NEW x \in Nat, NEW y \in Nat \ {0} PROVE (2 * x + y) \div (2 * y) \in Nat
    <2>1. 2 * x + y \in Nat /\ 2 * y \in Nat \ {0}
      OBVIOUS
    <2> QED BY <2>1, QuotientNat
  <1> DEFINE up == IF d > 0 THEN n ELSE -n
             down == IF d > 0 THEN d ELSE -d
  <1>2. down \in Nat \ {0} /\ up \in Int /\ (n >= 0 /\ d > 0 => up >= 0)
    OBVIOUS
  <1>3. Div(n, d) = IF up >= 0 THEN (2 * up + down) \div (2 * down)
                               ELSE -((down - 2 * up) \div (2 * down))
    BY DEF Div
  <1> HIDE DEF up, down
  <1>4. CASE up >= 0
    <2>1. (2 * up + down) \div (2 * down) \in Nat
      BY <1>1, <1>2, <1>4
    <2> QED BY <1>3, <1>4, <2>1
  <1>5. CASE ~ (up >= 0)
    <2>1. -up \in Nat /\ 2 * (-up) + down = down - 2 * up
      BY <1>2, <1>5
    <2>2. (2 * (-up) + down) \div (2 * down) \in Nat
      BY <1>1, <1>2, <2>1
    <2>3. (down - 2 * up) \div (2 * down) \in Nat
      BY <2>1, <2>2
    <2> QED BY <1>2, <1>3, <1>5, <2>3
  <1> QED BY <1>4, <1>5

\* What a swap leaves of a reserve is a number, and at least zero where int64
\* changes nothing and the decay is at least zero.
LEMMA ReserveLeft ==
    ASSUME NEW slot \in AdSlot, slot.start <= slot.end, clock \in Nat,
           NEW pool \in AdMM_Pool, pool.ausd > 0, NEW amountIn \in uint64
    PROVE  /\ newSlots(pool, amountIn) # 0 => ausdLeft(pool, slot, amountIn) \in Int
           /\ newAUSD(pool, amountIn) # 0 => slotsLeft(pool, slot, amountIn) \in Int
           /\ newAUSD(pool, amountIn) \in Int
           /\ pool.rate \in 0..One /\ pool.slots # 0 /\ 2 * (pool.slots + amountIn) < Word =>
                /\ (pool.slots + amountIn) % Word = pool.slots + amountIn
                /\ int64(pool.slots) = pool.slots
                /\ newAUSD(pool, amountIn) >= pool.ausd
                /\ ausdLeft(pool, slot, amountIn) >= 0
                /\ slotsLeft(pool, slot, amountIn) >= 0
  <1> DEFINE decay == calculateTimeDecay(slot, pool.rate)
             k == effectiveK(pool, slot)
             held == int64(pool.slots)
             sum == pool.slots + amountIn
             ns == newSlots(pool, amountIn)
             na == newAUSD(pool, amountIn)
  <1>1. /\ pool.ausd \in Nat \ {0} /\ pool.slots \in uint64 /\ pool.rate \in Int
        /\ One \in Nat \ {0} /\ Scale \in Nat \ {0} /\ Word \in Nat \ {0}
        /\ pool.slots \in Nat /\ amountIn \in Nat
    BY AdSlotsAssumption DEF AdMM_Pool, uint64
  <1>2. decay \in Int /\ (pool.rate \in 0..One => decay >= 0)
    BY <1>1, DecayBounds
  <1>3. held \in Int /\ int64(amountIn) \in Int
    BY <1>1, Int64Bounds
  <1>4. k = pool.ausd * held * decay
    BY DEF effectiveK
  <1>5. sum \in Nat /\ sum % Word \in uint64
    <2>1. sum \in Nat
      BY <1>1
    <2> HIDE DEF sum
    <2>2. sum \in Int /\ Word \in Nat \ {0}
      BY <1>1, <2>1
    <2>3. sum % Word \in 0..(Word - 1)
      BY <2>2, QuotientRemainder
    <2> QED BY <2>1, <2>3 DEF uint64
  <1>6. ns \in Int
    BY <1>5, Int64Bounds DEF newSlots
  <1>7. na \in Int
    <2>1. Scale * int64(amountIn) \in Int
      BY <1>1, <1>3
    <2> QED BY <1>1, <2>1 DEF newAUSD
  <1>8. ausdLeft(pool, slot, amountIn) = Div(k, One * ns)
        /\ slotsLeft(pool, slot, amountIn) = Div(Scale * k, One * na)
    BY DEF ausdLeft, slotsLeft
  <1> HIDE DEF decay, k, held, ns, na
  <1>9. k \in Int
    <2>1. pool.ausd * held \in Int
      BY <1>1, <1>3
    <2> QED BY <1>2, <1>4, <2>1
  <1>10. Scale * k \in Int
    BY <1>1, <1>9
  <1>11. ASSUME ns # 0 PROVE Div(k, One * ns) \in Int
    <2>1. One * ns \in Int \ {0}
      BY <1>1, <1>6, <1>11
    <2> QED BY <1>9, <2>1, DivBounds
  <1>12. ASSUME na # 0 PROVE Div(Scale * k, One * na) \in Int
    <2>1. One * na \in Int \ {0}
      BY <1>1, <1>7, <1>12
    <2> QED BY <1>10, <2>1, DivBounds
  <1>13. ASSUME pool.rate \in 0..One, pool.slots # 0, 2 * sum < Word
         PROVE  /\ sum % Word = sum /\ held = pool.slots /\ na >= pool.ausd
                /\ Div(k, One * ns) >= 0 /\ Div(Scale * k, One * na) >= 0
    <2>1. sum % Word = sum
      BY <1>1, <1>5, <1>13
    <2>2. held = pool.slots /\ int64(amountIn) = amountIn
      <3>1. 2 * pool.slots < Word /\ 2 * amountIn < Word
        BY <1>1, <1>13
      <3> QED BY <1>1, <3>1, Int64Bounds DEF held
    <2>3. ns = sum /\ ns \in Nat \ {0}
      <3>1. sum \in uint64
        BY <1>5, <2>1
      <3>2. int64(sum) = sum
        BY <1>13, <3>1, Int64Bounds
      <3>3. ns = int64(sum % Word)
        BY DEF ns, newSlots
      <3>4. sum \in Nat \ {0}
        BY <1>1, <1>13
      <3> HIDE DEF sum
      <3> QED BY <2>1, <3>2, <3>3, <3>4
    <2>4. na >= pool.ausd /\ na \in Nat \ {0}
      <3>1. Scale * amountIn \in Nat
        BY <1>1
      <3> QED BY <1>1, <2>2, <3>1 DEF na, newAUSD
    <2>5. k \in Nat /\ Scale * k \in Nat
      <3>1. pool.ausd * held \in Nat
        BY <1>1, <2>2
      <3>2. decay \in Nat
        BY <1>2, <1>13
      <3>3. k \in Nat
        BY <1>4, <3>1, <3>2
      <3> QED BY <1>1, <3>3
    <2>6. One * ns \in Nat \ {0} /\ One * na \in Nat \ {0}
      BY <1>1, <2>3, <2>4
    <2> DEFINE dn == One * ns
               da == One * na
               sk == Scale * k
    <2>7. dn \in Int \ {0} /\ dn > 0 /\ da \in Int \ {0} /\ da > 0 /\ sk \in Int /\ sk >= 0 /\ k >= 0
      BY <2>5, <2>6
    <2> HIDE DEF dn, da, sk
    <2>8. Div(k, dn) \in Nat /\ Div(sk, da) \in Nat
      BY <1>9, <2>7, DivBounds
    <2>9. Div(k, dn) >= 0 /\ Div(sk, da) >= 0
      BY <2>8
    <2> QED BY <2>1, <2>2, <2>4, <2>9 DEF dn, da, sk
  <1> HIDE DEF sum
  <1> QED BY <1>7, <1>8, <1>11, <1>12, <1>13 DEF ns, na, held, sum

-----------------------------------------------------------------------------
(* Ad slots: the invariant. *)

\* A slot has a window; a pool, an order and what the DEX has of an order are
\* for a slot that exists.
SlotsExist ==
    /\ \A s \in Slots : /\ slots[s] # None => slots[s].start <= slots[s].end
                        /\ pools[s] # None => slots[s] # None
    /\ \A o \in Orders : /\ book[o] # None => slots[book[o].slot] # None
                         /\ orders[o] # None => slots[orders[o].slot] # None

SlotsInv == SlotsTypeOK /\ SlotsExist /\ BidsReachFloor

LEMMA SlotsInitInv == SlotsInit => SlotsInv
  <1> SUFFICES ASSUME SlotsInit PROVE SlotsInv
    OBVIOUS
  <1>1. SlotsTypeOK
    BY AdSlotsAssumption DEF SlotsInit, SlotsTypeOK
  <1>2. SlotsExist /\ BidsReachFloor
    BY DEF SlotsInit, SlotsExist, BidsReachFloor
  <1> QED BY <1>1, <1>2 DEF SlotsInv

\* The clock does not go back and a slot that exists keeps its floor and its
\* window, so the orders for it stay what they were.
LEMMA OrdersStay ==
    ASSUME SlotsInv, UNCHANGED <<orders, book>>, clock' \in Nat, clock' >= clock,
           \A s \in Slots : slots[s] # None => /\ slots'[s] # None /\ slots'[s].floor = slots[s].floor
                                               /\ slots'[s].end = slots[s].end
    PROVE  /\ BidsReachFloor'
           /\ \A o \in Orders : /\ book'[o] # None => slots'[book'[o].slot] # None
                                /\ orders'[o] # None => slots'[orders'[o].slot] # None
  <1>1. ASSUME NEW o \in Orders, book[o] # None
        PROVE  book[o].slot \in Slots /\ slots[book[o].slot] # None
    BY <1>1 DEF SlotsInv, SlotsTypeOK, BookEntry, SlotsExist
  <1>2. ASSUME NEW o \in Orders, orders[o] # None
        PROVE  orders[o].slot \in Slots /\ slots[orders[o].slot] # None
    BY <1>2 DEF SlotsInv, SlotsTypeOK, AdSlotOrder, SlotsExist
  <1>3. ASSUME NEW s \in Slots, slots[s] # None, OnSale(s)' PROVE OnSale(s)
    <2>1. slots[s].end \in Nat /\ clock \in Nat
      BY <1>3 DEF SlotsInv, SlotsTypeOK, AdSlot
    <2> QED BY <1>3, <2>1 DEF OnSale
  <1>4. ASSUME NEW o \in Orders
        PROVE  /\ book'[o] # None => slots'[book'[o].slot] # None
               /\ orders'[o] # None => slots'[orders'[o].slot] # None
    BY <1>1, <1>2
  <1>5. ASSUME NEW o \in Orders, book'[o] # None, book'[o].isBuy, OnSale(book[o].slot)'
        PROVE  book'[o].price >= slots'[book'[o].slot].floor
    BY <1>1, <1>3, <1>5 DEF SlotsInv, BidsReachFloor
  <1>6. ASSUME NEW o \in Orders, orders'[o] # None, orders'[o].isBuy, ~ orders'[o].revealed,
               OnSale(orders[o].slot)'
        PROVE  orders'[o].limit >= slots'[orders'[o].slot].floor
    BY <1>2, <1>3, <1>6 DEF SlotsInv, BidsReachFloor
  <1>7. BidsReachFloor'
    BY <1>5, <1>6 DEF BidsReachFloor, OnSale
  <1> QED BY <1>4, <1>7

\* CreateAdSlot: an id nobody had, with a window.
LEMMA CreateAdSlotInv ==
    ASSUME SlotsInv, NEW s \in Slots, NEW p \in SlotPublishers, NEW window \in Windows,
           NEW max \in Supplies, NEW floor \in Floors, CreateAdSlot(s, p, window, max, floor)
    PROVE  SlotsInv'
  <1> DEFINE new == [publisher |-> p, start |-> window.start, end |-> window.end, max |-> max,
                     delivered |-> 0, floor |-> floor]
  <1>1. /\ max \in Nat /\ floor \in Int /\ window.start \in Nat /\ window.end \in Nat
        /\ p \in Holders
    BY AdSlotsAssumption DEF Holders
  <1>2. new \in AdSlot /\ new # None /\ new.start <= new.end
    <2>1. new \in AdSlot
      BY <1>1 DEF AdSlot
    <2> QED BY <2>1, NoSlotAssumption DEF CreateAdSlot
  <1>3. /\ slots[s] = None
        /\ slots' = [slots EXCEPT ![s] = new]
        /\ tokens' = tokens \/ tokens' = [tokens EXCEPT ![s][p] = @ + max]
        /\ UNCHANGED <<orders, book, pools, ausd, clock>>
    BY DEF CreateAdSlot
  <1> HIDE DEF new
  <1>4. slots' \in [Slots -> AdSlot \cup {None}]
    BY <1>2, <1>3 DEF SlotsInv, SlotsTypeOK
  <1>5. tokens' \in [Slots -> [Holders -> Nat]]
    BY <1>1, <1>3 DEF SlotsInv, SlotsTypeOK
  <1>6. SlotsTypeOK'
    BY <1>3, <1>4, <1>5 DEF SlotsInv, SlotsTypeOK
  <1>7. slots'[s] = new /\ \A t \in Slots \ {s} : slots'[t] = slots[t]
    BY <1>3 DEF SlotsInv, SlotsTypeOK
  <1>8. \A t \in Slots : slots[t] # None => slots'[t] = slots[t]
    BY <1>3, <1>7
  <1>9. clock' \in Nat /\ clock' >= clock
    BY <1>3 DEF SlotsInv, SlotsTypeOK
  <1>10. \A t \in Slots : slots[t] # None => /\ slots'[t] # None /\ slots'[t].floor = slots[t].floor
                                             /\ slots'[t].end = slots[t].end
    BY <1>8
  <1>11. /\ BidsReachFloor'
         /\ \A o \in Orders : /\ book'[o] # None => slots'[book'[o].slot] # None
                              /\ orders'[o] # None => slots'[orders'[o].slot] # None
    BY <1>3, <1>9, <1>10, OrdersStay
  <1>12. \A t \in Slots : /\ slots'[t] # None => slots'[t].start <= slots'[t].end
                          /\ pools'[t] # None => slots'[t] # None
    BY <1>2, <1>3, <1>7 DEF SlotsInv, SlotsExist
  <1> QED BY <1>6, <1>11, <1>12 DEF SlotsInv, SlotsExist

\* PlaceOrder: if the slot is on sale still when PlaceOrder ends, it was when
\* the price was computed, and the limit of a bid reaches the price and so the
\* floor.
LEMMA PlaceOrderInv ==
    ASSUME SlotsInv, NEW o \in Orders, NEW t \in Traders, NEW s \in Slots, NEW isBuy \in BOOLEAN,
           NEW sealed \in BOOLEAN, NEW limit \in Prices, NEW commitment \in SealedPrices,
           NEW later \in clock..MaxClock,
           PlaceOrder(o, t, s, isBuy, sealed, limit, commitment, later)
    PROVE  SlotsInv'
  <1> DEFINE order == [trader |-> t, slot |-> s, isBuy |-> isBuy, sealed |-> sealed,
                       limit |-> limit, commitment |-> IF sealed THEN commitment ELSE 0,
                       revealed |-> FALSE]
             entry == [slot |-> s, isBuy |-> isBuy, price |-> limit]
  <1>1. SlotsTypeOK /\ SlotsExist /\ BidsReachFloor
    BY DEF SlotsInv
  <1>2. limit \in Int /\ commitment \in Int
    BY AdSlotsAssumption
  <1>3. order \in AdSlotOrder /\ entry \in BookEntry
    <2>1. (IF sealed THEN commitment ELSE 0) \in Int
      BY <1>2
    <2> QED BY <1>2, <2>1 DEF AdSlotOrder, BookEntry
  <1>4. /\ orders' = [orders EXCEPT ![o] = order]
        /\ book' = book \/ book' = [book EXCEPT ![o] = entry]
        /\ clock' = later
        /\ UNCHANGED <<slots, tokens, pools, ausd>>
    BY DEF PlaceOrder
  <1>5. slots[s] # None /\ (isBuy => limit >= calculateCurrentPrice(slots[s], later))
    BY DEF PlaceOrder
  <1>6. clock \in Nat /\ later \in Nat /\ later >= clock
    BY <1>1 DEF SlotsTypeOK
  <1>7. isBuy /\ OnSale(s)' => limit >= slots[s].floor
    <2>1. SUFFICES ASSUME isBuy, OnSale(s)' PROVE limit >= slots[s].floor
      OBVIOUS
    <2>2. slots[s] \in AdSlot /\ slots[s].start <= slots[s].end
      BY <1>1, <1>5 DEF SlotsTypeOK, SlotsExist
    <2>3. slots[s].floor \in Int /\ later <= slots[s].end /\ slots[s].floor >= 0
      BY <1>4, <2>1, <2>2 DEF AdSlot, OnSale
    <2>4. /\ calculateCurrentPrice(slots[s], later) \in Nat
          /\ calculateCurrentPrice(slots[s], later) >= slots[s].floor
      BY <1>6, <2>2, <2>3, PriceReachesFloor
    <2> QED BY <1>2, <1>5, <2>1, <2>3, <2>4
  <1>8. /\ order.slot = s /\ order.isBuy = isBuy /\ order.limit = limit
        /\ entry.slot = s /\ entry.isBuy = isBuy /\ entry.price = limit
    OBVIOUS
  <1> HIDE DEF order, entry
  <1>9. SlotsTypeOK'
    BY <1>1, <1>3, <1>4, <1>6 DEF SlotsTypeOK
  <1>10. ASSUME NEW q \in Orders
         PROVE  /\ orders'[q] = orders[q] \/ orders'[q] = order
                /\ book'[q] = book[q] \/ book'[q] = entry
    BY <1>1, <1>4 DEF SlotsTypeOK
  <1>11. SlotsExist'
    BY <1>1, <1>4, <1>5, <1>8, <1>10 DEF SlotsExist
  <1>12. ASSUME NEW q \in Slots, slots[q] # None, OnSale(q)' PROVE OnSale(q)
    <2>1. slots[q].end \in Nat
      BY <1>1, <1>12 DEF SlotsTypeOK, AdSlot
    <2> QED BY <1>4, <1>6, <1>12, <2>1 DEF OnSale
  <1>13. ASSUME NEW q \in Orders, book'[q] # None, book'[q].isBuy,
                NEW r, r = book'[q].slot, OnSale(r)'
         PROVE  book'[q].price >= slots'[r].floor
    <2>1. CASE book'[q] = entry
      BY <1>4, <1>7, <1>8, <1>13, <2>1
    <2>2. CASE book'[q] = book[q]
      <3>1. r \in Slots /\ slots[r] # None
        BY <1>1, <1>13, <2>2 DEF SlotsTypeOK, BookEntry, SlotsExist
      <3>2. OnSale(r)
        BY <1>12, <1>13, <3>1
      <3> QED BY <1>1, <1>4, <1>13, <2>2, <3>2 DEF BidsReachFloor
    <2> QED BY <1>10, <2>1, <2>2
  <1>14. ASSUME NEW q \in Orders, orders'[q] # None, orders'[q].isBuy, ~ orders'[q].revealed,
                NEW r, r = orders'[q].slot, OnSale(r)'
         PROVE  orders'[q].limit >= slots'[r].floor
    <2>1. CASE orders'[q] = order
      BY <1>4, <1>7, <1>8, <1>14, <2>1
    <2>2. CASE orders'[q] = orders[q]
      <3>1. r \in Slots /\ slots[r] # None
        BY <1>1, <1>14, <2>2 DEF SlotsTypeOK, AdSlotOrder, SlotsExist
      <3>2. OnSale(r)
        BY <1>12, <1>14, <3>1
      <3> QED BY <1>1, <1>4, <1>14, <2>2, <3>2 DEF BidsReachFloor
    <2> QED BY <1>10, <2>1, <2>2
  <1>15. BidsReachFloor'
    BY <1>13, <1>14 DEF BidsReachFloor, OnSale
  <1> QED BY <1>9, <1>11, <1>15 DEF SlotsInv

\* RevealBid: what is revealed is no longer promised to reach the floor.
LEMMA RevealBidInv ==
    ASSUME SlotsInv, NEW o \in Orders, NEW price \in SealedPrices, RevealBid(o, price)
    PROVE  SlotsInv'
  <1> DEFINE order == [orders[o] EXCEPT !.limit = price, !.revealed = TRUE]
  <1>1. SlotsTypeOK /\ SlotsExist /\ BidsReachFloor
    BY DEF SlotsInv
  <1>2. price \in Int
    BY AdSlotsAssumption
  <1>3. orders[o] # None /\ orders[o] \in AdSlotOrder
    BY <1>1 DEF RevealBid, SlotsTypeOK
  <1>4. /\ orders' = [orders EXCEPT ![o] = order]
        /\ UNCHANGED <<slots, tokens, book, pools, ausd, clock>>
    BY <1>1 DEF RevealBid, SlotsTypeOK
  <1>5. order \in AdSlotOrder /\ order.slot = orders[o].slot /\ order.revealed
    BY <1>2, <1>3 DEF AdSlotOrder
  <1> HIDE DEF order
  <1>6. SlotsTypeOK'
    BY <1>1, <1>4, <1>5 DEF SlotsTypeOK
  <1>7. ASSUME NEW q \in Orders
        PROVE  orders'[q] = orders[q] \/ (q = o /\ orders'[q] = order)
    BY <1>1, <1>4 DEF SlotsTypeOK
  <1>8. SlotsExist'
    BY <1>1, <1>3, <1>4, <1>5, <1>7 DEF SlotsExist
  <1>9. BidsReachFloor'
    BY <1>1, <1>4, <1>5, <1>7 DEF BidsReachFloor, OnSale
  <1> QED BY <1>6, <1>8, <1>9 DEF SlotsInv

\* A step that only changes the pool of a slot.
LEMMA PoolStep ==
    ASSUME SlotsInv, NEW s \in Slots, NEW pool \in AdMM_Pool, slots[s] # None,
           pools' = [pools EXCEPT ![s] = pool],
           UNCHANGED <<slots, tokens, orders, book, clock>>,
           ausd' \in [Traders \cup {Pool} -> Nat]
    PROVE  SlotsInv'
  <1>1. SlotsTypeOK'
    BY DEF SlotsInv, SlotsTypeOK
  <1>2. SlotsExist'
    <2>1. \A t \in Slots \ {s} : pools'[t] = pools[t]
      BY DEF SlotsInv, SlotsTypeOK
    <2> QED BY <2>1 DEF SlotsInv, SlotsExist
  <1>3. BidsReachFloor'
    BY DEF SlotsInv, BidsReachFloor, OnSale
  <1> QED BY <1>1, <1>2, <1>3 DEF SlotsInv

LEMMA CreatePoolInv ==
    ASSUME SlotsInv, NEW s \in Slots, NEW t \in Traders, NEW amount \in Liquidities,
           NEW supply \in SwapAmounts, NEW rate \in Rates,
           CreateAdMM_Pool(s, t, amount, supply, rate)
    PROVE  SlotsInv'
  <1> DEFINE pool == [ausd |-> amount, slots |-> supply, rate |-> rate]
  <1>1. amount \in Int /\ supply \in uint64 /\ rate \in Int
    BY AdSlotsAssumption DEF uint64
  <1>2. /\ slots[s] # None /\ pools' = [pools EXCEPT ![s] = pool]
        /\ UNCHANGED <<slots, tokens, orders, book, clock>>
    BY DEF CreateAdMM_Pool
  <1>3. pool \in AdMM_Pool
    BY <1>1 DEF AdMM_Pool
  <1>4. ausd' \in [Traders \cup {Pool} -> Nat]
    <2>1. ausd \in [Traders \cup {Pool} -> Nat]
      BY DEF SlotsInv, SlotsTypeOK
    <2>2. CASE 0 < amount /\ amount <= ausd[t]
      <3>1. ausd' = [ausd EXCEPT ![t] = @ - amount, ![Pool] = @ + amount]
        BY <2>2 DEF CreateAdMM_Pool
      <3>2. CASE t = Pool
        BY <1>1, <2>1, <2>2, <3>1, <3>2
      <3>3. CASE t # Pool
        BY <1>1, <2>1, <2>2, <3>1, <3>3
      <3> QED BY <3>2, <3>3
    <2>3. CASE ~ (0 < amount /\ amount <= ausd[t])
      BY <2>1, <2>3 DEF CreateAdMM_Pool
    <2> QED BY <2>2, <2>3
  <1> HIDE DEF pool
  <1> QED BY <1>2, <1>3, <1>4, PoolStep

\* What a swap leaves of the reserves, whatever the amounts.
LEMMA SwapLeaves ==
    ASSUME SlotsInv, NEW s \in Slots, NEW amountIn \in SwapAmounts, NEW buyAUSD \in BOOLEAN,
           SwapAdMM(s, amountIn, buyAUSD)
    PROVE  /\ SlotsInv'
           /\ pools[s].rate \in 0..One /\ 2 * (pools[s].slots + amountIn) < Word =>
                /\ 0 <= pools'[s].ausd
                /\ IF buyAUSD
                     THEN pools'[s].ausd < pools[s].ausd /\ pools'[s].slots >= pools[s].slots
                     ELSE pools'[s].ausd >= pools[s].ausd /\ pools'[s].slots <= pools[s].slots
  <1> DEFINE Covered == pools[s].rate \in 0..One /\ 2 * (pools[s].slots + amountIn) < Word
             sum == pools[s].slots + amountIn
             na == newAUSD(pools[s], amountIn)
             left == ausdLeft(pools[s], slots[s], amountIn)
             rest == slotsLeft(pools[s], slots[s], amountIn)
             held == int64(pools[s].slots)
  <1>1. /\ amountIn \in uint64 /\ amountIn \in Nat /\ Scale \in Nat \ {0} /\ Word \in Nat \ {0}
    BY AdSlotsAssumption DEF uint64
  <1>2. /\ pools[s] # None /\ pools[s].ausd > 0 /\ pools[s].slots # 0
        /\ UNCHANGED <<slots, tokens, orders, book, ausd, clock>>
    BY DEF SwapAdMM
  <1>3. /\ pools[s] \in AdMM_Pool /\ clock \in Nat /\ ausd \in [Traders \cup {Pool} -> Nat]
        /\ slots[s] # None /\ slots[s] \in AdSlot /\ slots[s].start <= slots[s].end
    BY <1>2 DEF SlotsInv, SlotsTypeOK, SlotsExist
  <1>4. /\ pools[s].ausd \in Nat \ {0} /\ pools[s].slots \in Nat /\ pools[s].slots \in uint64
        /\ held \in Int
    BY <1>2, <1>3, Int64Bounds DEF AdMM_Pool, uint64
  <1>5. /\ newSlots(pools[s], amountIn) # 0 => left \in Int
        /\ na # 0 => rest \in Int
        /\ na \in Int
        /\ Covered => /\ sum % Word = sum /\ held = pools[s].slots /\ na >= pools[s].ausd
                      /\ left >= 0 /\ rest >= 0
    BY <1>1, <1>2, <1>3, ReserveLeft
  <1> HIDE DEF na, left, rest, held
  <1>6. ASSUME NEW x \in Int PROVE x % Word \in uint64
    BY <1>1, QuotientRemainder DEF uint64
  <1>7. CASE buyAUSD
    <2> DEFINE pool == [pools[s] EXCEPT !.slots = sum % Word, !.ausd = left]
    <2>1. /\ newSlots(pools[s], amountIn) # 0 /\ pools[s].ausd - left > 0
          /\ pools' = [pools EXCEPT ![s] = pool]
      BY <1>7 DEF SwapAdMM, SlotsInv, SlotsTypeOK, left
    <2>2. sum \in Int /\ left \in Int
      BY <1>1, <1>4, <1>5, <2>1
    <2>3. sum % Word \in uint64
      BY <1>6, <2>2
    <2> HIDE DEF sum
    <2>4. pool \in AdMM_Pool /\ pool.ausd = left /\ pool.slots = sum % Word
      BY <1>3, <2>2, <2>3 DEF AdMM_Pool
    <2> HIDE DEF pool
    <2>5. SlotsInv'
      BY <1>2, <1>3, <2>1, <2>4, PoolStep
    <2>6. pools'[s] = pool
      BY <2>1 DEF SlotsInv, SlotsTypeOK
    <2>7. Covered => /\ 0 <= left /\ left < pools[s].ausd /\ sum % Word >= pools[s].slots
      <3>1. sum >= pools[s].slots
        BY <1>1, <1>4 DEF sum
      <3> QED BY <1>4, <1>5, <2>1, <2>2, <3>1
    <2> QED BY <1>7, <2>4, <2>5, <2>6, <2>7
  <1>8. CASE ~ buyAUSD
    <2> DEFINE out == Scale * held - rest
               bought == out \div Scale
               kept == pools[s].slots - bought
               pool == [pools[s] EXCEPT !.ausd = na, !.slots = kept % Word]
    <2>1. /\ na # 0 /\ out > 0 /\ pools' = [pools EXCEPT ![s] = pool]
      BY <1>8 DEF SwapAdMM, SlotsInv, SlotsTypeOK, na, rest, held
    <2>2. out \in Nat
      <3>1. Scale * held \in Int
        BY <1>1, <1>4
      <3> QED BY <1>5, <2>1, <3>1
    <2>3. Covered => out <= pools[s].slots * Scale
      <3>1. ASSUME Covered PROVE out <= pools[s].slots * Scale
        <4>1. Scale * held = pools[s].slots * Scale /\ rest \in Int /\ rest >= 0
          BY <1>1, <1>4, <1>5, <2>1, <3>1
        <4>2. pools[s].slots * Scale \in Int
          BY <1>1, <1>4
        <4> QED BY <4>1, <4>2
      <3> QED BY <3>1
    <2> HIDE DEF out
    <2>4. bought \in Nat /\ (Covered => bought <= pools[s].slots)
      <3>1. bought \in Nat
        BY <1>1, <2>2, QuotientNat
      <3>2. out \in Int /\ pools[s].slots \in Int
        BY <1>4, <2>2
      <3>3. ASSUME Covered PROVE bought <= pools[s].slots
        <4>1. out <= pools[s].slots * Scale
          BY <2>3, <3>3
        <4> QED BY <1>1, <3>2, <4>1, QuotientAtMost
      <3> QED BY <3>1, <3>3
    <2> HIDE DEF bought
    <2>5. kept \in Int /\ (Covered => kept \in 0..pools[s].slots)
      BY <1>4, <2>4
    <2>6. kept % Word \in uint64
      BY <1>6, <2>5
    <2>7. Covered => kept % Word = kept
      <3>1. pools[s].slots < Word
        BY <1>1, <1>4 DEF uint64
      <3> HIDE DEF kept
      <3> QED BY <1>1, <1>4, <2>5, <3>1
    <2> HIDE DEF kept
    <2>8. pool \in AdMM_Pool /\ pool.ausd = na /\ pool.slots = kept % Word
      BY <1>3, <1>5, <2>6 DEF AdMM_Pool
    <2> HIDE DEF pool
    <2>9. SlotsInv'
      BY <1>2, <1>3, <2>1, <2>8, PoolStep
    <2>10. pools'[s] = pool
      BY <2>1 DEF SlotsInv, SlotsTypeOK
    <2>11. Covered => /\ 0 <= na /\ na >= pools[s].ausd /\ kept % Word <= pools[s].slots
      BY <1>4, <1>5, <2>5, <2>7
    <2> QED BY <1>8, <2>8, <2>9, <2>10, <2>11
  <1> QED BY <1>7, <1>8

\* RecordDelivery changes the count of a slot, and burns tokens that are there.
LEMMA RecordDeliveryInv ==
    ASSUME SlotsInv, NEW s \in Slots, NEW count \in DeliveryCounts, RecordDelivery(s, count)
    PROVE  SlotsInv'
  <1> DEFINE slot == slots[s]
             p == slot.publisher
             held == tokens[s]
             total == (slot.delivered + count) % Word
             new == [slot EXCEPT !.delivered = total]
  <1>1. SlotsTypeOK /\ SlotsExist
    BY DEF SlotsInv
  <1>2. slot # None /\ slot \in AdSlot /\ held \in [Holders -> Nat]
    BY <1>1 DEF RecordDelivery, SlotsTypeOK
  <1>3. slot.delivered \in Nat /\ p \in Holders /\ count \in Nat /\ Word \in Nat \ {0}
    BY <1>2, AdSlotsAssumption DEF AdSlot, Holders
  <1>4. /\ slots' = [slots EXCEPT ![s] = new]
        /\ tokens' = IF held[p] >= count THEN [tokens EXCEPT ![s] = [held EXCEPT ![p] = @ - count]]
                                         ELSE tokens
        /\ UNCHANGED <<orders, book, pools, ausd, clock>>
    BY <1>1 DEF RecordDelivery, SlotsTypeOK
  <1>5. total \in Nat
    <2>1. slot.delivered + count \in Int
      BY <1>3
    <2> QED BY <1>3, <2>1, RemainderBy
  <1> HIDE DEF total
  <1>6. /\ new \in AdSlot /\ new # None /\ new.start = slot.start /\ new.end = slot.end
        /\ new.floor = slot.floor
    <2>1. new \in AdSlot
      BY <1>2, <1>5 DEF AdSlot
    <2> QED BY <1>2, <2>1, NoSlotAssumption DEF AdSlot
  <1> HIDE DEF new
  <1>7. SlotsTypeOK'
    <2>1. slots' \in [Slots -> AdSlot \cup {None}]
      BY <1>1, <1>4, <1>6 DEF SlotsTypeOK
    <2>2. held[p] >= count => [held EXCEPT ![p] = @ - count] \in [Holders -> Nat]
      BY <1>2, <1>3
    <2>3. tokens' \in [Slots -> [Holders -> Nat]]
      <3> HIDE DEF held, p
      <3> QED BY <1>1, <1>4, <2>2 DEF SlotsTypeOK
    <2> QED BY <1>1, <1>4, <2>1, <2>3 DEF SlotsTypeOK
  <1>8. slots'[s] = new /\ \A t \in Slots \ {s} : slots'[t] = slots[t]
    BY <1>1, <1>4 DEF SlotsTypeOK
  <1>9. \A t \in Slots : slots[t] # None => /\ slots'[t] # None /\ slots'[t].floor = slots[t].floor
                                            /\ slots'[t].end = slots[t].end
    BY <1>6, <1>8
  <1>10. clock' \in Nat /\ clock' >= clock
    BY <1>1, <1>4 DEF SlotsTypeOK
  <1>11. /\ BidsReachFloor'
         /\ \A o \in Orders : /\ book'[o] # None => slots'[book'[o].slot] # None
                              /\ orders'[o] # None => slots'[orders'[o].slot] # None
    BY <1>4, <1>9, <1>10, OrdersStay
  <1>12. \A t \in Slots : /\ slots'[t] # None => slots'[t].start <= slots'[t].end
                          /\ pools'[t] # None => slots'[t] # None
    BY <1>1, <1>2, <1>4, <1>6, <1>8 DEF SlotsExist
  <1> QED BY <1>7, <1>11, <1>12 DEF SlotsInv, SlotsExist

\* A step that changes tokens and the clock only.
LEMMA TokensStep ==
    ASSUME SlotsInv, UNCHANGED <<slots, orders, book, pools, ausd>>, clock' \in Nat,
           clock' >= clock, tokens' \in [Slots -> [Holders -> Nat]]
    PROVE  SlotsInv'
  <1>1. SlotsTypeOK'
    BY DEF SlotsInv, SlotsTypeOK
  <1>2. BidsReachFloor'
    BY OrdersStay
  <1>3. SlotsExist'
    BY DEF SlotsInv, SlotsExist
  <1> QED BY <1>1, <1>2, <1>3 DEF SlotsInv

LEMMA SlotsNextInv == SlotsInv /\ [SlotsNext]_slotsVars => SlotsInv'
  <1> SUFFICES ASSUME SlotsInv, [SlotsNext]_slotsVars PROVE SlotsInv'
    OBVIOUS
  <1>0. tokens \in [Slots -> [Holders -> Nat]] /\ clock \in Nat
    BY DEF SlotsInv, SlotsTypeOK
  <1>1. ASSUME NEW s \in Slots, NEW from \in Holders, NEW to \in Holders, TransferAsset(s, from, to)
        PROVE  SlotsInv'
    <2> DEFINE held == tokens[s]
               moved == [held EXCEPT ![from] = @ - 1, ![to] = @ + 1]
    <2>1. held \in [Holders -> Nat] /\ from # to /\ held[from] > 0
      BY <1>0, <1>1 DEF TransferAsset
    <2>2. moved \in [Holders -> Nat]
      BY <2>1
    <2>3. tokens' = [tokens EXCEPT ![s] = moved]
      <3>1. tokens' = [tokens EXCEPT ![s][from] = @ - 1, ![s][to] = @ + 1]
        BY <1>1 DEF TransferAsset
      <3> QED BY <1>0, <2>1, <3>1
    <2> HIDE DEF moved
    <2>4. tokens' \in [Slots -> [Holders -> Nat]]
      BY <1>0, <2>2, <2>3
    <2>5. UNCHANGED <<slots, orders, book, pools, ausd, clock>>
      BY <1>1 DEF TransferAsset
    <2>6. clock' \in Nat /\ clock' >= clock
      BY <1>0, <2>5
    <2> QED BY <2>4, <2>5, <2>6, TokensStep
  <1>2. CASE ClockTick
    <2>1. clock' \in Nat /\ clock' >= clock /\ UNCHANGED <<slots, tokens, orders, book, pools, ausd>>
      BY <1>0, <1>2 DEF ClockTick
    <2> QED BY <1>0, <2>1, TokensStep
  <1>3. CASE UNCHANGED slotsVars
    <2>1. clock' \in Nat /\ clock' >= clock /\ UNCHANGED <<slots, tokens, orders, book, pools, ausd>>
      BY <1>0, <1>3 DEF slotsVars
    <2> QED BY <1>0, <2>1, TokensStep
  <1>4. ASSUME NEW s \in Slots, NEW amountIn \in SwapAmounts, NEW buyAUSD \in BOOLEAN,
               SwapAdMM(s, amountIn, buyAUSD)
        PROVE  SlotsInv'
    BY <1>4, SwapLeaves
  <1> QED BY <1>1, <1>2, <1>3, <1>4, CreateAdSlotInv, PlaceOrderInv, RevealBidInv, CreatePoolInv,
             RecordDeliveryInv DEF SlotsNext

\* No balance of tokens or AUSD and no count of impressions goes below zero,
\* whichever calls of the DEX a handler makes fail.
THEOREM SlotTypeCorrect == SlotsSpec => []SlotsTypeOK
  <1>1. SlotsInv => SlotsTypeOK
    BY DEF SlotsInv
  <1> QED BY <1>1, SlotsInitInv, SlotsNextInv, PTL DEF SlotsSpec

\* Every bid the DEX has and every bid that was not revealed offers the floor
\* of its slot at least while the slot is on sale, for any windows, floors and
\* limits of PlaceOrder and whenever it reads the clock for the second time.
THEOREM BidFloor == SlotsSpec => []BidsReachFloor
  <1>1. SlotsInv => BidsReachFloor
    BY DEF SlotsInv
  <1> QED BY <1>1, SlotsInitInv, SlotsNextInv, PTL DEF SlotsSpec

\* At a decay rate between zero and one, and where int64 changes no value,
\* SwapAdMM never takes more out of a pool than is in it, whatever was swapped
\* before and wherever the clock is.
THEOREM PoolSolvency == SlotsSpec => PoolsNeverOverdrawn
  <1>1. SlotsInv => SwapTakesWhatIsThere
    BY SwapLeaves DEF SwapTakesWhatIsThere
  <1>2. SlotsInv => [SwapTakesWhatIsThere]_slotsVars
    BY <1>1
  <1> QED BY <1>2, SlotsInitInv, SlotsNextInv, PTL DEF SlotsSpec, PoolsNeverOverdrawn
=============================================================================
