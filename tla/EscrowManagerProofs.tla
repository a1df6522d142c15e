------------------------- MODULE EscrowManagerProofs -------------------------
(***************************************************************************)
(* Theorems about EscrowManager for any campaigns, reservations, amounts    *)
(* and times.                                                               *)
(*                                                                          *)
(* Inv, the balance of each campaign over integers, is inductive by itself  *)
(* and carries the refinement.  Books adds the sums: what is reserved and   *)
(* spent is the sum of the amounts of reservations, so no counter goes      *)
(* below zero, and the AUSD of the contract is the sum of what it owes.     *)
(***************************************************************************)
EXTENDS EscrowManager, InductionTheorems

Ledger ==
    /\ totalBudget \in [Campaigns -> Int]
    /\ availableBudget \in [Campaigns -> Int]
    /\ reservedBudget \in [Campaigns -> Int]
    /\ spentBudget \in [Campaigns -> Int]
    /\ reservations \in [Reservations -> Reservation \cup {NoReservation}]
    /\ now \in Nat

Inv == Ledger /\ BudgetAccounted

\* The contract starts empty.
LEMMA InitInv == Init => Inv
  BY DEF Init, Inv, Ledger, BudgetAccounted

\* Funding raises the total and the available budget.
LEMMA FundInv ==
    ASSUME Inv, NEW c \in Campaigns, NEW a \in Advertisers, NEW amount \in Amounts,
           NEW bps \in Holdbacks, fundCampaign(c, a, amount, bps)
    PROVE  Inv'
  <1>1. amount \in Int
    BY EscrowAssumption
  <1>2. /\ totalBudget' = [totalBudget EXCEPT ![c] = @ + amount]
        /\ availableBudget' = [availableBudget EXCEPT ![c] = @ + amount]
        /\ UNCHANGED <<reservedBudget, spentBudget, reservations, now>>
    BY DEF fundCampaign
  <1>3. Ledger'
    BY <1>1, <1>2 DEF Inv, Ledger
  <1>4. BudgetAccounted'
    BY <1>1, <1>2 DEF Inv, Ledger, BudgetAccounted
  <1> QED BY <1>3, <1>4 DEF Inv

\* A reservation moves its amount from the available to the reserved budget.
LEMMA ReserveInv ==
    ASSUME Inv, NEW r \in Reservations, NEW c \in Campaigns, NEW p \in Publishers,
           NEW amount \in Amounts, NEW ttl \in TTLs, reserveBudget(r, c, p, amount, ttl)
    PROVE  Inv'
  <1> DEFINE res == [campaignId |-> c, publisher |-> p, amount |-> amount,
                     expires |-> now + ttl, settled |-> FALSE]
  <1>1. amount \in Nat /\ amount > 0 /\ ttl \in Nat
    BY EscrowAssumption DEF reserveBudget
  <1>2. /\ reservations' = [reservations EXCEPT ![r] = res]
        /\ availableBudget' = [availableBudget EXCEPT ![c] = @ - amount]
        /\ reservedBudget' = [reservedBudget EXCEPT ![c] = @ + amount]
        /\ UNCHANGED <<totalBudget, spentBudget, now>>
    BY DEF reserveBudget
  <1>3. res \in Reservation
    BY <1>1 DEF Inv, Ledger, Reservation
  <1> HIDE DEF res
  <1>4. Ledger'
    BY <1>1, <1>2, <1>3 DEF Inv, Ledger
  <1>5. BudgetAccounted'
    BY <1>1, <1>2 DEF Inv, Ledger, BudgetAccounted
  <1> QED BY <1>4, <1>5 DEF Inv

\* A settlement moves the amount of its reservation from reserved to spent.
LEMMA SettleInv ==
    ASSUME Inv, NEW r \in Reservations, settleReceipt(r)
    PROVE  Inv'
  <1> DEFINE c == reservations[r].campaignId
             amount == reservations[r].amount
  <1>1. /\ reservedBudget' = [reservedBudget EXCEPT ![c] = @ - amount]
        /\ spentBudget' = [spentBudget EXCEPT ![c] = @ + amount]
        /\ reservations' = [reservations EXCEPT ![r].settled = TRUE]
        /\ reservations[r] # NoReservation
        /\ UNCHANGED <<totalBudget, availableBudget, now>>
    BY DEF settleReceipt
  <1>2. reservations[r] \in Reservation
    BY <1>1 DEF Inv, Ledger
  <1>3. c \in Campaigns /\ amount \in Int
    BY <1>2 DEF Reservation
  <1>4. [reservations[r] EXCEPT !.settled = TRUE] \in Reservation
    BY <1>2 DEF Reservation
  <1>5. reservations' = [reservations EXCEPT ![r] = [reservations[r] EXCEPT !.settled = TRUE]]
    BY <1>1 DEF Inv, Ledger
  <1>6. reservations' \in [Reservations -> Reservation \cup {NoReservation}]
    BY <1>4, <1>5 DEF Inv, Ledger
  <1> HIDE DEF c, amount
  <1>7. Ledger'
    BY <1>1, <1>3, <1>6 DEF Inv, Ledger
  <1>8. BudgetAccounted'
    BY <1>1, <1>3 DEF Inv, Ledger, BudgetAccounted
  <1> QED BY <1>7, <1>8 DEF Inv

\* A release moves the amount of its reservation from reserved to available.
LEMMA ReleaseInv ==
    ASSUME Inv, NEW r \in Reservations, releaseExpiredReservation(r)
    PROVE  Inv'
  <1> DEFINE c == reservations[r].campaignId
             amount == reservations[r].amount
  <1>1. /\ availableBudget' = [availableBudget EXCEPT ![c] = @ + amount]
        /\ reservedBudget' = [reservedBudget EXCEPT ![c] = @ - amount]
        /\ reservations' = [reservations EXCEPT ![r] = NoReservation]
        /\ reservations[r] # NoReservation
        /\ UNCHANGED <<totalBudget, spentBudget, now>>
    BY DEF releaseExpiredReservation
  <1>2. reservations[r] \in Reservation
    BY <1>1 DEF Inv, Ledger
  <1>3. c \in Campaigns /\ amount \in Int
    BY <1>2 DEF Reservation
  <1> HIDE DEF c, amount
  <1>4. Ledger'
    BY <1>1, <1>3 DEF Inv, Ledger
  <1>5. BudgetAccounted'
    BY <1>1, <1>3 DEF Inv, Ledger, BudgetAccounted
  <1> QED BY <1>4, <1>5 DEF Inv

\* A withdrawal takes the available budget out of the total.
LEMMA WithdrawInv ==
    ASSUME Inv, NEW c \in Campaigns, withdrawCampaignBudget(c)
    PROVE  Inv'
  <1>1. /\ availableBudget' = [availableBudget EXCEPT ![c] = 0]
        /\ totalBudget' = [totalBudget EXCEPT ![c] = @ - availableBudget[c]]
        /\ UNCHANGED <<reservedBudget, spentBudget, reservations, now>>
    BY DEF withdrawCampaignBudget
  <1>2. availableBudget[c] \in Int
    BY DEF Inv, Ledger
  <1>3. Ledger'
    BY <1>1, <1>2 DEF Inv, Ledger
  <1>4. BudgetAccounted'
    BY <1>1, <1>2 DEF Inv, Ledger, BudgetAccounted
  <1> QED BY <1>3, <1>4 DEF Inv

\* Inv is inductive.
LEMMA NextInv == Inv /\ [Next]_vars => Inv'
  <1> SUFFICES ASSUME Inv, [Next]_vars PROVE Inv'
    OBVIOUS
  <1>1. ASSUME NEW c \in Campaigns, NEW a \in Advertisers, NEW amount \in Amounts,
               NEW bps \in Holdbacks, fundCampaign(c, a, amount, bps)
        PROVE  Inv'
    BY <1>1, FundInv
  <1>2. ASSUME NEW r \in Reservations, NEW c \in Campaigns, NEW p \in Publishers,
               NEW amount \in Amounts, NEW ttl \in TTLs, reserveBudget(r, c, p, amount, ttl)
        PROVE  Inv'
    BY <1>2, ReserveInv
  <1>3. ASSUME NEW r \in Reservations, settleReceipt(r) PROVE Inv'
    BY <1>3, SettleInv
  <1>4. ASSUME NEW r \in Reservations, releaseExpiredReservation(r) PROVE Inv'
    BY <1>4, ReleaseInv
  <1>5. ASSUME NEW p \in Publishers, withdrawPublisher(p) PROVE Inv'
    BY <1>5 DEF withdrawPublisher, campaignVars, Inv, Ledger, BudgetAccounted
  <1>6. ASSUME NEW c \in Campaigns, withdrawCampaignBudget(c) PROVE Inv'
    BY <1>6, WithdrawInv
  <1>7. ASSUME NEW c \in Campaigns, pauseCampaign(c) PROVE Inv'
    BY <1>7 DEF pauseCampaign, Inv, Ledger, BudgetAccounted
  <1>8. CASE Tick
    BY <1>8 DEF Tick, campaignVars, Inv, Ledger, BudgetAccounted
  <1>9. CASE UNCHANGED vars
    BY <1>9 DEF vars, campaignVars, Inv, Ledger, BudgetAccounted
  <1> QED BY <1>1, <1>2, <1>3, <1>4, <1>5, <1>6, <1>7, <1>8, <1>9 DEF Next

\* fundCampaign, reserveBudget, settleReceipt, releaseExpiredReservation and
\* withdrawCampaignBudget keep every campaign accounted for.
THEOREM Accounted == Spec => []BudgetAccounted
  <1>1. Inv => BudgetAccounted
    BY DEF Inv
  <1> QED BY InitInv, NextInv, <1>1, PTL DEF Spec

\* A step leaves a settled reservation as it is: reserveBudget needs an unused
\* id, settleReceipt and releaseExpiredReservation one that is not settled.
LEMMA SettledStep ==
    ASSUME Inv, [Next]_vars, NEW r \in Reservations,
           reservations[r] # NoReservation, reservations[r].settled
    PROVE  reservations'[r] = reservations[r]
  <1>1. ASSUME NEW q \in Reservations, NEW c \in Campaigns, NEW p \in Publishers,
               NEW amount \in Amounts, NEW ttl \in TTLs, reserveBudget(q, c, p, amount, ttl)
        PROVE  reservations'[r] = reservations[r]
    <2>1. q # r
      BY <1>1 DEF reserveBudget
    <2> QED BY <1>1, <2>1 DEF reserveBudget, Inv, Ledger
  <1>2. ASSUME NEW q \in Reservations, settleReceipt(q)
        PROVE  reservations'[r] = reservations[r]
    <2>1. q # r
      BY <1>2 DEF settleReceipt
    <2>2. reservations' = [reservations EXCEPT ![q].settled = TRUE]
      BY <1>2 DEF settleReceipt
    <2> QED BY <2>1, <2>2 DEF Inv, Ledger
  <1>3. ASSUME NEW q \in Reservations, releaseExpiredReservation(q)
        PROVE  reservations'[r] = reservations[r]
    <2>1. q # r
      BY <1>3 DEF releaseExpiredReservation
    <2>2. reservations' = [reservations EXCEPT ![q] = NoReservation]
      BY <1>3 DEF releaseExpiredReservation
    <2> QED BY <2>1, <2>2 DEF Inv, Ledger
  <1>4. CASE \/ \E c \in Campaigns, a \in Advertisers, amount \in Amounts, bps \in Holdbacks :
                  fundCampaign(c, a, amount, bps)
             \/ \E p \in Publishers : withdrawPublisher(p)
             \/ \E c \in Campaigns : withdrawCampaignBudget(c)
             \/ \E c \in Campaigns : pauseCampaign(c)
             \/ Tick
             \/ UNCHANGED vars
    <2>1. UNCHANGED reservations
      BY <1>4 DEF fundCampaign, withdrawPublisher, withdrawCampaignBudget, pauseCampaign, Tick, vars
    <2> QED BY <2>1
  <1> QED BY <1>1, <1>2, <1>3, <1>4 DEF Next

\* Once settleReceipt has marked a reservation, no transaction changes it.
THEOREM SettledStays == Spec => SettledForever
  <1>1. Inv /\ [Next]_vars =>
          [\A r \in Reservations :
             (reservations[r] # NoReservation /\ reservations[r].settled)
               => reservations'[r] = reservations[r]]_vars
    BY SettledStep
  <1> QED BY InitInv, NextInv, <1>1, PTL DEF Spec, SettledForever

-----------------------------------------------------------------------------
(* The refinement of IdealEscrow *)

\* What the mapping needs beside the ledger: debts and holdbacks are numbers.
RInv ==
    /\ Ledger
    /\ publisherBalances \in [Publishers -> Int]
    /\ holdbackBps \in [Campaigns -> Int]

\* What a reservation holds in the ideal escrow, and whether it was paid.
heldBy(x) ==
    IF x # NoReservation /\ ~ x.settled
      THEN [of |-> x.campaignId, for |-> x.publisher, amount |-> x.amount]
      ELSE NoReservation

paidIn(res) == {r \in Reservations : res[r] # NoReservation /\ res[r].settled}

\* The immediate part and the holdback, whatever the rounding, are the amount.
LEMMA PartsAreWhole ==
    ASSUME NEW x \in Int, NEW amount \in Int, NEW bps \in Int
    PROVE  LET immediate == (amount * (10000 - bps)) \div 10000
           IN x + immediate + (amount - immediate) = x + amount
  <1> DEFINE part == (amount * (10000 - bps)) \div 10000
  <1>1. amount * (10000 - bps) \in Int
    OBVIOUS
  <1>2. part \in Int
    BY <1>1
  <1> HIDE DEF part
  <1>3. x + part + (amount - part) = x + amount
    BY <1>2
  <1> QED BY <1>3 DEF part

\* A settled reservation pays its publisher its whole amount.
LEMMA SettlePays ==
    ASSUME RInv, NEW r \in Reservations, settleReceipt(r)
    PROVE  /\ reservations[r] \in Reservation
           /\ publisherBalances' =
                [publisherBalances EXCEPT ![reservations[r].publisher] = @ + reservations[r].amount]
           /\ reservations' =
                [reservations EXCEPT ![r] = [reservations[r] EXCEPT !.settled = TRUE]]
  <1> DEFINE p == reservations[r].publisher
             amount == reservations[r].amount
             c == reservations[r].campaignId
             immediate == (amount * (10000 - holdbackBps[c])) \div 10000
  <1>1. reservations[r] \in Reservation
    BY DEF RInv, Ledger, settleReceipt
  <1>2. c \in Campaigns /\ p \in Publishers /\ amount \in Int
    BY <1>1 DEF Reservation
  <1>3. holdbackBps[c] \in Int /\ publisherBalances[p] \in Int
    BY <1>2 DEF RInv
  <1>4. publisherBalances' =
          [publisherBalances EXCEPT ![p] = publisherBalances[p] + immediate + (amount - immediate)]
    BY DEF settleReceipt, RInv
  <1>5. publisherBalances[p] + immediate + (amount - immediate) = publisherBalances[p] + amount
    BY <1>2, <1>3, PartsAreWhole
  <1>6. reservations' = [reservations EXCEPT ![r] = [reservations[r] EXCEPT !.settled = TRUE]]
    BY DEF settleReceipt, RInv, Ledger
  <1> HIDE DEF immediate
  <1>7. publisherBalances' = [publisherBalances EXCEPT ![p] = publisherBalances[p] + amount]
    BY <1>4, <1>5
  <1> QED BY <1>1, <1>6, <1>7

\* The contract starts with no debts and no holdbacks.
LEMMA InitRInv == Init => RInv
  BY DEF Init, RInv, Ledger

\* The ledger is part of Inv; debts and holdbacks stay numbers.
LEMMA NextRInv == RInv /\ BudgetAccounted /\ [Next]_vars => RInv'
  <1> SUFFICES ASSUME RInv, BudgetAccounted, [Next]_vars PROVE RInv'
    OBVIOUS
  <1>1. Ledger'
    BY NextInv DEF Inv, RInv
  <1>2. holdbackBps' \in [Campaigns -> Int]
    <2>1. ASSUME NEW c \in Campaigns, NEW a \in Advertisers, NEW amount \in Amounts,
                 NEW bps \in Holdbacks, fundCampaign(c, a, amount, bps)
          PROVE  holdbackBps' \in [Campaigns -> Int]
      <3>1. bps \in Int
        BY EscrowAssumption
      <3>2. holdbackBps' \in {holdbackBps, [holdbackBps EXCEPT ![c] = bps]}
        BY <2>1 DEF fundCampaign
      <3> QED BY <3>1, <3>2 DEF RInv
    <2>2. CASE ~ \E c \in Campaigns, a \in Advertisers, amount \in Amounts, bps \in Holdbacks :
                   fundCampaign(c, a, amount, bps)
      BY <2>2, SMTT(30) DEF Next, reserveBudget, settleReceipt, releaseExpiredReservation, withdrawPublisher,
                  withdrawCampaignBudget, pauseCampaign, Tick, vars, campaignVars, RInv
    <2> QED BY <2>1, <2>2
  <1>3. publisherBalances' \in [Publishers -> Int]
    <2>1. ASSUME NEW r \in Reservations, settleReceipt(r)
          PROVE  publisherBalances' \in [Publishers -> Int]
      <3>1. /\ reservations[r].amount \in Int
            /\ reservations[r].publisher \in Publishers
            /\ publisherBalances' =
                 [publisherBalances EXCEPT ![reservations[r].publisher] = @ + reservations[r].amount]
        BY <2>1, SettlePays DEF Reservation
      <3> QED BY <3>1 DEF RInv
    <2>2. ASSUME NEW p \in Publishers, withdrawPublisher(p)
          PROVE  publisherBalances' \in [Publishers -> Int]
      BY <2>2 DEF withdrawPublisher, RInv
    <2>3. CASE \/ \E c \in Campaigns, a \in Advertisers, amount \in Amounts, bps \in Holdbacks :
                    fundCampaign(c, a, amount, bps)
               \/ \E r \in Reservations, c \in Campaigns, p \in Publishers, amount \in Amounts,
                     ttl \in TTLs : reserveBudget(r, c, p, amount, ttl)
               \/ \E r \in Reservations : releaseExpiredReservation(r)
               \/ \E c \in Campaigns : withdrawCampaignBudget(c)
               \/ \E c \in Campaigns : pauseCampaign(c)
               \/ Tick
               \/ UNCHANGED vars
      <3>1. UNCHANGED publisherBalances
        BY <2>3 DEF fundCampaign, reserveBudget, releaseExpiredReservation, withdrawCampaignBudget,
                    pauseCampaign, Tick, vars
      <3> QED BY <3>1 DEF RInv
    <2> QED BY <2>1, <2>2, <2>3 DEF Next
  <1> QED BY <1>1, <1>2, <1>3 DEF RInv

\* A transaction that writes entry r changes only what r holds and whether it
\* is paid.
LEMMA EntryWritten ==
    ASSUME RInv, NEW r \in Reservations, NEW x, reservations' = [reservations EXCEPT ![r] = x]
    PROVE  /\ holds' = [holds EXCEPT ![r] = heldBy(x)]
           /\ paidIn(reservations') =
                IF x # NoReservation /\ x.settled
                  THEN paidIn(reservations) \cup {r} ELSE paidIn(reservations) \ {r}
  <1>1. /\ reservations'[r] = x
        /\ \A q \in Reservations \ {r} : reservations'[q] = reservations[q]
    BY DEF RInv, Ledger
  <1>2. \A q \in Reservations : holds'[q] = IF q = r THEN heldBy(x) ELSE holds[q]
    BY <1>1 DEF holds, Holding, heldBy
  <1>3. DOMAIN holds' = Reservations /\ DOMAIN holds = Reservations
    BY DEF holds
  <1>4. holds' = [holds EXCEPT ![r] = heldBy(x)]
    BY <1>2, <1>3 DEF holds
  <1>5. paidIn(reservations') =
          IF x # NoReservation /\ x.settled
            THEN paidIn(reservations) \cup {r} ELSE paidIn(reservations) \ {r}
    BY <1>1 DEF paidIn
  <1> QED BY <1>4, <1>5

\* Where the reservations stay as they are, so do the holds and the payments.
LEMMA EntriesKept ==
    ASSUME reservations' = reservations
    PROVE  holds' = holds /\ paidIn(reservations') = paidIn(reservations)
  BY DEF holds, Holding, paidIn

\* fundCampaign pays into a purse.
LEMMA FundIsIdeal ==
    ASSUME RInv, NEW c \in Campaigns, NEW a \in Advertisers, NEW amount \in Amounts,
           NEW bps \in Holdbacks, fundCampaign(c, a, amount, bps)
    PROVE  Ideal!Fund(c)
  <1>1. amount \in Nat /\ amount > 0
    BY EscrowAssumption DEF fundCampaign
  <1>2. /\ availableBudget' = [availableBudget EXCEPT ![c] = @ + amount]
        /\ UNCHANGED <<reservations, publisherBalances>>
    BY DEF fundCampaign
  <1>3. availableBudget \in [Campaigns -> Int]
    BY DEF RInv, Ledger
  <1>4. availableBudget'[c] > availableBudget[c]
    BY <1>1, <1>2, <1>3
  <1>5. availableBudget' = [availableBudget EXCEPT ![c] = availableBudget'[c]]
    BY <1>2, <1>3
  <1>6. holds' = holds /\ paidIn(reservations') = paidIn(reservations)
    BY <1>2, EntriesKept
  <1> QED BY <1>2, <1>4, <1>5, <1>6 DEF Ideal!Fund, paidIn

\* withdrawCampaignBudget takes out of a purse.
LEMMA WithdrawIsIdeal ==
    ASSUME RInv, NEW c \in Campaigns, withdrawCampaignBudget(c)
    PROVE  Ideal!TakeOut(c)
  <1>1. /\ availableBudget' = [availableBudget EXCEPT ![c] = 0]
        /\ availableBudget[c] > 0
        /\ UNCHANGED <<reservations, publisherBalances>>
    BY DEF withdrawCampaignBudget
  <1>2. availableBudget \in [Campaigns -> Int]
    BY DEF RInv, Ledger
  <1>3. availableBudget'[c] = 0
    BY <1>1, <1>2
  <1>4. holds' = holds /\ paidIn(reservations') = paidIn(reservations)
    BY <1>1, EntriesKept
  <1>5. 0 <= availableBudget'[c] /\ availableBudget'[c] < availableBudget[c]
    BY <1>1, <1>2, <1>3
  <1>6. availableBudget' = [availableBudget EXCEPT ![c] = availableBudget'[c]]
    BY <1>1, <1>3
  <1> QED BY <1>1, <1>4, <1>5, <1>6 DEF Ideal!TakeOut, paidIn

\* reserveBudget promises money to a publisher.
LEMMA ReserveIsIdeal ==
    ASSUME RInv, NEW r \in Reservations, NEW c \in Campaigns, NEW p \in Publishers,
           NEW amount \in Amounts, NEW ttl \in TTLs, reserveBudget(r, c, p, amount, ttl)
    PROVE  Ideal!Promise(r, c, p)
  <1> DEFINE res == [campaignId |-> c, publisher |-> p, amount |-> amount,
                     expires |-> now + ttl, settled |-> FALSE]
             money == [of |-> c, for |-> p, amount |-> amount]
  <1>1. amount \in Nat \ {0} /\ ttl \in Nat
    BY EscrowAssumption DEF reserveBudget
  <1>2. /\ reservations' = [reservations EXCEPT ![r] = res]
        /\ availableBudget' = [availableBudget EXCEPT ![c] = @ - amount]
        /\ availableBudget[c] >= amount
        /\ reservations[r] = NoReservation
        /\ UNCHANGED publisherBalances
    BY DEF reserveBudget
  <1>3. res \in Reservation
    BY <1>1 DEF RInv, Ledger, Reservation
  <1>4. res # NoReservation
    BY <1>3, NoReservationAssumption
  <1>5. money \in [of : Campaigns, for : Publishers, amount : Nat \ {0}]
    BY <1>1
  <1>6. money # NoReservation
    BY <1>5, NoReservationAssumption
  <1>7. heldBy(res) = money /\ ~ res.settled
    BY <1>4 DEF heldBy
  <1> HIDE DEF res, money
  <1>8. /\ holds' = [holds EXCEPT ![r] = money]
        /\ paidIn(reservations') = paidIn(reservations) \ {r}
    BY <1>2, <1>4, <1>7, EntryWritten
  <1>9. r \notin paidIn(reservations)
    BY <1>2 DEF paidIn
  <1>10. holds[r] = NoReservation
    BY <1>2 DEF holds, Holding
  <1>11. holds'[r] = money
    BY <1>8 DEF holds
  <1>12. holds'[r].amount = amount /\ money = [of |-> c, for |-> p, amount |-> holds'[r].amount]
    BY <1>11 DEF money
  <1>13. 0 < amount /\ amount <= availableBudget[c]
    BY <1>1, <1>2 DEF RInv, Ledger
  <1>14. paidIn(reservations') = paidIn(reservations)
    BY <1>8, <1>9
  <1> QED BY <1>2, <1>6, <1>8, <1>9, <1>10, <1>11, <1>12, <1>13, <1>14 DEF Ideal!Promise, paidIn

\* settleReceipt pays what the reservation holds to its publisher.
LEMMA SettleIsIdeal ==
    ASSUME RInv, NEW r \in Reservations, settleReceipt(r)
    PROVE  Ideal!Pay(r)
  <1> DEFINE x == reservations[r]
             settledX == [x EXCEPT !.settled = TRUE]
             money == [of |-> x.campaignId, for |-> x.publisher, amount |-> x.amount]
  <1>1. x # NoReservation /\ ~ x.settled /\ UNCHANGED availableBudget
    BY DEF settleReceipt
  <1>2. /\ x \in Reservation
        /\ publisherBalances' = [publisherBalances EXCEPT ![x.publisher] = @ + x.amount]
        /\ reservations' = [reservations EXCEPT ![r] = settledX]
    BY SettlePays
  <1>3. settledX \in Reservation /\ settledX.settled
    BY <1>2 DEF Reservation
  <1>4. settledX # NoReservation
    BY <1>3, NoReservationAssumption
  <1>5. heldBy(settledX) = NoReservation
    BY <1>3 DEF heldBy
  <1>6. /\ holds' = [holds EXCEPT ![r] = NoReservation]
        /\ paidIn(reservations') = paidIn(reservations) \cup {r}
    BY <1>2, <1>3, <1>4, <1>5, EntryWritten
  <1>7. holds[r] = money
    BY <1>1 DEF holds, Holding
  <1>8. money \in [of : Campaigns, for : Publishers, amount : Nat \ {0}]
    BY <1>2 DEF Reservation
  <1>9. holds[r] # NoReservation
    BY <1>7, <1>8, NoReservationAssumption
  <1>10. holds[r].for = x.publisher /\ holds[r].amount = x.amount
    BY <1>7
  <1> HIDE DEF settledX, money
  <1> QED BY <1>1, <1>2, <1>6, <1>9, <1>10 DEF Ideal!Pay, paidIn

\* releaseExpiredReservation gives back what the reservation holds.
LEMMA ReleaseIsIdeal ==
    ASSUME RInv, NEW r \in Reservations, releaseExpiredReservation(r)
    PROVE  Ideal!GiveBack(r)
  <1> DEFINE x == reservations[r]
             money == [of |-> x.campaignId, for |-> x.publisher, amount |-> x.amount]
  <1>1. /\ x # NoReservation /\ ~ x.settled
        /\ availableBudget' = [availableBudget EXCEPT ![x.campaignId] = @ + x.amount]
        /\ reservations' = [reservations EXCEPT ![r] = NoReservation]
        /\ UNCHANGED publisherBalances
    BY DEF releaseExpiredReservation
  <1>2. x \in Reservation
    BY <1>1 DEF RInv, Ledger
  <1>3. heldBy(NoReservation) = NoReservation
    BY DEF heldBy
  <1>4. /\ holds' = [holds EXCEPT ![r] = NoReservation]
        /\ paidIn(reservations') = paidIn(reservations) \ {r}
    BY <1>1, <1>3, EntryWritten
  <1>5. paidIn(reservations') = paidIn(reservations)
    BY <1>1, <1>4 DEF paidIn
  <1>6. holds[r] = money
    BY <1>1 DEF holds, Holding
  <1>7. money \in [of : Campaigns, for : Publishers, amount : Nat \ {0}]
    BY <1>2 DEF Reservation
  <1>8. holds[r] # NoReservation
    BY <1>6, <1>7, NoReservationAssumption
  <1>9. holds[r].of = x.campaignId /\ holds[r].amount = x.amount
    BY <1>6
  <1> HIDE DEF money
  <1> QED BY <1>1, <1>4, <1>5, <1>8, <1>9 DEF Ideal!GiveBack, paidIn

\* withdrawPublisher pays out a debt.
LEMMA PayOutIsIdeal ==
    ASSUME RInv, NEW p \in Publishers, withdrawPublisher(p)
    PROVE  Ideal!PayOut(p)
  <1>1. /\ publisherBalances[p] > 0
        /\ publisherBalances' = [publisherBalances EXCEPT ![p] = 0]
        /\ UNCHANGED <<availableBudget, reservations>>
    BY DEF withdrawPublisher, campaignVars
  <1>2. holds' = holds /\ paidIn(reservations') = paidIn(reservations)
    BY <1>1, EntriesKept
  <1> QED BY <1>1, <1>2 DEF Ideal!PayOut, paidIn

\* The empty contract is an empty ideal escrow.
LEMMA InitIsIdeal == Init => Ideal!Init
  <1> SUFFICES ASSUME Init PROVE Ideal!Init
    OBVIOUS
  <1>1. \A r \in Reservations : reservations[r] = NoReservation
    BY DEF Init
  <1>2. holds = [r \in Reservations |-> NoReservation]
    BY <1>1 DEF holds, Holding
  <1>3. paidIn(reservations) = {}
    BY <1>1 DEF paidIn
  <1> QED BY <1>2, <1>3 DEF Init, Ideal!Init, paidIn

\* Every step of the contract is a step of the ideal escrow or changes nothing
\* of it.
LEMMA StepIsIdeal == RInv /\ [Next]_vars => [Ideal!Next]_(Ideal!vars)
  <1> SUFFICES ASSUME RInv, [Next]_vars PROVE [Ideal!Next]_(Ideal!vars)
    OBVIOUS
  <1>1. ASSUME NEW c \in Campaigns, NEW a \in Advertisers, NEW amount \in Amounts,
               NEW bps \in Holdbacks, fundCampaign(c, a, amount, bps)
        PROVE  Ideal!Next
    BY <1>1, FundIsIdeal DEF Ideal!Next
  <1>2. ASSUME NEW r \in Reservations, NEW c \in Campaigns, NEW p \in Publishers,
               NEW amount \in Amounts, NEW ttl \in TTLs, reserveBudget(r, c, p, amount, ttl)
        PROVE  Ideal!Next
    BY <1>2, ReserveIsIdeal DEF Ideal!Next
  <1>3. ASSUME NEW r \in Reservations, settleReceipt(r) PROVE Ideal!Next
    BY <1>3, SettleIsIdeal DEF Ideal!Next
  <1>4. ASSUME NEW r \in Reservations, releaseExpiredReservation(r) PROVE Ideal!Next
    BY <1>4, ReleaseIsIdeal DEF Ideal!Next
  <1>5. ASSUME NEW p \in Publishers, withdrawPublisher(p) PROVE Ideal!Next
    BY <1>5, PayOutIsIdeal DEF Ideal!Next
  <1>6. ASSUME NEW c \in Campaigns, withdrawCampaignBudget(c) PROVE Ideal!Next
    BY <1>6, WithdrawIsIdeal DEF Ideal!Next
  <1>7. CASE (\E c \in Campaigns : pauseCampaign(c)) \/ Tick \/ UNCHANGED vars
    <2>1. UNCHANGED <<availableBudget, reservations, publisherBalances>>
      BY <1>7 DEF pauseCampaign, Tick, vars, campaignVars
    <2>2. holds' = holds /\ paidIn(reservations') = paidIn(reservations)
      BY <2>1, EntriesKept
    <2> QED BY <2>1, <2>2 DEF Ideal!vars, paidIn
  <1> QED BY <1>1, <1>2, <1>3, <1>4, <1>5, <1>6, <1>7 DEF Next

\* The contract implements IdealEscrow: through any transactions, what
\* reserveBudget locks is paid once and whole by settleReceipt or returned by
\* releaseExpiredReservation.
THEOREM Refinement == Spec => ImplementsIdealEscrow
  <1>1. Inv => BudgetAccounted
    BY DEF Inv
  <1> QED BY InitInv, NextInv, InitRInv, NextRInv, InitIsIdeal, StepIsIdeal, <1>1, PTL
          DEF Spec, ImplementsIdealEscrow, Ideal!Spec

-----------------------------------------------------------------------------
(* Coin by coin *)

\* What each reservation locks, and what it has paid, of the budget of c.
lockedBy(res, c) ==
    [r \in Reservations |->
       IF res[r] # NoReservation /\ ~ res[r].settled /\ res[r].campaignId = c
         THEN res[r].amount ELSE 0]
paidBy(res, c) ==
    [r \in Reservations |->
       IF res[r] # NoReservation /\ res[r].settled /\ res[r].campaignId = c
         THEN res[r].amount ELSE 0]

locked(res, c) == SumFunctionOnSet(lockedBy(res, c), Reservations)
paid(res, c) == SumFunctionOnSet(paidBy(res, c), Reservations)

\* The sums of EveryCoinHasAReservation, before and after a step.
LEMMA CoinSums ==
    ASSUME NEW c \in Campaigns
    PROVE  /\ AmountOf(Live(c)) = locked(reservations, c)
           /\ AmountOf(Settled(c)) = paid(reservations, c)
           /\ AmountOf(Live(c))' = locked(reservations', c)
           /\ AmountOf(Settled(c))' = paid(reservations', c)
  <1>1. [r \in Reservations |-> IF r \in Live(c) THEN reservations[r].amount ELSE 0]
          = lockedBy(reservations, c)
    BY DEF Live, lockedBy
  <1>2. [r \in Reservations |-> IF r \in Settled(c) THEN reservations[r].amount ELSE 0]
          = paidBy(reservations, c)
    BY DEF Settled, paidBy
  <1>3. [r \in Reservations |-> IF r \in Live(c)' THEN reservations'[r].amount ELSE 0]
          = lockedBy(reservations', c)
    BY DEF Live, lockedBy
  <1>4. [r \in Reservations |-> IF r \in Settled(c)' THEN reservations'[r].amount ELSE 0]
          = paidBy(reservations', c)
    BY DEF Settled, paidBy
  <1> QED BY <1>1, <1>2, <1>3, <1>4 DEF AmountOf, locked, paid

\* What reservations lock and have paid are natural numbers.
LEMMA CoinTypes ==
    ASSUME NEW res \in [Reservations -> Reservation \cup {NoReservation}], NEW c
    PROVE  /\ \A r \in Reservations : lockedBy(res, c)[r] \in Nat /\ paidBy(res, c)[r] \in Nat
           /\ locked(res, c) \in Nat /\ paid(res, c) \in Nat
  <1>1. \A r \in Reservations : res[r] # NoReservation => res[r].amount \in Nat
    BY DEF Reservation
  <1>2. \A r \in Reservations : lockedBy(res, c)[r] \in Nat /\ paidBy(res, c)[r] \in Nat
    BY <1>1 DEF lockedBy, paidBy
  <1> QED BY <1>2, SumNat, EscrowAssumption DEF locked, paid

\* When one reservation changes, the sums change by what it locks and has paid.
LEMMA OneReservation ==
    ASSUME NEW res \in [Reservations -> Reservation \cup {NoReservation}],
           NEW new \in [Reservations -> Reservation \cup {NoReservation}],
           NEW r \in Reservations, \A q \in Reservations \ {r} : new[q] = res[q], NEW c
    PROVE  /\ locked(new, c) = locked(res, c) - lockedBy(res, c)[r] + lockedBy(new, c)[r]
           /\ paid(new, c) = paid(res, c) - paidBy(res, c)[r] + paidBy(new, c)[r]
  <1>1. \A q \in Reservations \ {r} :
          lockedBy(new, c)[q] = lockedBy(res, c)[q] /\ paidBy(new, c)[q] = paidBy(res, c)[q]
    BY DEF lockedBy, paidBy
  <1>2. \A q \in Reservations : /\ lockedBy(new, c)[q] \in Int /\ lockedBy(res, c)[q] \in Int
                                /\ paidBy(new, c)[q] \in Int /\ paidBy(res, c)[q] \in Int
    BY CoinTypes
  <1>3. locked(new, c) = locked(res, c) - lockedBy(res, c)[r] + lockedBy(new, c)[r]
    BY <1>1, <1>2, SumChange, EscrowAssumption DEF locked
  <1>4. paid(new, c) = paid(res, c) - paidBy(res, c)[r] + paidBy(new, c)[r]
    BY <1>1, <1>2, SumChange, EscrowAssumption DEF paid
  <1> QED BY <1>3, <1>4

\* What a transaction does to the reserved and spent budget of each campaign
\* is what it does to the reservations.
LEMMA CoinsStep ==
    ASSUME Inv, [Next]_vars, EveryCoinHasAReservation
    PROVE  EveryCoinHasAReservation'
  <1> DEFINE R == [Reservations -> Reservation \cup {NoReservation}]
  <1>1. reservations \in R /\ reservations' \in R
    BY NextInv DEF Inv, Ledger
  <1>2. reservedBudget \in [Campaigns -> Int] /\ spentBudget \in [Campaigns -> Int]
    BY DEF Inv, Ledger
  <1>3. SUFFICES ASSUME NEW k \in Campaigns
                 PROVE  /\ reservedBudget'[k] = locked(reservations', k)
                        /\ spentBudget'[k] = paid(reservations', k)
    BY CoinSums DEF EveryCoinHasAReservation
  <1>4. reservedBudget[k] = locked(reservations, k) /\ spentBudget[k] = paid(reservations, k)
    BY CoinSums DEF EveryCoinHasAReservation
  <1>5. ASSUME NEW r \in Reservations, NEW c \in Campaigns, NEW p \in Publishers,
               NEW amount \in Amounts, NEW ttl \in TTLs, reserveBudget(r, c, p, amount, ttl)
        PROVE  /\ reservedBudget'[k] = locked(reservations', k)
               /\ spentBudget'[k] = paid(reservations', k)
    <2> DEFINE res == [campaignId |-> c, publisher |-> p, amount |-> amount,
                       expires |-> now + ttl, settled |-> FALSE]
    <2>1. /\ reservations' = [reservations EXCEPT ![r] = res]
          /\ reservedBudget' = [reservedBudget EXCEPT ![c] = @ + amount]
          /\ spentBudget' = spentBudget
          /\ reservations[r] = NoReservation
          /\ amount \in Nat /\ ttl \in Nat /\ amount > 0 /\ now \in Nat
      BY <1>5, EscrowAssumption DEF reserveBudget, Inv, Ledger
    <2>2. reservations'[r] = res /\ \A q \in Reservations \ {r} : reservations'[q] = reservations[q]
      BY <1>1, <2>1
    <2>3. res # NoReservation
      <3>1. res \in Reservation
        BY <2>1 DEF Reservation
      <3> QED BY <3>1, NoReservationAssumption
    <2>4. /\ lockedBy(reservations, k)[r] = 0 /\ paidBy(reservations, k)[r] = 0
          /\ lockedBy(reservations', k)[r] = IF k = c THEN amount ELSE 0
          /\ paidBy(reservations', k)[r] = 0
      BY <2>1, <2>2, <2>3 DEF lockedBy, paidBy
    <2>5. amount \in Nat
      BY <2>1
    <2> HIDE DEF res
    <2>6. /\ locked(reservations', k) = locked(reservations, k) + (IF k = c THEN amount ELSE 0)
          /\ paid(reservations', k) = paid(reservations, k)
      BY <1>1, <2>2, <2>4, <2>5, OneReservation, CoinTypes
    <2> QED BY <1>2, <1>4, <2>1, <2>6
  <1>6. ASSUME NEW r \in Reservations, settleReceipt(r)
        PROVE  /\ reservedBudget'[k] = locked(reservations', k)
               /\ spentBudget'[k] = paid(reservations', k)
    <2> DEFINE c == reservations[r].campaignId
               amount == reservations[r].amount
    <2>1. /\ reservedBudget' = [reservedBudget EXCEPT ![c] = @ - amount]
          /\ spentBudget' = [spentBudget EXCEPT ![c] = @ + amount]
          /\ reservations' = [reservations EXCEPT ![r].settled = TRUE]
          /\ reservations[r] # NoReservation /\ ~ reservations[r].settled
      BY <1>6 DEF settleReceipt
    <2>2. reservations[r] \in Reservation
      BY <1>1, <2>1
    <2>3. /\ reservations'[r] \in Reservation /\ reservations'[r].settled
          /\ reservations'[r].campaignId = c /\ reservations'[r].amount = amount
          /\ \A q \in Reservations \ {r} : reservations'[q] = reservations[q]
          /\ amount \in Nat /\ c \in Campaigns
      BY <1>1, <2>1, <2>2 DEF Reservation
    <2>4. /\ lockedBy(reservations, k)[r] = IF k = c THEN amount ELSE 0
          /\ paidBy(reservations, k)[r] = 0
          /\ lockedBy(reservations', k)[r] = 0
          /\ paidBy(reservations', k)[r] = IF k = c THEN amount ELSE 0
      BY <2>1, <2>3, NoReservationAssumption DEF lockedBy, paidBy
    <2> HIDE DEF c, amount
    <2>5. /\ locked(reservations', k) = locked(reservations, k) - (IF k = c THEN amount ELSE 0)
          /\ paid(reservations', k) = paid(reservations, k) + (IF k = c THEN amount ELSE 0)
      BY <1>1, <2>3, <2>4, OneReservation, CoinTypes
    <2> QED BY <1>2, <1>4, <2>1, <2>3, <2>5
  <1>7. ASSUME NEW r \in Reservations, releaseExpiredReservation(r)
        PROVE  /\ reservedBudget'[k] = locked(reservations', k)
               /\ spentBudget'[k] = paid(reservations', k)
    <2> DEFINE c == reservations[r].campaignId
               amount == reservations[r].amount
    <2>1. /\ reservedBudget' = [reservedBudget EXCEPT ![c] = @ - amount]
          /\ spentBudget' = spentBudget
          /\ reservations' = [reservations EXCEPT ![r] = NoReservation]
          /\ reservations[r] # NoReservation /\ ~ reservations[r].settled
      BY <1>7 DEF releaseExpiredReservation
    <2>2. reservations[r] \in Reservation
      BY <1>1, <2>1
    <2>3. /\ reservations'[r] = NoReservation
          /\ \A q \in Reservations \ {r} : reservations'[q] = reservations[q]
          /\ amount \in Nat /\ c \in Campaigns
      BY <1>1, <2>1, <2>2 DEF Reservation
    <2>4. /\ lockedBy(reservations, k)[r] = IF k = c THEN amount ELSE 0
          /\ paidBy(reservations, k)[r] = 0
          /\ lockedBy(reservations', k)[r] = 0 /\ paidBy(reservations', k)[r] = 0
      BY <2>1, <2>3 DEF lockedBy, paidBy
    <2> HIDE DEF c, amount
    <2>5. /\ locked(reservations', k) = locked(reservations, k) - (IF k = c THEN amount ELSE 0)
          /\ paid(reservations', k) = paid(reservations, k)
      BY <1>1, <2>3, <2>4, OneReservation, CoinTypes
    <2> QED BY <1>2, <1>4, <2>1, <2>3, <2>5
  <1>8. CASE \/ \E c \in Campaigns, a \in Advertisers, amount \in Amounts, bps \in Holdbacks :
                  fundCampaign(c, a, amount, bps)
             \/ \E p \in Publishers : withdrawPublisher(p)
             \/ \E c \in Campaigns : withdrawCampaignBudget(c)
             \/ \E c \in Campaigns : pauseCampaign(c)
             \/ Tick
             \/ UNCHANGED vars
    <2>1. UNCHANGED <<reservedBudget, spentBudget, reservations>>
      BY <1>8 DEF fundCampaign, withdrawPublisher, withdrawCampaignBudget, pauseCampaign, Tick,
                  vars, campaignVars
    <2> QED BY <1>4, <2>1
  <1> QED BY <1>5, <1>6, <1>7, <1>8 DEF Next

\* The contract starts with no reservations and nothing reserved or spent.
LEMMA CoinsInit == Init => EveryCoinHasAReservation
  <1> SUFFICES ASSUME Init, NEW c \in Campaigns
               PROVE  locked(reservations, c) = 0 /\ paid(reservations, c) = 0
    BY CoinSums DEF EveryCoinHasAReservation, Init
  <1>1. \A r \in Reservations : lockedBy(reservations, c)[r] = 0 /\ paidBy(reservations, c)[r] = 0
    BY DEF Init, lockedBy, paidBy
  <1> QED BY <1>1, SumZero, EscrowAssumption DEF locked, paid

\* Every coin that reserveBudget locks is in one open reservation, and every
\* coin that settleReceipt spends in one settled one.
THEOREM CoinByCoin == Spec => []EveryCoinHasAReservation
  <1> QED BY InitInv, NextInv, CoinsInit, CoinsStep, PTL DEF Spec

-----------------------------------------------------------------------------
(* Types and solvency *)

\* What the contract owes to campaigns and to publishers.
owedTo(available, reserved) == [c \in Campaigns |-> available[c] + reserved[c]]
campaignDebt(available, reserved) == SumFunctionOnSet(owedTo(available, reserved), Campaigns)
publisherDebt(balances) == SumFunctionOnSet(balances, Publishers)

\* The inductive invariant: the books are typed, add up and are covered.
Books == TypeOK /\ BudgetAccounted /\ EveryCoinHasAReservation /\ Solvent

\* Types are the ledger and more.
LEMMA BooksInv == Books => Inv /\ RInv
  <1> SUFFICES ASSUME Books PROVE Inv /\ RInv
    OBVIOUS
  <1>1. TypeOK /\ BudgetAccounted
    BY DEF Books
  <1>2. Ledger
    BY <1>1 DEF TypeOK, Ledger
  <1>3. publisherBalances \in [Publishers -> Int] /\ holdbackBps \in [Campaigns -> Int]
    <2>1. \A x \in BasisPoints : x \in Int
      BY DEF BasisPoints
    <2> QED BY <1>1, <2>1 DEF TypeOK
  <1> QED BY <1>1, <1>2, <1>3 DEF Inv, RInv

\* Solvent in terms of the debts, before and after a step.
LEMMA SolventMeans ==
    /\ Solvent <=> ausd[Escrow] = campaignDebt(availableBudget, reservedBudget)
                                    + publisherDebt(publisherBalances)
    /\ Solvent' <=> ausd'[Escrow] = campaignDebt(availableBudget', reservedBudget')
                                      + publisherDebt(publisherBalances')
  BY DEF Solvent, campaignDebt, publisherDebt, owedTo

\* Debts are integers.
LEMMA DebtTypes ==
    /\ \A a, b \in [Campaigns -> Int] : campaignDebt(a, b) \in Int
    /\ \A b \in [Publishers -> Int] : publisherDebt(b) \in Int
  BY SumInt, EscrowAssumption DEF campaignDebt, publisherDebt, owedTo

\* A change of one campaign changes the debt to campaigns by as much.
LEMMA OneCampaign ==
    ASSUME NEW a \in [Campaigns -> Int], NEW b \in [Campaigns -> Int],
           NEW a2 \in [Campaigns -> Int], NEW b2 \in [Campaigns -> Int], NEW c \in Campaigns,
           \A k \in Campaigns \ {c} : a2[k] = a[k] /\ b2[k] = b[k]
    PROVE  campaignDebt(a2, b2) = campaignDebt(a, b) - (a[c] + b[c]) + (a2[c] + b2[c])
  <1>1. \A k \in Campaigns : owedTo(a, b)[k] \in Int /\ owedTo(a2, b2)[k] \in Int
    BY DEF owedTo
  <1>2. \A k \in Campaigns \ {c} : owedTo(a, b)[k] = owedTo(a2, b2)[k]
    BY DEF owedTo
  <1>3. campaignDebt(a2, b2) = campaignDebt(a, b) - owedTo(a, b)[c] + owedTo(a2, b2)[c]
    BY <1>1, <1>2, SumChange, EscrowAssumption DEF campaignDebt
  <1> QED BY <1>3 DEF owedTo

\* A change of one balance changes the debt to publishers by as much.
LEMMA OnePublisher ==
    ASSUME NEW b \in [Publishers -> Int], NEW b2 \in [Publishers -> Int], NEW p \in Publishers,
           \A q \in Publishers \ {p} : b2[q] = b[q]
    PROVE  publisherDebt(b2) = publisherDebt(b) - b[p] + b2[p]
  BY SumChange, EscrowAssumption DEF publisherDebt

\* The contract starts with empty, typed and covered books.
LEMMA BooksInit == Init => Books
  <1> SUFFICES ASSUME Init PROVE Books
    OBVIOUS
  <1>1. TypeOK
    <2>1. 0 \in BasisPoints
      BY DEF BasisPoints
    <2> QED BY <2>1, EscrowAssumption DEF Init, TypeOK
  <1>2. \A c \in Campaigns : owedTo(availableBudget, reservedBudget)[c] = 0
    BY DEF Init, owedTo
  <1>3. \A p \in Publishers : publisherBalances[p] = 0
    BY DEF Init
  <1>4. campaignDebt(availableBudget, reservedBudget) = 0 /\ publisherDebt(publisherBalances) = 0
    BY <1>2, <1>3, SumZero, EscrowAssumption DEF campaignDebt, publisherDebt
  <1>5. ausd[Escrow] = 0
    BY EscrowAssumption DEF Init, Accounts
  <1> QED BY <1>1, <1>4, <1>5, InitInv, CoinsInit, SolventMeans DEF Books, Inv

\* Setting one flag keeps the type of flags.
LEMMA FlagSet ==
    ASSUME NEW C, NEW f \in [C -> BOOLEAN], NEW c \in C, NEW b \in BOOLEAN
    PROVE  [f EXCEPT ![c] = b] \in [C -> BOOLEAN]
  BY Zenon

\* A step keeps the types of owners, flags, holdbacks and the clock.
LEMMA ConfigTyped ==
    ASSUME TypeOK, [Next]_vars
    PROVE  /\ advertiser' \in [Campaigns -> Advertisers \cup {NoOne}]
           /\ active' \in [Campaigns -> BOOLEAN]
           /\ holdbackBps' \in [Campaigns -> BasisPoints]
           /\ now' \in Nat
  <1>1. advertiser \in [Campaigns -> Advertisers \cup {NoOne}]
    BY DEF TypeOK
  <1>2. active \in [Campaigns -> BOOLEAN]
    BY DEF TypeOK
  <1>3. holdbackBps \in [Campaigns -> BasisPoints]
    BY DEF TypeOK
  <1>4. now \in Nat
    BY DEF TypeOK
  <1>5. ASSUME NEW c \in Campaigns, NEW a \in Advertisers, NEW amount \in Amounts,
               NEW bps \in Holdbacks, fundCampaign(c, a, amount, bps)
        PROVE  /\ advertiser' = advertiser \/ advertiser' = [advertiser EXCEPT ![c] = a]
               /\ active' = active \/ active' = [active EXCEPT ![c] = TRUE]
               /\ holdbackBps' = holdbackBps \/ holdbackBps' = [holdbackBps EXCEPT ![c] = bps]
               /\ bps \in BasisPoints
               /\ now' = now
    BY <1>5, EscrowAssumption DEF fundCampaign, BasisPoints
  <1>6. ASSUME NEW c \in Campaigns, pauseCampaign(c)
        PROVE  /\ active' = [active EXCEPT ![c] = FALSE]
               /\ advertiser' = advertiser /\ holdbackBps' = holdbackBps /\ now' = now
    BY <1>6 DEF pauseCampaign
  <1>7. ASSUME \/ Tick
               \/ \E r \in Reservations, c \in Campaigns, p \in Publishers, amount \in Amounts,
                    ttl \in TTLs : reserveBudget(r, c, p, amount, ttl)
               \/ \E r \in Reservations : settleReceipt(r)
               \/ \E r \in Reservations : releaseExpiredReservation(r)
               \/ \E p \in Publishers : withdrawPublisher(p)
               \/ \E c \in Campaigns : withdrawCampaignBudget(c)
               \/ UNCHANGED vars
        PROVE  /\ advertiser' = advertiser /\ active' = active /\ holdbackBps' = holdbackBps
               /\ now' = now \/ now' = now + 1
    BY <1>7 DEF Tick, reserveBudget, settleReceipt, releaseExpiredReservation, withdrawPublisher,
                withdrawCampaignBudget, vars, campaignVars
  <1>8. advertiser' \in [Campaigns -> Advertisers \cup {NoOne}]
    BY <1>1, <1>5, <1>6, <1>7 DEF Next
  <1>9. active' \in [Campaigns -> BOOLEAN]
    <2>1. ASSUME NEW c \in Campaigns, NEW a \in Advertisers, NEW amount \in Amounts,
                 NEW bps \in Holdbacks, fundCampaign(c, a, amount, bps)
          PROVE  active' \in [Campaigns -> BOOLEAN]
      <3>1. active' = active \/ active' = [active EXCEPT ![c] = TRUE]
        BY <1>5, <2>1
      <3>2. [active EXCEPT ![c] = TRUE] \in [Campaigns -> BOOLEAN]
        BY <1>2, FlagSet
      <3> QED BY <1>2, <3>1, <3>2
    <2>2. ASSUME NEW c \in Campaigns, pauseCampaign(c)
          PROVE  active' \in [Campaigns -> BOOLEAN]
      <3>1. active' = [active EXCEPT ![c] = FALSE]
        BY <1>6, <2>2
      <3>2. [active EXCEPT ![c] = FALSE] \in [Campaigns -> BOOLEAN]
        BY <1>2, FlagSet
      <3> QED BY <3>1, <3>2
    <2> QED BY <1>2, <1>7, <2>1, <2>2 DEF Next
  <1>10. holdbackBps' \in [Campaigns -> BasisPoints]
    <2>1. ASSUME NEW c \in Campaigns, NEW a \in Advertisers, NEW amount \in Amounts,
                 NEW bps \in Holdbacks, fundCampaign(c, a, amount, bps)
          PROVE  holdbackBps' \in [Campaigns -> BasisPoints]
      <3>1. /\ holdbackBps' = holdbackBps \/ holdbackBps' = [holdbackBps EXCEPT ![c] = bps]
            /\ bps \in BasisPoints
        BY <1>5, <2>1
      <3> QED BY <1>3, <3>1
    <2> QED BY <1>3, <1>6, <1>7, <2>1 DEF Next
  <1>11. now' \in Nat
    BY <1>4, <1>5, <1>6, <1>7 DEF Next
  <1> QED BY <1>8, <1>9, <1>10, <1>11

\* What a step may leave uncovered: purses, debts and the AUSD of the contract.
Covered ==
    /\ availableBudget \in [Campaigns -> Nat]
    /\ publisherBalances \in [Publishers -> Nat]
    /\ ausd \in [Accounts -> Nat]
    /\ ausd[Escrow] = campaignDebt(availableBudget, reservedBudget)
                        + publisherDebt(publisherBalances)

\* The rest of the invariant follows: counters that equal sums of amounts, and
\* their total, are not negative.
LEMMA CoveredBooks ==
    ASSUME Books, [Next]_vars, Covered'
    PROVE  Books'
  <1>1. Inv' /\ EveryCoinHasAReservation'
    BY BooksInv, NextInv, CoinsStep DEF Books
  <1>2. \A c \in Campaigns : reservedBudget'[c] \in Nat /\ spentBudget'[c] \in Nat
    BY <1>1, CoinSums, CoinTypes DEF Inv, Ledger, EveryCoinHasAReservation
  <1>3. reservedBudget' \in [Campaigns -> Nat] /\ spentBudget' \in [Campaigns -> Nat]
    BY <1>1, <1>2 DEF Inv, Ledger
  <1>4. totalBudget' \in [Campaigns -> Nat]
    <2>1. \A c \in Campaigns : totalBudget'[c] \in Nat
      BY <1>1, <1>3 DEF Inv, BudgetAccounted, Covered
    <2> QED BY <1>1, <2>1 DEF Inv, Ledger
  <1>5. TypeOK'
    <2>1. TypeOK
      BY DEF Books
    <2>2. /\ availableBudget' \in [Campaigns -> Nat]
          /\ publisherBalances' \in [Publishers -> Nat]
          /\ ausd' \in [Accounts -> Nat]
          /\ reservations' \in [Reservations -> Reservation \cup {NoReservation}]
      BY <1>1 DEF Covered, Inv, Ledger
    <2>3. /\ advertiser' \in [Campaigns -> Advertisers \cup {NoOne}]
          /\ active' \in [Campaigns -> BOOLEAN]
          /\ holdbackBps' \in [Campaigns -> BasisPoints]
          /\ now' \in Nat
      BY <2>1, ConfigTyped
    <2> QED BY <1>3, <1>4, <2>2, <2>3 DEF TypeOK
  <1>6. Solvent'
    BY SolventMeans DEF Covered
  <1> QED BY <1>1, <1>5, <1>6 DEF Books, Inv

\* The parts of Books the steps start from.
LEMMA BooksParts ==
    ASSUME Books
    PROVE  /\ Covered
           /\ reservedBudget \in [Campaigns -> Nat]
           /\ availableBudget \in [Campaigns -> Int] /\ reservedBudget \in [Campaigns -> Int]
           /\ publisherBalances \in [Publishers -> Int]
           /\ reservations \in [Reservations -> Reservation \cup {NoReservation}]
           /\ campaignDebt(availableBudget, reservedBudget) \in Int
           /\ publisherDebt(publisherBalances) \in Int
  <1>1. /\ Covered
        /\ reservedBudget \in [Campaigns -> Nat]
        /\ reservations \in [Reservations -> Reservation \cup {NoReservation}]
    BY SolventMeans DEF Books, TypeOK, Covered
  <1>2. /\ availableBudget \in [Campaigns -> Int] /\ reservedBudget \in [Campaigns -> Int]
        /\ publisherBalances \in [Publishers -> Int]
    BY <1>1 DEF Covered
  <1> QED BY <1>1, <1>2, DebtTypes

\* What a step does to the debt, when it changes one campaign.
LEMMA CampaignChange ==
    ASSUME Books, NEW c \in Campaigns,
           availableBudget' \in [Campaigns -> Int], reservedBudget' \in [Campaigns -> Int],
           \A k \in Campaigns \ {c} : /\ availableBudget'[k] = availableBudget[k]
                                      /\ reservedBudget'[k] = reservedBudget[k]
    PROVE  campaignDebt(availableBudget', reservedBudget')
             = campaignDebt(availableBudget, reservedBudget)
                 - (availableBudget[c] + reservedBudget[c])
                 + (availableBudget'[c] + reservedBudget'[c])
  <1>1. availableBudget \in [Campaigns -> Int] /\ reservedBudget \in [Campaigns -> Int]
    BY BooksParts
  <1> QED BY <1>1, OneCampaign

\* fundCampaign: the purse of one campaign grows by what the contract receives.
LEMMA FundCovered ==
    ASSUME Books, NEW c \in Campaigns, NEW a \in Advertisers, NEW amount \in Amounts,
           NEW bps \in Holdbacks, fundCampaign(c, a, amount, bps)
    PROVE  Covered'
  <1>1. amount \in Nat
    BY EscrowAssumption
  <1>2. /\ availableBudget' = [availableBudget EXCEPT ![c] = @ + amount]
        /\ ausd[a] >= amount
        /\ ausd' = [ausd EXCEPT ![a] = @ - amount, ![Escrow] = @ + amount]
        /\ reservedBudget' = reservedBudget /\ publisherBalances' = publisherBalances
    BY DEF fundCampaign, transfer
  <1>3. a \in Accounts /\ Escrow \in Accounts /\ a # Escrow
    BY EscrowAssumption DEF Accounts
  <1>4. ausd' \in [Accounts -> Nat] /\ ausd'[Escrow] = ausd[Escrow] + amount
    BY <1>1, <1>2, <1>3, BooksParts DEF Covered
  <1>5. /\ availableBudget' \in [Campaigns -> Nat] /\ availableBudget' \in [Campaigns -> Int]
        /\ availableBudget'[c] = availableBudget[c] + amount
        /\ \A k \in Campaigns \ {c} : availableBudget'[k] = availableBudget[k]
    BY <1>1, <1>2, BooksParts DEF Covered
  <1>6. campaignDebt(availableBudget', reservedBudget')
          = campaignDebt(availableBudget, reservedBudget) + amount
    <2>1. campaignDebt(availableBudget', reservedBudget')
            = campaignDebt(availableBudget, reservedBudget)
                - (availableBudget[c] + reservedBudget[c])
                + (availableBudget'[c] + reservedBudget'[c])
      BY <1>2, <1>5, BooksParts, CampaignChange
    <2> QED BY <1>1, <1>2, <1>5, <2>1, BooksParts DEF Covered
  <1> QED BY <1>1, <1>2, <1>4, <1>5, <1>6, BooksParts DEF Covered

\* reserveBudget and releaseExpiredReservation move money within one campaign.
LEMMA MoveCovered ==
    ASSUME Books, NEW c \in Campaigns, NEW amount \in Int,
           availableBudget[c] + amount >= 0,
           availableBudget' = [availableBudget EXCEPT ![c] = @ + amount],
           reservedBudget' = [reservedBudget EXCEPT ![c] = @ - amount],
           publisherBalances' = publisherBalances, ausd' = ausd
    PROVE  Covered'
  <1>1. /\ availableBudget' \in [Campaigns -> Nat] /\ availableBudget' \in [Campaigns -> Int]
        /\ reservedBudget' \in [Campaigns -> Int]
        /\ availableBudget'[c] = availableBudget[c] + amount
        /\ reservedBudget'[c] = reservedBudget[c] - amount
        /\ \A k \in Campaigns \ {c} : /\ availableBudget'[k] = availableBudget[k]
                                      /\ reservedBudget'[k] = reservedBudget[k]
    BY BooksParts DEF Covered
  <1>2. campaignDebt(availableBudget', reservedBudget')
          = campaignDebt(availableBudget, reservedBudget)
              - (availableBudget[c] + reservedBudget[c])
              + (availableBudget'[c] + reservedBudget'[c])
    BY <1>1, BooksParts, CampaignChange
  <1>3. campaignDebt(availableBudget', reservedBudget')
          = campaignDebt(availableBudget, reservedBudget)
    BY <1>1, <1>2, BooksParts DEF Covered
  <1> QED BY <1>1, <1>3, BooksParts DEF Covered

\* settleReceipt: what a campaign no longer reserves, its publisher is owed.
LEMMA SettleCovered ==
    ASSUME Books, NEW r \in Reservations, settleReceipt(r)
    PROVE  Covered'
  <1> DEFINE c == reservations[r].campaignId
             p == reservations[r].publisher
             amount == reservations[r].amount
  <1>1. /\ reservations[r] \in Reservation
        /\ publisherBalances' = [publisherBalances EXCEPT ![p] = @ + amount]
    BY SettlePays, BooksInv
  <1>2. /\ reservedBudget' = [reservedBudget EXCEPT ![c] = @ - amount]
        /\ availableBudget' = availableBudget /\ ausd' = ausd
    BY DEF settleReceipt
  <1>3. c \in Campaigns /\ p \in Publishers /\ amount \in Nat
    BY <1>1 DEF Reservation
  <1> HIDE DEF c, p, amount
  <1>4. /\ reservedBudget' \in [Campaigns -> Int]
        /\ reservedBudget'[c] = reservedBudget[c] - amount
        /\ \A k \in Campaigns \ {c} : reservedBudget'[k] = reservedBudget[k]
    BY <1>2, <1>3, BooksParts
  <1>5. /\ publisherBalances' \in [Publishers -> Nat] /\ publisherBalances' \in [Publishers -> Int]
        /\ publisherBalances'[p] = publisherBalances[p] + amount
        /\ \A q \in Publishers \ {p} : publisherBalances'[q] = publisherBalances[q]
    BY <1>1, <1>3, BooksParts DEF Covered
  <1>6. campaignDebt(availableBudget', reservedBudget')
          = campaignDebt(availableBudget, reservedBudget) - amount
    <2>1. campaignDebt(availableBudget', reservedBudget')
            = campaignDebt(availableBudget, reservedBudget)
                - (availableBudget[c] + reservedBudget[c])
                + (availableBudget'[c] + reservedBudget'[c])
      BY <1>2, <1>3, <1>4, BooksParts, CampaignChange
    <2> QED BY <1>2, <1>3, <1>4, <2>1, BooksParts DEF Covered
  <1>7. publisherDebt(publisherBalances') = publisherDebt(publisherBalances) + amount
    <2>1. publisherDebt(publisherBalances')
            = publisherDebt(publisherBalances) - publisherBalances[p] + publisherBalances'[p]
      BY <1>3, <1>5, BooksParts, OnePublisher
    <2> QED BY <1>3, <1>5, <2>1, BooksParts DEF Covered
  <1> QED BY <1>2, <1>3, <1>5, <1>6, <1>7, BooksParts DEF Covered

\* withdrawPublisher: the contract pays what it owed one publisher.
LEMMA PublisherCovered ==
    ASSUME Books, NEW p \in Publishers, withdrawPublisher(p)
    PROVE  Covered'
  <1>1. /\ publisherBalances' = [publisherBalances EXCEPT ![p] = 0]
        /\ ausd[Escrow] >= publisherBalances[p]
        /\ ausd' = [ausd EXCEPT ![Escrow] = @ - publisherBalances[p],
                                ![p] = @ + publisherBalances[p]]
        /\ availableBudget' = availableBudget /\ reservedBudget' = reservedBudget
    BY DEF withdrawPublisher, transfer, campaignVars
  <1>2. p \in Accounts /\ Escrow \in Accounts /\ p # Escrow
    BY EscrowAssumption DEF Accounts
  <1>3. /\ publisherBalances[p] \in Nat
        /\ publisherBalances' \in [Publishers -> Nat] /\ publisherBalances' \in [Publishers -> Int]
        /\ publisherBalances'[p] = 0
        /\ \A q \in Publishers \ {p} : publisherBalances'[q] = publisherBalances[q]
    BY <1>1, BooksParts DEF Covered
  <1>4. ausd' \in [Accounts -> Nat] /\ ausd'[Escrow] = ausd[Escrow] - publisherBalances[p]
    BY <1>1, <1>2, <1>3, BooksParts DEF Covered
  <1>5. publisherDebt(publisherBalances') = publisherDebt(publisherBalances) - publisherBalances[p]
    <2>1. publisherDebt(publisherBalances')
            = publisherDebt(publisherBalances) - publisherBalances[p] + publisherBalances'[p]
      BY <1>3, BooksParts, OnePublisher
    <2> QED BY <1>3, <2>1, BooksParts
  <1> QED BY <1>1, <1>3, <1>4, <1>5, BooksParts DEF Covered

\* withdrawCampaignBudget: the owner gets the purse of one campaign.
LEMMA OwnerCovered ==
    ASSUME Books, NEW c \in Campaigns, withdrawCampaignBudget(c)
    PROVE  Covered'
  <1> DEFINE a == advertiser[c]
  <1>1. /\ availableBudget' = [availableBudget EXCEPT ![c] = 0]
        /\ ausd[Escrow] >= availableBudget[c]
        /\ ausd' = [ausd EXCEPT ![Escrow] = @ - availableBudget[c], ![a] = @ + availableBudget[c]]
        /\ reservedBudget' = reservedBudget /\ publisherBalances' = publisherBalances
    BY DEF withdrawCampaignBudget, transfer
  <1>2. a \in Advertisers
    BY DEF withdrawCampaignBudget, Books, TypeOK
  <1>3. a \in Accounts /\ Escrow \in Accounts /\ a # Escrow
    BY <1>2, EscrowAssumption DEF Accounts
  <1> HIDE DEF a
  <1>4. /\ availableBudget[c] \in Nat
        /\ availableBudget' \in [Campaigns -> Nat] /\ availableBudget' \in [Campaigns -> Int]
        /\ availableBudget'[c] = 0
        /\ \A k \in Campaigns \ {c} : availableBudget'[k] = availableBudget[k]
    BY <1>1, BooksParts DEF Covered
  <1>5. ausd' \in [Accounts -> Nat] /\ ausd'[Escrow] = ausd[Escrow] - availableBudget[c]
    BY <1>1, <1>3, <1>4, BooksParts DEF Covered
  <1>6. campaignDebt(availableBudget', reservedBudget')
          = campaignDebt(availableBudget, reservedBudget) - availableBudget[c]
    <2>1. campaignDebt(availableBudget', reservedBudget')
            = campaignDebt(availableBudget, reservedBudget)
                - (availableBudget[c] + reservedBudget[c])
                + (availableBudget'[c] + reservedBudget'[c])
      BY <1>1, <1>4, BooksParts, CampaignChange
    <2> QED BY <1>1, <1>4, <2>1, BooksParts DEF Covered
  <1> QED BY <1>1, <1>4, <1>5, <1>6, BooksParts DEF Covered

\* Books is inductive.
LEMMA BooksStep == Books /\ [Next]_vars => Books'
  <1> SUFFICES ASSUME Books, [Next]_vars PROVE Covered'
    BY CoveredBooks
  <1>1. ASSUME NEW c \in Campaigns, NEW a \in Advertisers, NEW amount \in Amounts,
               NEW bps \in Holdbacks, fundCampaign(c, a, amount, bps)
        PROVE  Covered'
    BY <1>1, FundCovered
  <1>2. ASSUME NEW r \in Reservations, NEW c \in Campaigns, NEW p \in Publishers,
               NEW amount \in Amounts, NEW ttl \in TTLs, reserveBudget(r, c, p, amount, ttl)
        PROVE  Covered'
    <2>1. /\ amount \in Nat /\ availableBudget[c] >= amount
          /\ availableBudget' = [availableBudget EXCEPT ![c] = @ - amount]
          /\ reservedBudget' = [reservedBudget EXCEPT ![c] = @ + amount]
          /\ publisherBalances' = publisherBalances /\ ausd' = ausd
      BY <1>2, EscrowAssumption DEF reserveBudget
    <2>2. /\ availableBudget[c] + (0 - amount) >= 0
          /\ availableBudget[c] + (0 - amount) = availableBudget[c] - amount
          /\ reservedBudget[c] - (0 - amount) = reservedBudget[c] + amount
      BY <2>1, BooksParts
    <2>3. 0 - amount \in Int
      BY <2>1
    <2>4. /\ availableBudget' = [availableBudget EXCEPT ![c] = availableBudget[c] + (0 - amount)]
          /\ reservedBudget' = [reservedBudget EXCEPT ![c] = reservedBudget[c] - (0 - amount)]
      BY <2>1, <2>2
    <2> QED BY <2>1, <2>2, <2>3, <2>4, MoveCovered
  <1>3. ASSUME NEW r \in Reservations, settleReceipt(r) PROVE Covered'
    BY <1>3, SettleCovered
  <1>4. ASSUME NEW r \in Reservations, releaseExpiredReservation(r) PROVE Covered'
    <2> DEFINE c == reservations[r].campaignId
               amount == reservations[r].amount
    <2>1. /\ availableBudget' = [availableBudget EXCEPT ![c] = @ + amount]
          /\ reservedBudget' = [reservedBudget EXCEPT ![c] = @ - amount]
          /\ publisherBalances' = publisherBalances /\ ausd' = ausd
          /\ reservations[r] # NoReservation
      BY <1>4 DEF releaseExpiredReservation
    <2>2. reservations[r] \in Reservation
      BY <2>1, BooksParts
    <2>3. c \in Campaigns /\ amount \in Nat
      BY <2>2 DEF Reservation
    <2> HIDE DEF c, amount
    <2>4. availableBudget[c] + amount >= 0 /\ amount \in Int
      BY <2>3, BooksParts DEF Covered
    <2> QED BY <2>1, <2>3, <2>4, MoveCovered
  <1>5. ASSUME NEW p \in Publishers, withdrawPublisher(p) PROVE Covered'
    BY <1>5, PublisherCovered
  <1>6. ASSUME NEW c \in Campaigns, withdrawCampaignBudget(c) PROVE Covered'
    BY <1>6, OwnerCovered
  <1>7. CASE (\E c \in Campaigns : pauseCampaign(c)) \/ Tick \/ UNCHANGED vars
    <2>1. UNCHANGED <<availableBudget, reservedBudget, publisherBalances, ausd>>
      BY <1>7 DEF pauseCampaign, Tick, vars, campaignVars
    <2> QED BY <2>1, BooksParts DEF Covered
  <1> QED BY <1>1, <1>2, <1>3, <1>4, <1>5, <1>6, <1>7 DEF Next

\* No subtraction of the contract goes below zero: a transaction that passes
\* its require statements does not revert on underflow.
THEOREM TypeCorrect == Spec => []TypeOK
  <1>1. Books => TypeOK
    BY DEF Books
  <1> QED BY BooksInit, BooksStep, <1>1, PTL DEF Spec

\* The AUSD that the contract holds is what it owes to campaigns and
\* publishers, so no withdrawal fails for lack of it.
THEOREM StaysSolvent == Spec => []Solvent
  <1>1. Books => Solvent
    BY DEF Books
  <1> QED BY BooksInit, BooksStep, <1>1, PTL DEF Spec

\* What withdrawPublisher and withdrawCampaignBudget may have to pay.
Payable ==
    /\ \A p \in Publishers : publisherBalances[p] <= ausd[Escrow]
    /\ \A c \in Campaigns : availableBudget[c] <= ausd[Escrow]

\* The transfer of a withdrawal succeeds: whoever withdraws first, the AUSD of
\* the contract covers every single balance.
THEOREM AlwaysPayable == Spec => []Payable
  <1>1. Books => Payable
    <2> SUFFICES ASSUME Books PROVE Payable
      OBVIOUS
    <2>1. \A c \in Campaigns : owedTo(availableBudget, reservedBudget)[c] \in Nat
      BY BooksParts DEF owedTo, Covered
    <2>2. \A p \in Publishers : publisherBalances[p] \in Nat
      BY BooksParts DEF Covered
    <2>3. /\ campaignDebt(availableBudget, reservedBudget) \in Nat
          /\ \A c \in Campaigns : owedTo(availableBudget, reservedBudget)[c]
                                    <= campaignDebt(availableBudget, reservedBudget)
      BY <2>1, SumNat, SumAtLeast, EscrowAssumption DEF campaignDebt
    <2>4. /\ publisherDebt(publisherBalances) \in Nat
          /\ \A p \in Publishers : publisherBalances[p] <= publisherDebt(publisherBalances)
      BY <2>2, SumNat, SumAtLeast, EscrowAssumption DEF publisherDebt
    <2>5. ausd[Escrow] = campaignDebt(availableBudget, reservedBudget)
                           + publisherDebt(publisherBalances)
      BY BooksParts DEF Covered
    <2>6. \A p \in Publishers : publisherBalances[p] <= ausd[Escrow]
      BY <2>2, <2>3, <2>4, <2>5
    <2>7. \A c \in Campaigns : availableBudget[c] <= ausd[Escrow]
      <3> SUFFICES ASSUME NEW c \in Campaigns PROVE availableBudget[c] <= ausd[Escrow]
        OBVIOUS
      <3>1. availableBudget[c] \in Nat /\ reservedBudget[c] \in Nat
        BY BooksParts DEF Covered
      <3>2. availableBudget[c] + reservedBudget[c] <= campaignDebt(availableBudget, reservedBudget)
        BY <2>3 DEF owedTo
      <3> QED BY <2>3, <2>4, <2>5, <3>1, <3>2
    <2> QED BY <2>6, <2>7 DEF Payable
  <1> QED BY BooksInit, BooksStep, <1>1, PTL DEF Spec
=============================================================================
