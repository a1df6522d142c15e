---------------------------- MODULE EscrowManager ----------------------------
(***************************************************************************)
(* contracts/EscrowManager.sol: AUSD escrow for campaigns.  Every external  *)
(* function is one transaction and one action; a failed require leaves the  *)
(* state alone and is a conjunct of the guard.  Solidity 0.8 reverts on     *)
(* underflow, so a subtraction here is plain and TypeOK says that it never  *)
(* goes below zero: a transaction that passes its requires does not revert. *)
(*                                                                          *)
(* AUSD is external: a ledger of balances whose transfers succeed when the  *)
(* payer has the amount.  advertiserRefunds is read and written by nothing, *)
(* and the creation time of a campaign only by the getter of the mapping.   *)
(***************************************************************************)
EXTENDS Integers, FiniteSets, FiniteSetsExt

CONSTANTS
    Campaigns, Reservations, Publishers, Advertisers,
    Escrow,         \* the address of the contract
    NoOne,          \* address(0)
    NoReservation,  \* an entry of reservations that was never written, or deleted
    Amounts,        \* amounts a call may pass
    TTLs,           \* ttlSeconds a call may pass
    Holdbacks,      \* holdbackBps a call may pass
    Supply,         \* AUSD every advertiser starts with
    MaxTime         \* bound on block.timestamp

Accounts == Publishers \cup Advertisers \cup {Escrow}

ASSUME EscrowAssumption ==
    /\ Amounts \subseteq Nat
    /\ TTLs \subseteq Nat
    /\ Holdbacks \subseteq Nat
    /\ Supply \in Nat
    /\ MaxTime \in Nat
    /\ NoOne \notin Advertisers
    /\ Escrow \notin Publishers \cup Advertisers
    /\ IsFiniteSet(Campaigns) /\ IsFiniteSet(Reservations) /\ IsFiniteSet(Publishers)

VARIABLES
    advertiser,         \* Campaign.advertiser
    totalBudget,        \* Campaign.totalBudget
    availableBudget,    \* Campaign.availableBudget
    reservedBudget,     \* Campaign.reservedBudget
    spentBudget,        \* Campaign.spentBudget
    active,             \* Campaign.active
    holdbackBps,        \* Campaign.holdbackBps
    reservations,       \* the reservations mapping
    publisherBalances,  \* the publisherBalances mapping
    ausd,               \* balances of the AUSD token
    now                 \* block.timestamp

campaignVars ==
    <<advertiser, totalBudget, availableBudget, reservedBudget, spentBudget, active, holdbackBps>>
vars == <<campaignVars, reservations, publisherBalances, ausd, now>>

Reservation ==
    [campaignId : Campaigns, publisher : Publishers, amount : Nat \ {0},
     expires : Nat, settled : BOOLEAN]

ASSUME NoReservationAssumption ==
    /\ NoReservation \notin Reservation
    /\ NoReservation \notin [of : Campaigns, for : Publishers, amount : Nat \ {0}]

\* A holdback is at most a fifth.
BasisPoints == 0..2000

TypeOK ==
    /\ advertiser \in [Campaigns -> Advertisers \cup {NoOne}]
    /\ totalBudget \in [Campaigns -> Nat]
    /\ availableBudget \in [Campaigns -> Nat]
    /\ reservedBudget \in [Campaigns -> Nat]
    /\ spentBudget \in [Campaigns -> Nat]
    /\ active \in [Campaigns -> BOOLEAN]
    /\ holdbackBps \in [Campaigns -> BasisPoints]
    /\ reservations \in [Reservations -> Reservation \cup {NoReservation}]
    /\ publisherBalances \in [Publishers -> Nat]
    /\ ausd \in [Accounts -> Nat]
    /\ now \in Nat

Init ==
    /\ advertiser = [c \in Campaigns |-> NoOne]
    /\ totalBudget = [c \in Campaigns |-> 0]
    /\ availableBudget = [c \in Campaigns |-> 0]
    /\ reservedBudget = [c \in Campaigns |-> 0]
    /\ spentBudget = [c \in Campaigns |-> 0]
    /\ active = [c \in Campaigns |-> FALSE]
    /\ holdbackBps = [c \in Campaigns |-> 0]
    /\ reservations = [r \in Reservations |-> NoReservation]
    /\ publisherBalances = [p \in Publishers |-> 0]
    /\ ausd = [x \in Accounts |-> IF x \in Advertisers THEN Supply ELSE 0]
    /\ now = 0

-----------------------------------------------------------------------------

\* AUSD.transfer and AUSD.transferFrom (external).
transfer(from, to, amount) ==
    /\ ausd[from] >= amount
    /\ ausd' = [ausd EXCEPT ![from] = @ - amount, ![to] = @ + amount]

\* fundCampaign: the first caller becomes the owner and fixes the holdback.
fundCampaign(c, sender, amount, bps) ==
    /\ amount > 0
    /\ bps <= 2000
    /\ IF advertiser[c] = NoOne
         THEN /\ advertiser' = [advertiser EXCEPT ![c] = sender]
              /\ holdbackBps' = [holdbackBps EXCEPT ![c] = bps]
              /\ active' = [active EXCEPT ![c] = TRUE]
         ELSE /\ advertiser[c] = sender
              /\ UNCHANGED <<advertiser, holdbackBps, active>>
    /\ transfer(sender, Escrow, amount)
    /\ totalBudget' = [totalBudget EXCEPT ![c] = @ + amount]
    /\ availableBudget' = [availableBudget EXCEPT ![c] = @ + amount]
    /\ UNCHANGED <<reservedBudget, spentBudget, reservations, publisherBalances, now>>

\* reserveBudget: lock an amount until now + ttl.
reserveBudget(r, c, p, amount, ttl) ==
    /\ ttl <= 10
    /\ amount > 0
    /\ reservations[r] = NoReservation
    /\ active[c]
    /\ availableBudget[c] >= amount
    /\ reservations' = [reservations EXCEPT ![r] =
         [campaignId |-> c, publisher |-> p, amount |-> amount,
          expires |-> now + ttl, settled |-> FALSE]]
    /\ availableBudget' = [availableBudget EXCEPT ![c] = @ - amount]
    /\ reservedBudget' = [reservedBudget EXCEPT ![c] = @ + amount]
    /\ UNCHANGED <<advertiser, totalBudget, spentBudget, active, holdbackBps,
                   publisherBalances, ausd, now>>

\* Mutant of settleReceipt: the settled flag is not set.
settleReceiptNotMarked(r) ==
    /\ reservations[r] # NoReservation
    /\ now <= reservations[r].expires
    /\ LET c == reservations[r].campaignId
           p == reservations[r].publisher
           amount == reservations[r].amount
       IN /\ reservedBudget' = [reservedBudget EXCEPT ![c] = @ - amount]
          /\ spentBudget' = [spentBudget EXCEPT ![c] = @ + amount]
          /\ publisherBalances' = [publisherBalances EXCEPT ![p] = @ + amount]
    /\ UNCHANGED <<advertiser, totalBudget, availableBudget, active, holdbackBps,
                   reservations, ausd, now>>

\* Mutant of settleReceipt: the holdback is kept, owed to nobody.
settleReceiptHoldbackLost(r) ==
    /\ reservations[r] # NoReservation
    /\ ~ reservations[r].settled
    /\ now <= reservations[r].expires
    /\ LET c == reservations[r].campaignId
           p == reservations[r].publisher
           amount == reservations[r].amount
       IN /\ reservedBudget' = [reservedBudget EXCEPT ![c] = @ - amount]
          /\ spentBudget' = [spentBudget EXCEPT ![c] = @ + amount]
          /\ publisherBalances' = [publisherBalances EXCEPT ![p] =
               @ + (amount * (10000 - holdbackBps[c])) \div 10000]
    /\ reservations' = [reservations EXCEPT ![r].settled = TRUE]
    /\ UNCHANGED <<advertiser, totalBudget, availableBudget, active, holdbackBps, ausd, now>>

\* settleReceipt: until the reservation expires, the reserved amount becomes
\* spent; the immediate part and the holdback both go to the publisher.
settleReceipt(r) ==
    /\ reservations[r] # NoReservation
    /\ ~ reservations[r].settled
    /\ now <= reservations[r].expires
    /\ LET c == reservations[r].campaignId
           p == reservations[r].publisher
           amount == reservations[r].amount
           immediate == (amount * (10000 - holdbackBps[c])) \div 10000
           holdback == amount - immediate
       IN /\ reservedBudget' = [reservedBudget EXCEPT ![c] = @ - amount]
          /\ spentBudget' = [spentBudget EXCEPT ![c] = @ + amount]
          /\ publisherBalances' = [publisherBalances EXCEPT ![p] = @ + immediate + holdback]
    /\ reservations' = [reservations EXCEPT ![r].settled = TRUE]
    /\ UNCHANGED <<advertiser, totalBudget, availableBudget, active, holdbackBps, ausd, now>>

\* Mutants of releaseExpiredReservation: settled reservations are released
\* too; and the entry is not deleted.
releaseSettledToo(r) ==
    /\ reservations[r] # NoReservation
    /\ now > reservations[r].expires
    /\ reservations' = [reservations EXCEPT ![r] = NoReservation]
    /\ UNCHANGED <<campaignVars, publisherBalances, ausd, now>>

releaseNotDeleted(r) ==
    /\ reservations[r] # NoReservation
    /\ ~ reservations[r].settled
    /\ now > reservations[r].expires
    /\ LET c == reservations[r].campaignId
           amount == reservations[r].amount
       IN /\ availableBudget' = [availableBudget EXCEPT ![c] = @ + amount]
          /\ reservedBudget' = [reservedBudget EXCEPT ![c] = @ - amount]
    /\ UNCHANGED <<advertiser, totalBudget, spentBudget, active, holdbackBps,
                   reservations, publisherBalances, ausd, now>>

\* Mutant of releaseExpiredReservation: only while the campaign is active.
releaseOnlyActive(r) ==
    /\ reservations[r] # NoReservation
    /\ ~ reservations[r].settled
    /\ now > reservations[r].expires
    /\ LET c == reservations[r].campaignId
           amount == reservations[r].amount
       IN /\ active[c]
          /\ availableBudget' = [availableBudget EXCEPT ![c] = @ + amount]
          /\ reservedBudget' = [reservedBudget EXCEPT ![c] = @ - amount]
    /\ reservations' = [reservations EXCEPT ![r] = NoReservation]
    /\ UNCHANGED <<advertiser, totalBudget, spentBudget, active, holdbackBps,
                   publisherBalances, ausd, now>>

\* releaseExpiredReservation: the amount is available again, the entry is deleted.
releaseExpiredReservation(r) ==
    /\ reservations[r] # NoReservation
    /\ ~ reservations[r].settled
    /\ now > reservations[r].expires
    /\ LET c == reservations[r].campaignId
           amount == reservations[r].amount
       IN /\ availableBudget' = [availableBudget EXCEPT ![c] = @ + amount]
          /\ reservedBudget' = [reservedBudget EXCEPT ![c] = @ - amount]
    /\ reservations' = [reservations EXCEPT ![r] = NoReservation]
    /\ UNCHANGED <<advertiser, totalBudget, spentBudget, active, holdbackBps,
                   publisherBalances, ausd, now>>

\* withdrawPublisher: the whole balance of the caller.
withdrawPublisher(p) ==
    /\ publisherBalances[p] > 0
    /\ publisherBalances' = [publisherBalances EXCEPT ![p] = 0]
    /\ transfer(Escrow, p, publisherBalances[p])
    /\ UNCHANGED <<campaignVars, reservations, now>>

\* Mutant of withdrawCampaignBudget: the total is left alone.
withdrawKeepsTotal(c) ==
    /\ advertiser[c] # NoOne
    /\ availableBudget[c] > 0
    /\ availableBudget' = [availableBudget EXCEPT ![c] = 0]
    /\ transfer(Escrow, advertiser[c], availableBudget[c])
    /\ UNCHANGED <<advertiser, totalBudget, reservedBudget, spentBudget, active, holdbackBps,
                   reservations, publisherBalances, now>>

\* withdrawCampaignBudget: everything available, by the owner.
withdrawCampaignBudget(c) ==
    /\ advertiser[c] # NoOne
    /\ availableBudget[c] > 0
    /\ availableBudget' = [availableBudget EXCEPT ![c] = 0]
    /\ totalBudget' = [totalBudget EXCEPT ![c] = @ - availableBudget[c]]
    /\ transfer(Escrow, advertiser[c], availableBudget[c])
    /\ UNCHANGED <<advertiser, reservedBudget, spentBudget, active, holdbackBps,
                   reservations, publisherBalances, now>>

\* pauseCampaign, by the owner; nothing sets active again.
pauseCampaign(c) ==
    /\ advertiser[c] # NoOne
    /\ active' = [active EXCEPT ![c] = FALSE]
    /\ UNCHANGED <<advertiser, totalBudget, availableBudget, reservedBudget, spentBudget,
                   holdbackBps, reservations, publisherBalances, ausd, now>>

\* The next block is later.
Tick ==
    /\ now < MaxTime
    /\ now' = now + 1
    /\ UNCHANGED <<campaignVars, reservations, publisherBalances, ausd>>

Next ==
    \/ \E c \in Campaigns, a \in Advertisers, amount \in Amounts, bps \in Holdbacks :
         fundCampaign(c, a, amount, bps)
    \/ \E r \in Reservations, c \in Campaigns, p \in Publishers, amount \in Amounts, ttl \in TTLs :
         /\ now + ttl < MaxTime         \* bound: every reservation can expire
         /\ reserveBudget(r, c, p, amount, ttl)
    \/ \E r \in Reservations : settleReceipt(r)
    \/ \E r \in Reservations : releaseExpiredReservation(r)
    \/ \E p \in Publishers : withdrawPublisher(p)
    \/ \E c \in Campaigns : withdrawCampaignBudget(c)
    \/ \E c \in Campaigns : pauseCampaign(c)
    \/ Tick

Spec == Init /\ [][Next]_vars

\* Time passes, somebody calls releaseExpiredReservation for what has expired
\* and an owner withdraws the budget of a paused campaign.
FairSpec ==
    /\ Spec
    /\ WF_vars(Tick)
    /\ \A r \in Reservations : WF_vars(releaseExpiredReservation(r))
    /\ \A c \in Campaigns : WF_vars(~ active[c] /\ withdrawCampaignBudget(c))

-----------------------------------------------------------------------------
(* Properties *)

\* The reservations of campaign c that are locked, and those that were paid.
Live(c) ==
    {r \in Reservations : /\ reservations[r] # NoReservation
                          /\ ~ reservations[r].settled
                          /\ reservations[r].campaignId = c}
Settled(c) ==
    {r \in Reservations : /\ reservations[r] # NoReservation
                          /\ reservations[r].settled
                          /\ reservations[r].campaignId = c}

\* What the reservations in R are worth together.
AmountOf(R) ==
    SumFunctionOnSet([r \in Reservations |-> IF r \in R THEN reservations[r].amount ELSE 0],
                     Reservations)

\* What was paid in and not withdrawn is available, reserved or spent,
\* through any sequence of reservations, expiries, releases and withdrawals.
BudgetAccounted ==
    \A c \in Campaigns :
      totalBudget[c] = availableBudget[c] + reservedBudget[c] + spentBudget[c]

\* Every reserved coin belongs to exactly one open reservation and every spent
\* coin to exactly one settled one, though ids are used again after a release.
EveryCoinHasAReservation ==
    \A c \in Campaigns : /\ reservedBudget[c] = AmountOf(Live(c))
                         /\ spentBudget[c] = AmountOf(Settled(c))

\* The contract holds exactly what it owes to campaigns and publishers: a
\* withdrawal never fails for lack of AUSD.
Solvent ==
    ausd[Escrow] = SumFunctionOnSet([c \in Campaigns |-> availableBudget[c] + reservedBudget[c]],
                                    Campaigns)
                     + SumFunctionOnSet(publisherBalances, Publishers)

\* A settled reservation stays: its id is never reserved, paid or released again.
SettledForever ==
    [][\A r \in Reservations :
         (reservations[r] # NoReservation /\ reservations[r].settled)
           => reservations'[r] = reservations[r]]_vars

\* No budget stays locked: a reservation is settled or released, and the
\* owner of a paused campaign gets everything unspent back.
NothingStaysLocked ==
    /\ \A r \in Reservations :
         (reservations[r] # NoReservation) ~>
           (reservations[r] = NoReservation \/ reservations[r].settled)
    /\ \A c \in Campaigns :
         (advertiser[c] # NoOne /\ ~ active[c]) ~>
           (availableBudget[c] = 0 /\ reservedBudget[c] = 0)

\* The contract is an escrow as IdealEscrow promises one.
Holding(r) == reservations[r] # NoReservation /\ ~ reservations[r].settled
holds ==
    [r \in Reservations |->
       IF Holding(r)
         THEN [of |-> reservations[r].campaignId, for |-> reservations[r].publisher,
               amount |-> reservations[r].amount]
         ELSE NoReservation]
Ideal == INSTANCE IdealEscrow
           WITH Payees <- Publishers, Nothing <- NoReservation,
                purse <- availableBudget, hold <- holds, owed <- publisherBalances,
                paid <- {r \in Reservations : reservations[r] # NoReservation
                                                 /\ reservations[r].settled}

\* Every transaction moves money as an ideal escrow does: what a reservation
\* locks is paid once and whole to its publisher or goes back to its campaign.
ImplementsIdealEscrow == Ideal!Spec
=============================================================================
