------------------------------ MODULE EscrowRPC ------------------------------
(***************************************************************************)
(* pkg/chainvm/escrow_rpc.go, the escrow of the chain VM, with the AUSD     *)
(* ledger of pkg/dex/engine_old.go.  Handlers take no lock and are modelled *)
(* as run one at a time, as a VM executes its calls; a handler that returns *)
(* an error changes nothing.                                                *)
(*                                                                          *)
(* VMState is not part of the repository: it is modelled as the maps the    *)
(* handlers read and write.  A campaign exists once it has an advertiser,   *)
(* and Active is then true for ever, since nothing clears it.  Amounts are  *)
(* decimals in the code; here they are integers in a unit that makes every  *)
(* holdback whole.  The delivery proof check of SettleReceipt only tests    *)
(* the length of the proof, and the hashes of pkg/settlement always pass.   *)
(***************************************************************************)
EXTENDS Integers, Sequences, FiniteSets, FiniteSetsExt, SequencesExt

CONSTANTS
    Campaigns, Reservations, Publishers, Advertisers,
    EscrowAccount,  \* the account "escrow"
    NoOne,          \* the advertiser of a campaign that does not exist
    NoReservation,  \* a reservation that does not exist
    Amounts,        \* amounts a call may pass
    Deals,          \* escrowAmounts a PG deal may come to, negative ones too
    TTLs,           \* TTLSeconds a call may pass
    Holdbacks,      \* HoldbackBps a call may pass
    Supply,         \* AUSD every advertiser starts with
    MaxBudget,      \* bound on the total budget of a campaign
    MaxDeals,       \* bound on the PG deals of a campaign
    MaxTime         \* bound on the clock

Accounts == Advertisers \cup {EscrowAccount}

ASSUME EscrowRPCAssumption ==
    /\ Amounts \subseteq Nat
    /\ Deals \subseteq Int
    /\ TTLs \subseteq Nat
    /\ Holdbacks \subseteq Nat
    /\ \A amount \in Amounts, bps \in Holdbacks : (amount * bps) % 10000 = 0
    /\ Supply \in Nat /\ MaxBudget \in Nat /\ MaxDeals \in Nat /\ MaxTime \in Nat
    /\ NoOne \notin Advertisers
    /\ EscrowAccount # NoOne
    /\ IsFiniteSet(Campaigns) /\ IsFiniteSet(Reservations) /\ IsFiniteSet(Publishers)

VARIABLES
    advertiser,         \* Campaign.Advertiser
    totalBudget,        \* Campaign.TotalBudget
    availableBudget,    \* Campaign.AvailableBudget
    reservedBudget,     \* Campaign.ReservedBudget
    spentBudget,        \* Campaign.SpentBudget
    holdbackBps,        \* Campaign.HoldbackBps
    guaranteedDeals,    \* Campaign.GuaranteedDeals, the EscrowAmount of each
    reservations,       \* VMState reservations
    publisherBalance,   \* VMState publisher balances
    pendingReleases,    \* VMState pending releases, summed by publisher
    balances,           \* dex.Engine.balances of AUSD
    now                 \* the clock

escrowVars ==
    <<advertiser, totalBudget, availableBudget, reservedBudget, spentBudget, holdbackBps,
      guaranteedDeals, reservations, publisherBalance, pendingReleases, balances, now>>

Reservation ==
    [campaignID : Campaigns, publisher : Publishers, amount : Nat \ {0},
     expires : Nat, settled : BOOLEAN]

ASSUME NoReservationAssumption ==
    /\ NoReservation \notin Reservation
    /\ NoReservation \notin [of : Campaigns, for : Publishers, amount : Nat \ {0}]

\* A holdback is at most a fifth.
BasisPoints == 0..2000

EscrowTypeOK ==
    /\ advertiser \in [Campaigns -> Advertisers \cup {NoOne}]
    /\ totalBudget \in [Campaigns -> Nat]
    /\ availableBudget \in [Campaigns -> Nat]
    /\ reservedBudget \in [Campaigns -> Nat]
    /\ spentBudget \in [Campaigns -> Nat]
    /\ holdbackBps \in [Campaigns -> BasisPoints]
    /\ guaranteedDeals \in [Campaigns -> Seq(Int)]
    /\ reservations \in [Reservations -> Reservation \cup {NoReservation}]
    /\ publisherBalance \in [Publishers -> Nat]
    /\ pendingReleases \in [Publishers -> Nat]
    /\ balances \in [Accounts -> Nat]
    /\ now \in Nat

EscrowInit ==
    /\ advertiser = [c \in Campaigns |-> NoOne]
    /\ totalBudget = [c \in Campaigns |-> 0]
    /\ availableBudget = [c \in Campaigns |-> 0]
    /\ reservedBudget = [c \in Campaigns |-> 0]
    /\ spentBudget = [c \in Campaigns |-> 0]
    /\ holdbackBps = [c \in Campaigns |-> 0]
    /\ guaranteedDeals = [c \in Campaigns |-> <<>>]
    /\ reservations = [r \in Reservations |-> NoReservation]
    /\ publisherBalance = [p \in Publishers |-> 0]
    /\ pendingReleases = [p \in Publishers |-> 0]
    /\ balances = [x \in Accounts |-> IF x = EscrowAccount THEN 0 ELSE Supply]
    /\ now = 0

-----------------------------------------------------------------------------

\* transferAUSD through Engine.TransferAsset.  The balance of the receiver is
\* read after that of the sender was written: a transfer to oneself changes
\* nothing.
transferAUSD(from, to, amount) ==
    /\ amount > 0
    /\ balances[from] >= amount
    /\ balances' = [balances EXCEPT ![from] = @ - amount, ![to] = @ + amount]

\* Mutant of FundCampaign: the budget grows although no AUSD moves.
FundCampaignUnpaid(c, a, amount, bps) ==
    /\ amount > 0
    /\ advertiser[c] \in {NoOne, a}
    /\ totalBudget[c] + amount <= MaxBudget
    /\ advertiser' = [advertiser EXCEPT ![c] = a]
    /\ totalBudget' = [totalBudget EXCEPT ![c] = @ + amount]
    /\ availableBudget' = [availableBudget EXCEPT ![c] = @ + amount]
    /\ UNCHANGED <<holdbackBps, reservedBudget, spentBudget, guaranteedDeals, reservations,
                   publisherBalance, pendingReleases, balances, now>>

\* FundCampaign: the first funder owns the campaign and fixes its holdback.
\* Advertisers are named by the caller, "escrow" is not refused.
FundCampaign(c, a, amount, bps) ==
    /\ amount > 0
    /\ bps <= 2000
    /\ advertiser[c] \in {NoOne, a}
    /\ totalBudget[c] + amount <= MaxBudget
    /\ transferAUSD(a, EscrowAccount, amount)
    /\ advertiser' = [advertiser EXCEPT ![c] = a]
    /\ holdbackBps' = [holdbackBps EXCEPT ![c] = IF advertiser[c] = NoOne THEN bps ELSE @]
    /\ totalBudget' = [totalBudget EXCEPT ![c] = @ + amount]
    /\ availableBudget' = [availableBudget EXCEPT ![c] = @ + amount]
    /\ UNCHANGED <<reservedBudget, spentBudget, guaranteedDeals, reservations,
                   publisherBalance, pendingReleases, now>>

\* ReserveBudget: an id is used once; the amount is locked until now + ttl.
ReserveBudget(r, c, p, amount, ttl) ==
    /\ ttl <= 10
    /\ amount > 0
    /\ reservations[r] = NoReservation
    /\ advertiser[c] # NoOne
    /\ availableBudget[c] >= amount
    /\ availableBudget' = [availableBudget EXCEPT ![c] = @ - amount]
    /\ reservedBudget' = [reservedBudget EXCEPT ![c] = @ + amount]
    /\ reservations' = [reservations EXCEPT ![r] =
         [campaignID |-> c, publisher |-> p, amount |-> amount,
          expires |-> now + ttl, settled |-> FALSE]]
    /\ UNCHANGED <<advertiser, totalBudget, spentBudget, holdbackBps, guaranteedDeals,
                   publisherBalance, pendingReleases, balances, now>>

\* Mutant of CanSettle: a settled reservation passes.
CanSettleAgain(r) ==
    /\ reservations[r] # NoReservation
    /\ now <= reservations[r].expires

\* The checks of SettleReceipt.
CanSettle(r) ==
    /\ reservations[r] # NoReservation
    /\ ~ reservations[r].settled
    /\ now <= reservations[r].expires

\* Mutant of SettleReceipt: the holdback is not scheduled for release.
SettleReceiptHoldbackLost(r) ==
    /\ CanSettle(r)
    /\ LET c == reservations[r].campaignID
           p == reservations[r].publisher
           amount == reservations[r].amount
           holdback == (amount * holdbackBps[c]) \div 10000
       IN /\ reservedBudget' = [reservedBudget EXCEPT ![c] = @ - amount]
          /\ spentBudget' = [spentBudget EXCEPT ![c] = @ + amount]
          /\ publisherBalance' = [publisherBalance EXCEPT ![p] = @ + (amount - holdback)]
    /\ reservations' = [reservations EXCEPT ![r].settled = TRUE]
    /\ UNCHANGED <<advertiser, totalBudget, availableBudget, holdbackBps, guaranteedDeals,
                   pendingReleases, balances, now>>

\* SettleReceipt: the publisher gets the amount less the holdback, which is
\* scheduled for release.
SettleReceipt(r) ==
    /\ CanSettle(r)
    /\ LET c == reservations[r].campaignID
           p == reservations[r].publisher
           amount == reservations[r].amount
           holdback == (amount * holdbackBps[c]) \div 10000
       IN /\ reservedBudget' = [reservedBudget EXCEPT ![c] = @ - amount]
          /\ spentBudget' = [spentBudget EXCEPT ![c] = @ + amount]
          /\ publisherBalance' = [publisherBalance EXCEPT ![p] = @ + (amount - holdback)]
          /\ pendingReleases' = [pendingReleases EXCEPT ![p] = @ + holdback]
    /\ reservations' = [reservations EXCEPT ![r].settled = TRUE]
    /\ UNCHANGED <<advertiser, totalBudget, availableBudget, holdbackBps, guaranteedDeals,
                   balances, now>>

\* CreatePGDeal: cost and penalty buffer of the deal leave the available
\* budget.  Impressions (through int64), CPM and penalty rate are not checked
\* for their sign, and a deal of negative amount raises the budget.
CreatePGDeal(c, escrowAmount) ==
    /\ advertiser[c] # NoOne
    /\ Len(guaranteedDeals[c]) < MaxDeals
    /\ availableBudget[c] >= escrowAmount
    /\ availableBudget' = [availableBudget EXCEPT ![c] = @ - escrowAmount]
    /\ guaranteedDeals' = [guaranteedDeals EXCEPT ![c] = Append(@, escrowAmount)]
    /\ UNCHANGED <<advertiser, totalBudget, reservedBudget, spentBudget, holdbackBps,
                   reservations, publisherBalance, pendingReleases, balances, now>>

Tick ==
    /\ now < MaxTime
    /\ now' = now + 1
    /\ UNCHANGED <<advertiser, totalBudget, availableBudget, reservedBudget, spentBudget,
                   holdbackBps, guaranteedDeals, reservations, publisherBalance,
                   pendingReleases, balances>>

\* What advertisers may call, and what the winner of an impression may.
AdvertiserCalls ==
    \/ \E c \in Campaigns, a \in Advertisers, amount \in Amounts, bps \in Holdbacks :
         FundCampaign(c, a, amount, bps)
    \/ \E c \in Campaigns, escrowAmount \in Deals : CreatePGDeal(c, escrowAmount)

ReserveCalls ==
    \E r \in Reservations, c \in Campaigns, p \in Publishers, amount \in Amounts, ttl \in TTLs :
      ReserveBudget(r, c, p, amount, ttl)

-----------------------------------------------------------------------------
(* Properties *)

Settled(r) == reservations[r] # NoReservation /\ reservations[r].settled
Open(r) == reservations[r] # NoReservation /\ ~ reservations[r].settled
AmountOf(R) ==
    SumFunctionOnSet([r \in Reservations |-> IF r \in R THEN reservations[r].amount ELSE 0],
                     Reservations)

\* Reserved and spent are what the reservations say, coin by coin.
EveryCoinHasAReservation ==
    \A c \in Campaigns :
      /\ reservedBudget[c] = AmountOf({r \in Reservations : Open(r) /\ reservations[r].campaignID = c})
      /\ spentBudget[c] = AmountOf({r \in Reservations : Settled(r) /\ reservations[r].campaignID = c})

\* A publisher is owed, now or after the holdback, exactly what its settled
\* reservations are worth: no receipt pays twice and no holdback is lost.
PublishersPaidInFull ==
    \A p \in Publishers :
      publisherBalance[p] + pendingReleases[p]
        = AmountOf({r \in Reservations : Settled(r) /\ reservations[r].publisher = p})

\* No campaign was funded from the escrow account itself and no deal has a
\* negative amount.
NothingFromNowhere ==
    \A c \in Campaigns :
      /\ advertiser[c] # EscrowAccount
      /\ \A k \in 1..Len(guaranteedDeals[c]) : guaranteedDeals[c][k] >= 0

\* The escrow account holds what advertisers other than itself have funded,
\* which covers all that publishers are owed unless an advertiser was the
\* escrow account or a deal had a negative amount.
EscrowBacked ==
    /\ balances[EscrowAccount] =
         SumFunctionOnSet([c \in Campaigns |->
                             IF advertiser[c] = EscrowAccount THEN 0 ELSE totalBudget[c]],
                          Campaigns)
    /\ NothingFromNowhere =>
         balances[EscrowAccount] >=
           SumFunctionOnSet([p \in Publishers |-> publisherBalance[p] + pendingReleases[p]],
                            Publishers)

\* The handlers too are an escrow as IdealEscrow promises one: a deal sets
\* money aside (one of negative amount pays in), and a holdback is owed as the
\* rest of the payment is.
holds ==
    [r \in Reservations |->
       IF Open(r)
         THEN [of |-> reservations[r].campaignID, for |-> reservations[r].publisher,
               amount |-> reservations[r].amount]
         ELSE NoReservation]
Ideal == INSTANCE IdealEscrow
           WITH Payees <- Publishers, Nothing <- NoReservation,
                purse <- availableBudget, hold <- holds,
                owed <- [p \in Publishers |-> publisherBalance[p] + pendingReleases[p]],
                paid <- {r \in Reservations : Settled(r)}

\* Whatever the settlement layer calls and however often, the handlers move
\* money as an ideal escrow does.
ImplementsIdealEscrow == Ideal!Spec
=============================================================================
