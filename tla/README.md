# ADX in TLA+

Specifications of the parts of ADX (a CTV ad exchange with a
privacy-preserving settlement network) whose correctness depends on the order
of events: consensus, auctions, matching, bid collection, escrow and
settlement. Each module is a translation of one source file or of two that
work together; the comment at its head says what was left out and why.

Run a check with `tlc -config MCBlocklace.cfg MCBlocklace`, a proof with
`tlapm BlocklaceProofs.tla`. `PROJECT.json` maps every definition to the source
lines it stands for, and lists the runs, the mutants that each property is
known to catch, the hazards of the code and the theorems.

## 1. The system

| Component | Source | State | Operations | Module |
|---|---|---|---|---|
| Blocklace DAG, cordial miner | `blocklace/dag.go` | vertices with rounds, tips, per-author round index, Byzantine marks, delivered sequence | `ProposeHeader`, `ReceiveHeader`, `AddHeader` | `Blocklace` |
| Escrow contract | `contracts/EscrowManager.sol` | campaign budgets, reservations with expiry, publisher balances, AUSD | 7 external functions | `EscrowManager` |
| Escrow RPC of the chain VM | `pkg/chainvm/escrow_rpc.go`, ledger in `pkg/dex/engine_old.go` | the same in Go, guaranteed deals, pending releases | `FundCampaign`, `ReserveBudget`, `SettleReceipt`, `CreatePGDeal` | `EscrowRPC` |
| AUSD settlement, delivery oracle | `pkg/settlement/ausd_settlement.go` | delivery proofs by bucket | `ProcessImpressionWin`, `SubmitDeliveryProof`, `BatchSettlement` | `AUSDSettlement` |
| Sealed-bid auction | `auction/auction.go` | bids, outcome, header | `SubmitBid`, `RunAuction`, `CreateAuctionHeader` | `Auction` |
| TEE enclave | `tee/enclave.go` | the sealed auction | `RunAuction` | `Enclave` |
| Budget manager | `settlement/budget.go` | budgets, pending deductions, receipts, commitments | `SetBudget`, `DeductBudget`, `CreateSettlement` | `BudgetManager` |
| Matching engine | `pkg/dex/engine_pure_go.go` | order books, volume | `AddOrder`, `CancelOrder`, `RunBatchAuction` | `MatchingEngine` |
| RTB exchange | `pkg/rtb/openrtb.go` | per-request goroutines and channels, DSP locks, rate limiters, metrics | `BidRequest`, `Allow`, `SendBidRequest`, `collectBids` | `RTBExchange` |
| Halo2 auction | `auction/halo2_auction.go`, `proof/halo2/circuits.go` | stored proofs, on top of the auction | `RunAuctionWithHalo2`, `VerifyHalo2Proof`, `Prove`, `Verify` | `Halo2Auction`, `Halo2Circuits` |
| Halo2 budget and frequency managers | `auction/halo2_auction.go` | budgets, counters, circuits by cap | `DeductBudgetWithProof`, `CheckAndIncrementWithProof` | `Halo2Managers` |
| Frequency capping | `core/frequency.go` | counters per device and campaign, epoch root, token buckets | `CheckAndIncrementCounter`, `IssueTokens`, `RedeemPrivacyToken` | `FrequencyManager` |
| Data availability, HPKE | `da/storage.go`, `crypto/hpke.go` | blobs by reference, their slices, expiry | `StoreBlob`, `RetrieveBlob`, `EncryptAndStore`, `Seal`, `Open` | `DataAvailability`, `HPKE` |
| Ad slot RPC | `pkg/chainvm/adslot_rpc.go` | slots, tokens, orders, pools | `CreateAdSlot`, `PlaceOrder`, `RevealBid`, `CreateAdMM_Pool`, `SwapAdMM`, `RecordDelivery` | `AdSlots` |
| Analytics | `pkg/analytics/tracker.go` | atomic counters, publisher and miner ledgers, event stream, time buckets | `TrackRequest`, `TrackResponse`, `TrackImpression`, `TrackPodMetrics` | `Analytics` |
| SFT contract, storage backends, home miner, clients, native engines, VAST, Publica, FHE, attestation, `proof/circuits.go`, DSP protocols | see section 6 | | | not modelled |

How the parts meet. A winning bid (exchange, auction) becomes a reservation of
an advertiser's budget (settlement calls the escrow RPC, which moves AUSD on
the DEX ledger); delivery proofs turn the reservation into money owed to the
publisher. `EscrowManager.sol` is the contract form of the same escrow.
Auctions, budget changes and settlements are published as headers; miners
exchange headers and order them in the Blocklace. The model composes what the
code composes: `AUSDSettlement` extends `EscrowRPC` and calls its operations,
`Halo2Auction` extends `Auction` and `Halo2Circuits` as the Go type embeds one
and holds the other, `DataAvailability` extends `HPKE`, and `FrequencyCapping`
runs the two frequency managers in lockstep so that they can be compared.
`GoMaps` has the maps of Go that these keep.
`Enclave`, the second implementation of the second-price rule, uses the reference
of `Auction`.
`IdealEscrow` is the abstract specification of an escrow; the contract and the
Go handlers are both shown to implement it.

What is hard here, and what each part has to get right:

- *Blocklace*: headers are lost, repeated and reordered, miners propose from a
  snapshot of the tips while they receive and propose again, some authors
  equivocate or reuse identifiers. Only what rests on such an identifier may be
  judged differently, miners agree on rounds, delivery is causal.
- *Escrow*: settlement races expiry, ids are reused, campaigns are paused and
  drained with reservations open. Every coin is in exactly one place, debts are
  covered, nothing is locked for ever.
- *Settlement*: proofs are repeated, late and batched. A delivery is paid
  at most once, and nothing but expiry loses it.
- *Auction*: bids are accepted while the auction may be run. The outcome is a
  second-price outcome, and both implementations agree.
- *Budgets*: budgets are replaced while deductions are pending, counters are
  `uint64`. Budgets balance, proofs chain, deductions are settled once.
- *Matching*: partial fills over several auctions, dropped matches. No unit
  trades twice, both sides balance.
- *Proofs*: an outcome is decided before it is proved, words are read as signed
  ones, digests lose leading zeros. What is announced is proved, and the state
  of an account is what its chain of proofs shows.
- *Frequency capping*: caps change between checks, tokens are replaced,
  presented twice and overwritten in place. Each is redeemed once, and the
  epoch root commits to the counts.
- *Stored data*: callers keep the slices they stored. A read is what was
  committed to, and exactly the recipients of an envelope open it.
- *Ad slots*: handlers write before calls that may fail, counts are `uint64`,
  a pool decays with the clock. Bids reach the floor, pools are not overdrawn.
- *Analytics*: rates are computed from separate loads and stored later. They
  stay possible rates, and separate ledgers agree when nothing runs.
- *Exchange*: goroutines that outlive their request, shared locks and rate
  limiters, a `select` with several ready cases. The best bid wins, the rate is
  kept, everything ends.

## 2. Modules and runs

An `MC…` module instantiates a specification for TLC; its `.cfg` names the
bounds. Definitions whose comment begins with "Mutant of" are wrong variants of
an operation, used only to see that a property catches the mistake. The type
invariants are not repeated in the `.cfg` files: those of the modules with
proofs are theorems (section 3), the others hold in the same instances.

### Blocklace

Each honest miner has its own DAG. DAG methods hold the DAG's mutex and are one
step each; `ProposeHeader` is `ProposeGetTips` then `ProposeAddHeader`, and
`ReceiveHeader` is `ReceiveCheck` then `ReceiveAdd`, with no lock in between and
any number of each under way at one miner. The network is the pool `sent`: any
header in it may reach any miner at any time, again, or never. A Byzantine
author may broadcast any header under its own name and under any identifier,
also one that was sent with another content or by another node: the code never
compares an ID with what it names, so each DAG has its own content for it.

Assumed: an honest miner draws identifiers nobody has used (they are random),
nobody guesses one before it is sent, and headers are handed over under their
author's name. `Height` is not modelled: nothing reads it.

- `MCBlocklace` (2 honest miners with 2 proposals each at a time, 1 Byzantine
  author, 3 identifiers, one handler each): `HonestNeverAccused` (an honest
  miner is accused only if a header of its own rests on an identifier that was
  sent in two versions, or, by itself alone, after two overlapping proposals),
  `RoundAgreement` (rounds agree on whatever rests on no such identifier) and
  `DeliveredInCausalOrder`. Three headers are enough for an equivocation with an
  honest header on top, for an identifier reused under an honest header, and for
  a snapshot that is stale when it is used. The history variable `raced` has the
  miners whose proposals have overlapped.
- `MCBlocklaceLive` (no Byzantine author): `HonestHeadersSpread`. Fairness: a
  handler that holds a header goes on (weak), and a header a miner could add is
  handed to it again and again (strong). The second is a demand on the
  transport: `AddHeader` drops a header whose predecessors are missing, keeps
  no orphans and asks nobody. It is checked without equivocators, because with
  them it is false: a miner that dropped one half of a fork refuses every
  header on top of it for ever, though the comment at `dag.go:183` says that
  equivocating vertices are included.
- `MCBlocklaceHandlers` (1 miner, 2 handlers) expects a violation of
  `Quarantine`: the check of the sender and the addition are two critical
  sections, so the header of a marked author is added although the log says
  that such headers are ignored.

### IdealEscrow

What an escrow promises, without totals, clock or holdback: money is in a
purse, held for one reservation, or owed. What is held goes, once and whole, to
the payee it is held for or back to the purse it came from. In the contract the
purse is `availableBudget`, a hold is an unsettled reservation and the debt is
`publisherBalances`; in the Go escrow the debt also counts pending releases,
and a guaranteed deal is money taken out of the purse, or paid in when its
amount is negative. `ImplementsIdealEscrow`
of either module is `Ideal!Spec` under that mapping, checked by
`MCEscrowManager` and by `MCChainVM`, where the settlement layer makes
the calls, and proved of both (section 3).

### EscrowManager

One action per external function; a failed `require` is a guard. Solidity
reverts on underflow, so `TypeOK` (all counters natural) says that a call that
passes its requires does not revert. The AUSD token is external.

`MCEscrowManager` (2 campaigns, 2 reservation ids, 2 publishers, amounts 1 and
2, supply 3, time to live 0 and 1, time up to 3): `BudgetAccounted`,
`EveryCoinHasAReservation`, `Solvent`, `SettledForever`,
`ImplementsIdealEscrow`, and the liveness property `NothingStaysLocked`:
reservations end, and a paused campaign gets everything unspent back. Amounts of 1 and 2
with a holdback of 500 basis points exercise the rounding; two ids allow reuse
of a released id beside a live one. Fairness: blocks are produced, somebody
calls `releaseExpiredReservation` (anyone may) and the owner of a paused campaign
withdraws. Nothing is assumed of settlement.

### EscrowRPC and AUSDSettlement

`EscrowRPC` has the four handlers of the VM, `AUSDSettlement` the settlement
that calls them and the batch, which settles one proof per step with the clock
moving in between. `VMState` is not in the repository and is modelled as the
maps the handlers use.

A campaign may be funded by an advertiser called `escrow`, a transfer from the
account to itself, and a deal may be of negative amount: `CreatePGDeal` checks
no sign. Both are in the model, and `EscrowBacked` says what they cost: the
account has what others funded, and that covers all debts unless one of the two
has happened (`NothingFromNowhere`).

`MCChainVM` runs this beside the ad slots below, with which it shares no state:
a behaviour is of the one or of the other. Bounds: 1 campaign, 2 reservations,
2 publishers, 2 buckets, 2 proofs per reservation, 1 deal of 5 or -5, time up to
3 (reservations live for 1 or 2). Properties: `DeliveryPaidOnce`,
`DeliveryLostOnlyByExpiry`, `EscrowBacked`, `ImplementsIdealEscrow`. Batches run
at any time or never, as nothing in the repository schedules them. What then
holds of a delivery reported in time is that until its reservation expires it
is settled or a proof of it waits. That it is paid does not hold: `MCLateBatch`
expects the violation of `DeliveredIsPaid`, a proof that waits longer than its
reservation lives and is deleted unpaid.

### Auction, Enclave, Halo2Auction, Halo2Circuits

`MCAuction` (2 bidders, up to 3 bids over 5 commitments and 2 malformed ones,
run with and without a proof):
`OutcomeIsSecondPrice` compares the sort in `RunAuction` with a definition by
positions, ties and values that wrap modulo 10000 (10 here) included. A loop
over bids is a recursive function of the number of rounds.
`EnclaveAgrees` does the same for the enclave's single pass. The enclave's
decryption is a simulation that draws values at random, so its bids are any list
of values below 1000 (4 here), and it stores an empty outcome where the auction
returns an error. Enclave and auction share no state and are explored side by
side. `LateRunIsProven`:
the header of an auction that was run after its end commits to the bids its
outcome came from, and what it keeps of the outcome is that of the second-price
outcome of these. It keeps one byte of the winner and 16 bits of each amount
(values below 16 here, bidders that share the byte), so a header does not
identify a winner. The code does not enforce that order: `RunAuction` neither
waits for `EndTime` nor closes the auction, so a header made after an early run
can commit to a bid higher than the winner's.

`RunAuctionWithHalo2` runs the auction, builds a witness from simulated bids
(as the code does), proves, stores the proof, verifies and answers. A circuit
is a function from a witness to a proof; a digest is the words Poseidon starts
from, so it collides exactly when they agree modulo the field, and some digests
are short, as `Bytes()` of a number with a leading zero byte is. The circuit
has room for 2 bids where up to 3 are submitted (100 in the code), so that a
winner outside the circuit, a proof that is refused and a run after a failed
run all happen. `AnnouncedIsProven`: an outcome that was returned is a
second-price outcome of the bids its run saw, and its stored proof verifies for
its price and for no other.

### FrequencyManager, Halo2Managers, FrequencyCapping

`MCManagers` checks these, `BudgetManager`, `HPKE` and `DataAvailability` in one
run: counters, tokens, both kinds of budgets and blobs share nothing, so each
behaviour exercises one of them. Bounds here: 3 devices, caps 0 to 2, bytes with
two values, words of 16, a default budget of 5, tokens issued up to 3.
`RootCommitsToCounts`: the epoch root has the low byte of every count but
zero ones. `TokensRedeemedOnce`: also when a bucket is replaced and when the
proof of a redemption overwrites byte 16 of the stored token, which
`append(token[:16], ...)` does when the caller presents the slice it was given.
That a caller writes to the returned slice itself is not modelled: it is the
manager's own memory, but no code in the repository does so.
`StateIsProven`: budgets and counters are what their chains of proofs show,
with amounts of 2^63 and more, which raise a budget. `ManagersAgree`: both
managers enforce a cap, the first the cap of the first check, the second the
cap of the call, and they allow the same impressions while it does not change.

### HPKE and DataAvailability

Keys are symbolic: a derived key is the pair of secrets it comes from, XOR is
symmetric difference, and the AEAD opens what it sealed. Bounds in
`MCManagers`: 2 recipients, lists of none to three, up to 2 blobs (a blob and one
that shares its slice), time up to 3; a blob expires after one tick:
`ReadsAreCommitted` and `RecipientsOpen`. A blob is the caller's slice and the
cache is not verified, so a write to the slice shows until the blob expires;
the property says what remains true. The three stores that are not local are
placeholders that look the blob up in the same map.

### AdSlots

One action per handler. `MintAsset`, `BurnAsset`, `AddOrder` and `transferAUSD`
are not in the repository and may fail after the handler has written: both
outcomes are in the actions. `PlaceOrder` reads the clock twice, once for the
window and once for the price, and the clock may move in between. `uint64`
counts wrap, and reserves and amounts are read through `int64` as the code does.

Bounds in `MCChainVM`: 1 slot, 1 order, words of 8, decay rates 1 and 1.5, pools
and swaps of amounts on both sides of half a word, liquidity of either sign, at
most 4 units in an AUSD reserve that is paid into, time up to 3 (before, in and
after the window). `BidsReachFloor`: as long as a slot is on sale, every bid the
DEX has for it and every bid not revealed reaches its floor. A revealed price is
exempt, as `RevealBid` does not check it. `PoolsNeverOverdrawn`: no swap takes
more than is in a reserve, for decay rates between zero and one and slots that
stay within `int64`; outside that range the code does overdraw, as the model
shows. `MCFailedBurn` expects the violation of `DeliveredTokensAreBurned`: tokens
are burned from the publisher, who may have sold them, after the delivery has
been recorded.

### Analytics

Each atomic load and store and each critical section is a step. A request whose
site or app has no publisher panics after it was counted; the HTTP server
recovers the panic, and the call has ended.
`MCAnalytics` (3 concurrent calls out of 7 kinds, an event stream of capacity
1): `RatesWithinObserved`, `LedgersAgreeAtRest`, and `CallsReturn` under weak
fairness of every goroutine. Three calls are enough for two of them to load
the same average, and for a third to have changed the count.

### BudgetManager

In `MCManagers` (2 advertisers, 1 publisher, who is only named in receipts,
integers modulo 4, 2 receipts):
`BudgetConserved`, `ProofsChain`, `DeductionsSettledOnce`. The small modulus
makes the pending counter wrap within a few calls, as it would at 2^64.

### MatchingEngine

The auction holds `bookMu`; its loop is one step per iteration. A heap is the set
of its orders, and its top is any order of the best price: this is what
`container/heap` gives for a fixed order, and that the `Less` of `OrderHeap`,
which looks at the first element to know its side, is one is not checked. The
file uses `testing` in its last function and does not import it, so it does not
compile as it stands; everything else in it is complete, and is modelled.
 `MCMatchingEngine` (2 slots, 3 orders, prices 5 and 10,
quantities 0 to 2): `UnitsAccounted` (each unit is in the book, traded or lost,
once, and both sides balance), `PricePriority`, and `AuctionsEnd` under weak fairness of the running auction,
which waits for nothing. Three orders give one partial fill and a rest that
meets another auction. A match below the clearing price is dropped after its
quantity was taken: the history variable `lost` keeps it. The clearing price
is a decayed median, and a winning seller's ask may be above it although the
code speaks of a uniform price.

### RTBExchange

A goroutine per request and DSP goes through the rate limiter, the lock of the
DSP, the HTTP call and the send to `bidChan`; the handler receives until all
are done or the timeout fires, and `select` takes any ready case.

`MCRTBExchange` (2 requests, 2 DSPs, one token each, refilled every second
tick): `AnswerIsBestReceived`, `RateLimited`, `EverythingEnds`. The two requests
compete for each token and lock; the offers include one below the floor and one
that the first request blocks. Fairness: while some goroutine can run, one
runs; the auction timer and the HTTP client's own timeout count as such
(`dsp.Timeout` is set for every DSP the repository configures). The best bid is
the best of those received: when the last DSP is done and its bid is in the
channel, `select` may take the other case and the loop returns without it.

The model has a rate limiter in every DSP and a context in every call, as the
package's test does. `cmd/adx-exchange` sets neither, and both are dereferenced.

## 3. Proofs

Every theorem below is of the module's specification, for any finite sets and
any bounds that satisfy the named assumptions; the runs check the same
properties on instances.

| Module | Theorem | Says | Rests on |
|---|---|---|---|
| `BlocklaceProofs` | `TypeCorrect`, `AccusationSound`, `RoundsAgree` | `TypeOK`, `HonestNeverAccused`, `RoundAgreement` | `Inv`, inductive together |
| | `CausalDelivery` | `DeliveredInCausalOrder` | `AllDelivered`, `InOrder` |
| `EscrowManagerProofs` | `Accounted`, `SettledStays` | `BudgetAccounted`, `SettledForever` | `Ledger` |
| | `Refinement` | `ImplementsIdealEscrow` | `RInv` |
| | `CoinByCoin` | `EveryCoinHasAReservation` | sums over reservations |
| | `TypeCorrect`, `StaysSolvent`, `AlwaysPayable` | `TypeOK`, `Solvent`, `Payable` | `Books` |
| `ChainVMProofs` | `TypeCorrect`, `PaidOnce`, `Backed` | `TypeOK`, `DeliveryPaidOnce`, `EscrowBacked` | `Books`: `Counters`, `Debts`, `Backing` |
| | `Refinement` | `ImplementsIdealEscrow` | the same |
| | `DeliveryKept` | `DeliveryLostOnlyByExpiry` | `AllKept` |
| | `SlotTypeCorrect`, `BidFloor` | `SlotsTypeOK`, `BidsReachFloor` | `SlotsInv`, `PriceReachesFloor` |
| | `PoolSolvency` | `PoolsNeverOverdrawn`, an action property | `SlotsInv`, `ReserveLeft`, `DecayBounds` |
| `AuctionProofs` | `TypeCorrect`, `SecondPriceAuction` | `TypeOK`, `OutcomeIsSecondPrice` | `Inv`, listings |
| | `EnclaveCorrect` | `EnclaveAgrees` | `Best`, by rounds of the loop |
| | `LateRunProven` | `LateRunIsProven`, an action property | `ClosedIsFinal` |
| | `AnnouncedProven` | `AnnouncedIsProven` | `AllProven` |
| `ManagersProofs` | `TypeCorrect`, `Conservation`, `ProofChain` | `TypeOK`, `BudgetConserved`, `ProofsChain` | inductive together |
| | `SettledOnce` | `DeductionsSettledOnce` | `Lossless` |
| | `RedeemedOnce` | `TokensRedeemedOnce` | `TokensSound` |
| | `ProvenState` | `StateIsProven` | `HaloSound`: `BudgetsSound`, `CountersSound` |
| | `AgreeProven` | `ManagersAgree` | `CountersAgree` |
| | `RootProven` | `RootCommitsToCounts` | `RootSound`, with `CountersAgree` |
| | `CommittedReads` | `ReadsAreCommitted` | `StoreSound` |
| | `OnlyRecipientsOpen` | `RecipientsOpen` | `AllSealed`, `OpenSeal` |
| `MatchingEngineProofs` | `TypeCorrect` | `TypeOK`: no quantity below zero | `Typed` |
| | `BestPricesTrade` | `PricePriority` | `Typed` |
| | `EveryUnitAccounted` | `UnitsAccounted` | `OrdersAccounted`, `SidesBalance` |
| `ExchangeProofs` | `TypeCorrect`, `RespectsRate` | `TypeOK`, `RateLimited` | `Typed`, `Paced` |
| | `AnswersBest` | `AnswerIsBestReceived` | `AnsweredByAuction`, by rounds of the loop |
| | `SendersNeverBlock` | `SendersHaveRoom` | `ChannelAccounted` |
| | `RatesObserved` | `RatesWithinObserved` | `RatesFine` |
| | `LedgersAgree` | `LedgersAgreeAtRest` | `LedgersFine` |

*Sums and loops.* `InductionTheorems` has what the others share. An induction
theorem with an operator as its parameter cannot be used with these provers, so
induction is stated for a set: `PickInduction` for finite sets,
`NumberInduction` for numbers, each from the well-foundedness of an order. On
it rest the facts about `SumFunctionOnSet` (an element more or less, a changed
value, a union, sums by groups), in which every ledger here is stated, and
`RoundsExist`, which says that a loop written as a recursive function has a
value after every round. The solver knows little of division by a variable, so
`QuotientRemainder` and `RemainderUnique` state what `\div` and `%` are, and the
lemmas after them what rounding and wrapping keep.

*Blocklace.* Who can be accused is not inductive: the danger is a proposal
built on tips read earlier, which could land on a round its author has used. The
invariant adds that a DAG holds headers that were sent and is closed under
predecessors, that rounds are what `calculateRound` gives, that tips reach the
round of every vertex, that a miner's headers are in its own DAG as it sent
them, and that the snapshot of a proposal, as long as proposals of its miner
have not overlapped, reaches every round the miner has used. Then a new header
is above every earlier one of its author in the author's DAG. Two vertices of
one author and round never stand in one DAG (`NoFork`), and rounds agree between
DAGs on what rests on no doubled identifier; so an honest author's headers have
different rounds elsewhere too, and another miner has nothing to accuse it of.
Causal delivery adds that the sequence holds exactly the vertices, each once,
and that everything a header references comes before it. All of it is for any
sets of honest and Byzantine nodes, calls, handlers and identifiers; assumed are
only that these sets are disjoint where they must be.

*EscrowManager.* The balance of a campaign is inductive with counters that are
integers. That they never go below zero needs the sums: reserved is the sum of
the open reservations, so what a settlement subtracts is there. `Books` puts
the types, the sums and the solvency together, and a payment is then covered
whoever is paid first. The refinement adds `RInv`, that debts and holdback
rates are integers, and the fact that the holdback and the immediate part of a
payment, each rounded, add up to the amount of the reservation. Assumed are
finite sets of ids, campaigns and publishers, and that `NoReservation` is neither a reservation of the contract nor one of
the ideal escrow.

*EscrowRPC and AUSDSettlement.* Three parts: per campaign, available, reserved
and spent are within the total as long as no deal is negative, and reserved is
the sum of the open reservations (`Counters`); what publishers have and wait for
is what was spent (`Debts`); the account of the escrow holds the totals of the
campaigns that are not its own (`Backing`). The settlement makes calls of the
handlers, so each of its steps is a handler's step or leaves the escrow alone,
and the refinement is proved of the handlers. `DeliveryKept`: a step takes a
proof out of its bucket only by trying to settle it, which succeeds unless the
reservation is settled or has expired, and neither is ever undone.

*AdSlots.* That a bid stays above the floor needs that its slot exists and keeps
its floor, and that the price of a slot that has not ended at the second reading
of the clock is never below it; a bid placed when it had ended is for a slot
that is not on sale and never will be again. For the pools, a rate from zero to
one makes the decay at least zero, so a swap leaves the other reserve at or
above zero, also before the window, where the decay is above one: a swap that
would pay less than nothing fails its guard. Rounding an amount to the nearest
unit keeps it on the same side of zero. Assumed are finitely many holders,
counts that are `uint64`s of an even word, and floors and prices that are
integers of any sign.

*Auction.* The reference is about positions in the list of sealed bids, the
code about lists made from it. A listing gives each place of a list the
position it comes from, no position twice: the loop of `RunAuction` makes one
(induction over its rounds), sorting keeps one (an injection of a finite set
into itself is onto), and an outcome of the list is one of the positions. The
pass of the enclave is shown, round by round, to hold the highest bid and the
highest of the others. A run past `EndTime` has counted all bids for good, from
which the action property follows. Of a proof only what `Verify` compares is
needed, and that prices are below half a word, so that reading them as signed
changes nothing.

*BudgetManager.* Conservation keeps `spent` from wrapping and the types keep
`remaining` from going below zero, so neither is inductive alone. `Lossless`
says that what was charged is in receipts or pending, but for a multiple of
the width: the pending counter may wrap, and nothing else is lost.

*FrequencyCapping.* That a token is marked when it was redeemed is not
inductive: a second token with its id would be marked by the same redemption.
`TokensSound` adds that an id is in one bucket, once, and that ids not yet
issued were never redeemed. Budgets and counters without an entry count as the
default budget and as zero, which have no proofs; each step then adds its proof
at the end of a chain, and circuits are never dropped. The managers agree
because each counter follows from the caps asked for: the first manager keeps
the first of them, the second stays below one of them, and a count below a cap
is provable as caps are below the field modulus (assumed: they are 32-bit
numbers in the code). For the root, an order of a finite set takes each element
once, and the counters it does not have are those a refused first check left.

*DataAvailability and HPKE.* `StoreSound`: a reference is to a blob that is
there, whose slice holds what the reference commits to, or was written to;
assumed is that the error is no data. `OpenSeal` is about the operators alone:
a key XORed in twice is gone, no other key takes it out, and a derived key is
of one pair of secrets.

*MatchingEngine.* While an auction runs, an order's units are in its remaining
quantity, in matches not yet settled, filled or lost; a match takes the same
quantity from both sides. Price priority follows from what the loop takes: the
best bid and the best ask that are left.

*RTBExchange.* `Paced` bounds tokens given out and tokens left by the bucket
and the refill periods that have passed, which is inductive where the rate
alone is not. `AnswersBest` is induction over the rounds of `runAuction`.
`ChannelAccounted`: a request's channel holds no more bids than goroutines of
it have ended, so while one of them has not, there is room.

*Analytics.* A call passes the steps of its kind and never comes back to the
first. `RatesFine` speaks of what a call has loaded and not yet stored: it was
within what had been measured when it was loaded, and what has been measured
only grows, so a late store is still within it; a weighted average is at most
the larger of its two parts. A pod is counted before its rate is computed, so
no divisor is zero. `LedgersFine` says of each counter that it is the number,
or the sum of the shares, of the calls past the step that writes it; a request
that panicked is past the first of its steps only. At rest
those are the calls that are done, for every ledger the same ones. Assumed are
finitely many calls; their kinds, latencies and prices are arbitrary.

Every invariant and every action property a run checks is stated by one of
these theorems. Only model-checked are the five liveness properties, as
fairness and ENABLED are outside the prover: `HonestHeadersSpread`,
`NothingStaysLocked`, `AuctionsEnd`, `EverythingEnds` and `CallsReturn`.

## 4. Known weaknesses of the code

Each of these is part of the model, whose behaviours show it. The first three
are the findings of `PROJECT.json`, each with a run that expects the violation:

- `dag.go:372` (`MCBlocklaceHandlers`): with two concurrent `ReceiveHeader` calls
  a header of a marked author is added, though the log says "ignoring header
  from Byzantine node";
- `ausd_settlement.go:173` (`MCLateBatch`): a delivery reported in time is not
  paid when the batch is late, and its proof is deleted, though the system is
  said to eliminate the "delivered but not paid" risk (`:13`);
- `adslot_rpc.go:339` (`MCFailedBurn`): a burn that fails leaves the delivery
  recorded and the tokens in circulation, though the comment says "Burn
  delivered tokens from circulation";
- `dag.go:331`: of two concurrent `ProposeHeader` calls of one miner that read
  the same tips one is refused, and the miner marks itself Byzantine;
- `dag.go:100`: an ID is not bound to its content; under an ID that is sent in two
  versions miners hold different vertices, and rounds above it differ;
- `escrow_rpc.go:251`: a deal of negative amount raises a budget with nothing
  behind it; `:101`: so does an advertiser called `escrow`;
- `dag.go:228`: the sequence, "total order" in the code, is the order of
  arrival and differs between correct miners;
- `ausd_settlement.go:128`: one proof settles a reservation although two
  confirmations are required: proofs are counted per bucket, and a batch does
  not count;
- `escrow_rpc.go:179`: the Go escrow never frees the budget of an expired
  reservation, as the contract does;
- `openrtb.go:364`: a bid in the channel may be left there with time to go;
- `engine_pure_go.go:183`: the reported clearing price, a decayed median, can
  be below the ask of a winner although the code speaks of a uniform price;
- `halo2_auction.go:75`: the outcome is stored when the proof fails; about one
  honest proof in 256 fails for its length (`circuits.go:343`);
- `halo2_auction.go:255`: an amount of 2^63 or more raises the budget;
- `frequency.go:79`: a counter keeps its first cap and no epoch resets it;
  `frequency.go:195` overwrites the stored token;
- `storage.go:138`: a cached blob is returned unverified, and it is the
  caller's slice;
- `adslot_rpc.go:330`: the capacity check wraps; `:223`: a revealed price need
  not reach the floor, and the DEX is not told; `:377`: a bid placed while its
  slot ends need not either; `:416`: sums of 2^63 and more are read as negative
  numbers and overdraw a pool; a swap after the end takes the whole reserve;
- `auction.go:214`: a header has one byte of the winner's ID and 16 bits of the
  amounts, so it does not identify an outcome;
- `tracker.go:369`: a request without a publisher is counted, panics and is in no
  time bucket; `:440`: averages lose updates; `:446`: a lower latency can replace
  a higher maximum; the fill rate can exceed 100 %.

Outside the model: the witness map of the oracle has no lock; goroutines of one bid
request overwrite its `Ext` under different locks; the engine promises
price-time priority but orders heaps by price alone; the store counts reads
under a read lock.

## 5. Plan

1. The SFT contract, with an abstract slot that it and `AdSlots` implement.
2. A composition of auction, frequency cap, budget and settlement, the path
   that `tests/integration_test.go` walks.
3. The clients' reconnecting web socket and order book.

## 6. Not modelled

- `contracts/AdSlotSFT.sol`, `client/`: left for later, see the plan.
- `pkg/storage`: the FoundationDB backend uses types that are defined nowhere and
  calls with the wrong arity, so what it would do cannot be read off (unlike
  `engine_pure_go.go`, which lacks one import); the mock is maps under one lock.
- `pkg/miner`, `cmd/`: start-up code and HTTP servers that run until the
  process ends; tunnels are placeholders.
- `pkg/rtb/dsp_client.go`, `pkg/vast`, `pkg/publica`, `sdk/`: HTTP, XML and
  JSON, with statistics as their only state.
- `pkg/fhe`, `tee/` but for the auction, `proof/circuits.go`: placeholder
  cryptography; nothing in the repository imports the last.
- The C++ and GPU backends of the engine: kernels out of TLC's reach.
