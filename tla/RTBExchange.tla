----------------------------- MODULE RTBExchange -----------------------------
(***************************************************************************)
(* pkg/rtb/openrtb.go: a bid request is fanned out to every DSP, one        *)
(* goroutine each, and the bids that are back before the auction timeout go  *)
(* into a first-price auction.  Requests run concurrently, as net/http runs  *)
(* their handlers; the requests share each DSP's rate limiter and the mutex  *)
(* that SendBidRequest holds for the whole HTTP call.                       *)
(*                                                                          *)
(* A DSP answers with one of Offers, with no bid or an error (NoBid), or, as *)
(* far as safety goes, not at all.  The labels of a bid are its             *)
(* categories and advertiser domains.  DSPStats is only ever written in this *)
(* package and is left out.  The DSPs have a RateLimiter and the caller      *)
(* passes a context, as in openrtb_test.go.                                 *)
(***************************************************************************)
EXTENDS Integers, Sequences, FiniteSets, SequencesExt

CONSTANTS
    Requests, DSPs,
    Offers,         \* [dsp, price, labels]: the bids the DSPs may answer with
    Blocked,        \* BCat and BAdv of each request, as one set of labels
    NoBid,
    FloorPrice,
    Dollar,         \* price units in a dollar: decimal.BigInt drops the rest
    MaxTokens,      \* RateLimiter.max
    Refill,         \* RateLimiter.refill, in ticks of the clock
    Capacity,       \* of bidChan: len(rtb.DSPs)
    MaxTime         \* bound on the clock

ASSUME ExchangeAssumption ==
    /\ IsFiniteSet(DSPs)
    /\ \A o \in Offers : o.dsp \in DSPs /\ o.price \in Nat
    /\ Blocked \in [Requests -> SUBSET UNION {o.labels : o \in Offers}]
    /\ NoBid \notin Offers
    /\ FloorPrice \in Nat /\ Dollar \in Nat \ {0}
    /\ MaxTokens \in Nat /\ Refill \in Nat \ {0} /\ MaxTime \in Nat
    /\ Capacity = Cardinality(DSPs)

VARIABLES
    phase,      \* of each BidRequest: "new", "collecting", "answered"
    pc,         \* of each goroutine of collectBids
    got,        \* the result of SendBidRequest in each goroutine
    bidChan,    \* of each request
    bids,       \* of each request: what its select loop has received
    expired,    \* requests whose timeout has fired or context is cancelled
    answer,     \* the winning bid of each answered request, or NoBid
    mu,         \* DSPConnection.mu: the request holding it, as a set
    tokens, lastRefill,     \* RateLimiter of each DSP
    granted,    \* history: requests that each DSP's limiter let through
    metrics,    \* ImpressionCount, BidCount, Revenue
    now

limiterVars == <<tokens, lastRefill, granted>>
handlerVars == <<phase, bids, expired, answer, metrics>>
vars == <<phase, pc, got, bidChan, bids, expired, answer, mu,
          tokens, lastRefill, granted, metrics, now>>

TypeOK ==
    /\ phase \in [Requests -> {"new", "collecting", "answered"}]
    /\ pc \in [Requests -> [DSPs -> {"idle", "allow", "lock", "http", "send", "done"}]]
    /\ got \in [Requests -> [DSPs -> Offers \cup {NoBid}]]
    /\ bidChan \in [Requests -> Seq(Offers)] /\ bids \in [Requests -> Seq(Offers)]
    /\ \A r \in Requests : Len(bidChan[r]) <= Capacity
    /\ answer \in [Requests -> Offers \cup {NoBid}]
    /\ expired \subseteq Requests
    /\ mu \in [DSPs -> SUBSET Requests] /\ \A d \in DSPs : Cardinality(mu[d]) <= 1
    /\ tokens \in [DSPs -> 0..MaxTokens]
    /\ lastRefill \in [DSPs -> 0..MaxTime] /\ now \in 0..MaxTime
    /\ granted \in [DSPs -> Nat]
    /\ metrics \in [impressions : Nat, bids : Nat, revenue : Nat]

Init ==
    /\ phase = [r \in Requests |-> "new"]
    /\ pc = [r \in Requests |-> [d \in DSPs |-> "idle"]]
    /\ got = [r \in Requests |-> [d \in DSPs |-> NoBid]]
    /\ bidChan = [r \in Requests |-> <<>>]
    /\ bids = [r \in Requests |-> <<>>]
    /\ expired = {}
    /\ answer = [r \in Requests |-> NoBid]
    /\ mu = [d \in DSPs |-> {}]
    /\ tokens = [d \in DSPs |-> MaxTokens]
    /\ lastRefill = [d \in DSPs |-> 0]
    /\ granted = [d \in DSPs |-> 0]
    /\ metrics = [impressions |-> 0, bids |-> 0, revenue |-> 0]
    /\ now = 0

-----------------------------------------------------------------------------
(* The goroutines of collectBids. *)

Goto(r, d, l) == pc' = [pc EXCEPT ![r][d] = l]

\* BidRequest up to the select loop of collectBids.
BidRequest(r) ==
    /\ phase[r] = "new"
    /\ phase' = [phase EXCEPT ![r] = "collecting"]
    /\ pc' = [pc EXCEPT ![r] = [d \in DSPs |-> "allow"]]
    /\ UNCHANGED <<got, bidChan, bids, expired, answer, mu, limiterVars, metrics, now>>

\* Mutant of Earned: a period that has begun counts.
EarnedRoundedUp(d) == (now - lastRefill[d] + Refill - 1) \div Refill

\* tokensToAdd: whole refill periods since lastRefill.
Earned(d) == (now - lastRefill[d]) \div Refill

Least(a, b) == IF a < b THEN a ELSE b

\* RateLimiter.Allow, and the goroutine's early return.
Allow(r, d) ==
    /\ pc[r][d] = "allow"
    /\ LET available == Least(MaxTokens, tokens[d] + Earned(d))
       IN  /\ tokens' = [tokens EXCEPT ![d] = IF available > 0 THEN available - 1 ELSE 0]
           /\ granted' = [granted EXCEPT ![d] = IF available > 0 THEN @ + 1 ELSE @]
           /\ Goto(r, d, IF available > 0 THEN "lock" ELSE "done")
    /\ lastRefill' = [lastRefill EXCEPT ![d] = IF Earned(d) > 0 THEN now ELSE @]
    /\ UNCHANGED <<got, bidChan, mu, handlerVars, now>>

\* SendBidRequest takes dsp.mu and posts the request.
Post(r, d) ==
    /\ pc[r][d] = "lock"
    /\ mu[d] = {}
    /\ mu' = [mu EXCEPT ![d] = {r}]
    /\ Goto(r, d, "http")
    /\ UNCHANGED <<got, bidChan, limiterVars, handlerVars, now>>

\* The HTTP call ends, with a bid, with no bid, or with an error such as the
\* client's own timeout; SendBidRequest returns and unlocks.
Respond(r, d) ==
    /\ pc[r][d] = "http"
    /\ \E a \in {o \in Offers : o.dsp = d} \cup {NoBid} :
        /\ got' = [got EXCEPT ![r][d] = a]
        /\ Goto(r, d, IF a = NoBid THEN "done" ELSE "send")
    /\ mu' = [mu EXCEPT ![d] = {}]
    /\ UNCHANGED <<bidChan, limiterVars, handlerVars, now>>

\* Mutant of ChannelHasRoom: bidChan is made with room for one bid.
RoomForOne(r) == Len(bidChan[r]) < 1

ChannelHasRoom(r) == Len(bidChan[r]) < Capacity

\* bidChan <- *bid
SendBid(r, d) ==
    /\ pc[r][d] = "send"
    /\ ChannelHasRoom(r)
    /\ bidChan' = [bidChan EXCEPT ![r] = Append(@, got[r][d])]
    /\ Goto(r, d, "done")
    /\ UNCHANGED <<got, mu, limiterVars, handlerVars, now>>

-----------------------------------------------------------------------------
(* The handler: the select loop, the auction, the metrics. *)

checkBrandSafety(r, b) == b.labels \cap Blocked[r] = {}

Eligible(r, b) == b.price >= FloorPrice /\ checkBrandSafety(r, b)

\* Mutant of Better: of the eligible bids the last one wins.
BetterLast(r, w, b) == IF Eligible(r, b) /\ b.price > 0 THEN b ELSE w

\* One iteration of runAuction; highestPrice starts at zero.
Better(r, w, b) ==
    IF Eligible(r, b) /\ b.price > (IF w = NoBid THEN 0 ELSE w.price) THEN b ELSE w

\* runAuction: winningBid after each iteration over the bids, and at the end.
runAuction(r, s) ==
    LET winningBid[k \in 0..Len(s)] ==
            IF k = 0 THEN NoBid ELSE Better(r, winningBid[k - 1], s[k])
    IN  winningBid[Len(s)]

\* case bid := <-bidChan
ReceiveBid(r) ==
    /\ phase[r] = "collecting"
    /\ bidChan[r] # <<>>
    /\ bids' = [bids EXCEPT ![r] = Append(@, Head(bidChan[r]))]
    /\ bidChan' = [bidChan EXCEPT ![r] = Tail(@)]
    /\ UNCHANGED <<phase, pc, got, expired, answer, mu, limiterVars, metrics, now>>

\* time.After(AuctionTimeout) fires, or the context ends.
Timeout(r) ==
    /\ phase[r] = "collecting"
    /\ r \notin expired
    /\ expired' = expired \cup {r}
    /\ UNCHANGED <<phase, pc, got, bidChan, bids, answer, mu, limiterVars, metrics, now>>

\* wg.Wait has returned and doneChan is closed.
AllDone(r) == \A d \in DSPs : pc[r][d] = "done"

CollectEnds(r) == AllDone(r) \/ r \in expired

\* A response with a bid counts with the whole dollars of its price.
updateMetrics(w) ==
    metrics' = [impressions |-> metrics.impressions + 1,
                bids |-> metrics.bids + (IF w = NoBid THEN 0 ELSE 1),
                revenue |-> metrics.revenue + (IF w = NoBid THEN 0 ELSE w.price \div Dollar)]

\* The loop returns: runAuction, buildResponse, updateMetrics.  select takes
\* any ready case, so this may happen with bids still in bidChan.
Finish(r) ==
    /\ phase[r] = "collecting"
    /\ CollectEnds(r)
    /\ answer' = [answer EXCEPT ![r] = runAuction(r, bids[r])]
    /\ updateMetrics(answer'[r])
    /\ phase' = [phase EXCEPT ![r] = "answered"]
    /\ UNCHANGED <<pc, got, bidChan, bids, expired, mu, limiterVars, now>>

Tick ==
    /\ now < MaxTime
    /\ now' = now + 1
    /\ UNCHANGED <<phase, pc, got, bidChan, bids, expired, answer, mu, limiterVars, metrics>>

-----------------------------------------------------------------------------

Goroutine(r, d) == Allow(r, d) \/ Post(r, d) \/ Respond(r, d) \/ SendBid(r, d)
Handler(r) == ReceiveBid(r) \/ Finish(r)

\* What the exchange does by itself once it has requests.
Progress ==
    \/ \E r \in Requests : Timeout(r) \/ Handler(r)
    \/ \E r \in Requests, d \in DSPs : Goroutine(r, d)

Next == Progress \/ Tick \/ \E r \in Requests : BidRequest(r)

Spec == Init /\ [][Next]_vars

\* The scheduler runs some goroutine while there is one that can run, the
\* auction timer fires, and the HTTP client gives up after dsp.Timeout.  Every
\* goroutine takes finitely many steps, so no finer fairness is needed.
FairSpec == Spec /\ WF_vars(Progress)

-----------------------------------------------------------------------------

\* runAuction: an answered request went to a bid that was received in time, is
\* at the floor or above and is allowed by the request, and no other such bid
\* was higher; with no answer there was no such bid above zero.
AnswerIsBestReceived ==
    \A r \in Requests : phase[r] = "answered" =>
        LET eligible == {b \in ToSet(bids[r]) : Eligible(r, b) /\ b.price > 0}
        IN  IF eligible = {} THEN answer[r] = NoBid
            ELSE /\ answer[r] \in eligible
                 /\ \A b \in eligible : b.price <= answer[r].price

\* RateLimiter: however the requests interleave, a DSP is asked at most
\* MaxTokens times and once more for every refill period that has passed.
RateLimited == \A d \in DSPs : granted[d] <= MaxTokens + now \div Refill

\* collectBids: a request is answered whatever its DSPs do, and no goroutine is
\* left behind, not even one whose request was answered at the timeout and who
\* finds nobody receiving from bidChan.
EverythingEnds ==
    <>[]\A r \in Requests :
          /\ phase[r] # "collecting"
          /\ \A d \in DSPs : pc[r][d] \in {"idle", "done"}
=============================================================================
