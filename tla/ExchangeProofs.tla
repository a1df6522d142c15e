---------------------------- MODULE ExchangeProofs ----------------------------
(***************************************************************************)
(* What holds of the exchange and of its tracker, for every number of       *)
(* requests, DSPs and calls, every set of bids and operations, and every    *)
(* setting of the rate limiter:                                             *)
(*  - TypeCorrect;                                                          *)
(*  - RespectsRate: RateLimited, from the tokens each limiter still holds;  *)
(*  - AnswersBest: AnswerIsBestReceived, by induction over the iterations   *)
(*    of runAuction;                                                        *)
(*  - SendersNeverBlock: the channel has room whenever a goroutine sends;   *)
(*  - RatesObserved and LedgersAgree, of Analytics: what a call has loaded  *)
(*    was within what was measured, and each counter is the number of calls *)
(*    that are past the step that counts.                                   *)
(***************************************************************************)
EXTENDS RTBExchange, Analytics, InductionTheorems

-----------------------------------------------------------------------------
(* Whole periods. *)

\* A quotient and its remainder.
LEMMA Division ==
    ASSUME NEW a \in Nat, NEW R \in Nat \ {0}
    PROVE  a \div R \in Nat /\ R * (a \div R) <= a /\ a < R * (a \div R) + R
  OBVIOUS

\* A quotient is the largest whole number of divisors.
LEMMA DivisionUnique ==
    ASSUME NEW a \in Nat, NEW R \in Nat \ {0}, NEW q \in Nat, R * q <= a
    PROVE  q <= a \div R
  <1> DEFINE p == a \div R
  <1>1. p \in Nat /\ a < R * p + R
    BY Division
  <1> HIDE DEF p
  <1>2. SUFFICES ASSUME p + 1 <= q PROVE FALSE
    BY <1>1 DEF p
  <1>3. PICK e \in Nat : q = p + 1 + e
    <2>1. q - (p + 1) \in Nat /\ q = p + 1 + (q - (p + 1))
      BY <1>1, <1>2
    <2> QED BY <2>1
  <1>4. R * q = R * p + R + R * e /\ R * e >= 0
    BY <1>1, <1>3
  <1>5. R * p \in Nat /\ R * e \in Nat /\ R * q \in Nat
    BY <1>1, <1>3
  <1> QED BY <1>1, <1>4, <1>5

\* Whole periods of two stretches of time are whole periods of both together.
LEMMA DivisionAdds ==
    ASSUME NEW a \in Nat, NEW b \in Nat, NEW R \in Nat \ {0}
    PROVE  (a \div R) + (b \div R) <= (a + b) \div R
  <1> DEFINE p == a \div R
             q == b \div R
  <1>1. p \in Nat /\ q \in Nat /\ R * p <= a /\ R * q <= b
    BY Division
  <1> HIDE DEF p, q
  <1>2. R * (p + q) = R * p + R * q /\ R * p \in Nat /\ R * q \in Nat
    BY <1>1
  <1>3. p + q \in Nat /\ a + b \in Nat /\ R * (p + q) <= a + b
    BY <1>1, <1>2
  <1>4. p + q <= (a + b) \div R
    BY <1>3, DivisionUnique
  <1> QED BY <1>4 DEF p, q

-----------------------------------------------------------------------------
(* runAuction. *)

Bid == Offers \cup {NoBid}

\* runAuction is the last of the winning bids after each iteration.
LEMMA AuctionRounds ==
    ASSUME NEW r \in Requests, NEW s \in Seq(Offers)
    PROVE  \E g \in [0..Len(s) -> Bid] :
              /\ g[0] = NoBid
              /\ \A k \in 1..Len(s) : g[k] = Better(r, g[k - 1], s[k])
              /\ runAuction(r, s) = g[Len(s)]
  <1> DEFINE n == Len(s)
             F(f) == [k \in 0..n |-> IF k = 0 THEN NoBid ELSE Better(r, f[k - 1], s[k])]
             step == [x \in Nat \X Bid |-> IF x[1] \in 1..n THEN Better(r, x[2], s[x[1]]) ELSE NoBid]
  <1>n. n \in Nat
    OBVIOUS
  <1>1. step \in [Nat \X Bid -> Bid]
    <2>1. ASSUME NEW x \in Nat \X Bid PROVE (IF x[1] \in 1..n THEN Better(r, x[2], s[x[1]]) ELSE NoBid) \in Bid
      BY DEF Better, Bid
    <2> QED BY <2>1
  <1>2. NoBid \in Bid
    BY DEF Bid
  <1>3. PICK g \in [0..n -> Bid] : Rounds(g, n, NoBid, step)
    <2> HIDE DEF step, n
    <2> QED BY <1>1, <1>2, <1>n, RoundsExist
  <1>4. g = F(g)
    <2>1. ASSUME NEW k \in 0..n PROVE g[k] = IF k = 0 THEN NoBid ELSE Better(r, g[k - 1], s[k])
      <3>1. CASE k = 0
        BY <3>1, <1>3 DEF Rounds
      <3>2. CASE k # 0
        <4>1. k \in 1..n /\ k - 1 \in 0..n
          BY <3>2, <1>n
        <4>2. <<k, g[k - 1]>> \in Nat \X Bid
          BY <4>1
        <4>3. g[k] = step[<<k, g[k - 1]>>]
          BY <1>3, <4>1 DEF Rounds
        <4> QED BY <4>1, <4>2, <4>3
      <3> QED BY <3>1, <3>2
    <2> QED BY <2>1
  <1>5. runAuction(r, s) = (CHOOSE f : f = F(f))[n]
    BY DEF runAuction
  <1> DEFINE h == CHOOSE f : f = F(f)
  <1>6. h = F(h)
    <2> HIDE DEF F
    <2> QED BY <1>4, Zenon
  <1> HIDE DEF h
  <1>7. h[0] = NoBid /\ \A k \in 1..n : h[k] = Better(r, h[k - 1], s[k])
    BY <1>6, <1>n
  <1> DEFINE Good == {k \in Nat : k <= n => h[k] \in Bid}
  <1>8. 0 \in Good
    BY <1>7, <1>2
  <1>9. ASSUME NEW k \in Nat, k \in Good PROVE k + 1 \in Good
    <2> SUFFICES ASSUME k + 1 <= n PROVE h[k + 1] \in Bid
      OBVIOUS
    <2>1. k + 1 \in 1..n /\ (k + 1) - 1 = k /\ h[k] \in Bid
      BY <1>9, <1>n
    <2>2. h[k + 1] = Better(r, h[k], s[k + 1])
      BY <2>1, <1>7
    <2> QED BY <2>1, <2>2 DEF Better, Bid
  <1>10. Nat \subseteq Good
    <2> HIDE DEF Good
    <2> QED BY <1>8, <1>9, NumberInduction
  <1>11. h \in [0..n -> Bid]
    <2>1. \A k \in 0..n : h[k] \in Bid
      BY <1>10, <1>n
    <2> QED BY <1>6, <2>1
  <1> QED BY <1>5, <1>7, <1>11 DEF h

\* The bids among the first k of s that may win.
EligibleOf(r, s, k) == {b \in {s[i] : i \in 1..k} : Eligible(r, b) /\ b.price > 0}

\* w is the highest of the bids in E, or there is none.
IsBest(w, E) ==
    IF E = {} THEN w = NoBid ELSE w \in E /\ \A b \in E : b.price <= w.price

\* One iteration keeps the best of the bids seen so far.
LEMMA BetterIsBest ==
    ASSUME NEW r \in Requests, NEW w \in Bid, NEW b \in Offers, NEW E,
           E \subseteq {o \in Offers : Eligible(r, o) /\ o.price > 0}, IsBest(w, E)
    PROVE  IsBest(Better(r, w, b),
                  IF Eligible(r, b) /\ b.price > 0 THEN E \cup {b} ELSE E)
  <1>1. b.price \in Nat /\ NoBid \notin Offers /\ b # NoBid
    BY ExchangeAssumption
  <1>2. \A o \in E : o \in Offers /\ o.price \in Nat /\ o # NoBid /\ o.price > 0
    BY ExchangeAssumption
  <1>3. w \in E <=> E # {}
    BY <1>2 DEF IsBest
  <1>4. E = {} <=> w = NoBid
    BY <1>2 DEF IsBest
  <1>5. CASE Eligible(r, b) /\ b.price > 0
    <2>1. CASE E = {}
      <3>1. Better(r, w, b) = b
        BY <1>4, <1>5, <2>1 DEF Better
      <3> QED BY <1>1, <1>5, <2>1, <3>1 DEF IsBest
    <2>2. CASE E # {}
      <3>1. w \in E /\ w # NoBid /\ w.price \in Nat /\ \A o \in E : o.price <= w.price
        BY <2>2, <1>2 DEF IsBest
      <3>2. CASE b.price > w.price
        <4>1. Better(r, w, b) = b
          BY <1>5, <3>1, <3>2 DEF Better
        <4>2. \A o \in E \cup {b} : o.price <= b.price
          BY <1>1, <1>2, <3>1, <3>2
        <4> QED BY <1>5, <4>1, <4>2 DEF IsBest
      <3>3. CASE ~ (b.price > w.price)
        <4>1. Better(r, w, b) = w
          BY <3>1, <3>3 DEF Better
        <4>2. \A o \in E \cup {b} : o.price <= w.price
          BY <1>1, <3>1, <3>3
        <4> QED BY <1>5, <3>1, <4>1, <4>2 DEF IsBest
      <3> QED BY <3>2, <3>3
    <2> QED BY <2>1, <2>2
  <1>6. CASE ~ (Eligible(r, b) /\ b.price > 0)
    <2>1. Better(r, w, b) = w
      <3>1. CASE Eligible(r, b)
        <4>1. b.price = 0
          BY <1>1, <1>6, <3>1
        <4>2. w # NoBid => w.price \in Nat /\ w.price > 0
          BY <1>2, <1>3, <1>4
        <4>3. ~ (b.price > (IF w = NoBid THEN 0 ELSE w.price))
          BY <4>1, <4>2
        <4> QED BY <4>3 DEF Better
      <3>2. CASE ~ Eligible(r, b)
        BY <3>2 DEF Better
      <3> QED BY <3>1, <3>2
    <2> QED BY <1>6, <2>1
  <1> QED BY <1>5, <1>6

\* The auction's winner is the best of the eligible bids, whatever their order.
LEMMA AuctionIsBest ==
    ASSUME NEW r \in Requests, NEW s \in Seq(Offers)
    PROVE  /\ runAuction(r, s) \in Bid
           /\ IsBest(runAuction(r, s), EligibleOf(r, s, Len(s)))
  <1> DEFINE n == Len(s)
  <1>n. n \in Nat /\ \A k \in 1..n : s[k] \in Offers
    OBVIOUS
  <1>1. PICK g \in [0..n -> Bid] :
          /\ g[0] = NoBid
          /\ \A k \in 1..n : g[k] = Better(r, g[k - 1], s[k])
          /\ runAuction(r, s) = g[n]
    BY AuctionRounds
  <1> HIDE DEF n
  <1> DEFINE Good == {k \in Nat : k <= n => IsBest(g[k], EligibleOf(r, s, k))}
  <1>2. 0 \in Good
    <2>1. EligibleOf(r, s, 0) = {}
      BY DEF EligibleOf
    <2> QED BY <1>1, <2>1 DEF IsBest
  <1>3. ASSUME NEW k \in Nat, k \in Good PROVE k + 1 \in Good
    <2> SUFFICES ASSUME k + 1 <= n PROVE IsBest(g[k + 1], EligibleOf(r, s, k + 1))
      OBVIOUS
    <2>1. k + 1 \in 1..n /\ k \in 0..n /\ (k + 1) - 1 = k
      BY <1>n
    <2>2. g[k + 1] = Better(r, g[k], s[k + 1])
      BY <2>1, <1>1
    <2>3. g[k] \in Bid /\ s[k + 1] \in Offers
      BY <2>1, <1>n
    <2>4. IsBest(g[k], EligibleOf(r, s, k))
      BY <1>3, <2>1, <1>n
    <2>5. {s[i] : i \in 1..k + 1} = {s[i] : i \in 1..k} \cup {s[k + 1]}
      <3>1. 1..k + 1 = (1..k) \cup {k + 1}
        BY <2>1
      <3> QED BY <3>1
    <2>6. EligibleOf(r, s, k) \subseteq {o \in Offers : Eligible(r, o) /\ o.price > 0}
      <3>1. \A i \in 1..k : s[i] \in Offers
        BY <1>n, <2>1
      <3> QED BY <3>1 DEF EligibleOf
    <2>7. EligibleOf(r, s, k + 1)
            = IF Eligible(r, s[k + 1]) /\ s[k + 1].price > 0
              THEN EligibleOf(r, s, k) \cup {s[k + 1]} ELSE EligibleOf(r, s, k)
      BY <2>5, Zenon DEF EligibleOf
    <2> HIDE DEF Good
    <2>8. IsBest(Better(r, g[k], s[k + 1]),
                 IF Eligible(r, s[k + 1]) /\ s[k + 1].price > 0
                 THEN EligibleOf(r, s, k) \cup {s[k + 1]} ELSE EligibleOf(r, s, k))
      BY <2>3, <2>4, <2>6, BetterIsBest
    <2> QED BY <2>2, <2>7, <2>8
  <1>4. Nat \subseteq Good
    <2> HIDE DEF Good
    <2> QED BY <1>2, <1>3, NumberInduction
  <1>5. IsBest(g[n], EligibleOf(r, s, n)) /\ g[n] \in Bid
    BY <1>4, <1>n
  <1> QED BY <1>1, <1>5 DEF n

-----------------------------------------------------------------------------
(* Types. *)

\* A goroutine that sends has a bid to send.
SendersHaveBids == \A r \in Requests, d \in DSPs : pc[r][d] = "send" => got[r][d] \in Offers

Typed == TypeOK /\ SendersHaveBids

\* The limiter's arithmetic.
LEMMA AllowTypes ==
    ASSUME TypeOK, NEW d \in DSPs, \A e \in DSPs : lastRefill[e] <= now
    PROVE  /\ Earned(d) \in Nat
           /\ Least(MaxTokens, tokens[d] + Earned(d)) \in 0..MaxTokens
           /\ Least(MaxTokens, tokens[d] + Earned(d)) <= tokens[d] + Earned(d)
  <1>1. tokens[d] \in 0..MaxTokens /\ MaxTokens \in Nat /\ now - lastRefill[d] \in Nat /\ Refill \in Nat \ {0}
    <2>1. lastRefill[d] \in 0..MaxTime /\ now \in 0..MaxTime /\ tokens[d] \in 0..MaxTokens
      BY DEF TypeOK
    <2> QED BY <2>1, ExchangeAssumption
  <1>2. Earned(d) \in Nat
    BY <1>1, Division DEF Earned
  <1> QED BY <1>1, <1>2 DEF Least

\* A refill never lies in the future.
RefillsPast == \A d \in DSPs : lastRefill[d] <= now

LEMMA InitTyped == Init => Typed /\ RefillsPast
  <1> SUFFICES ASSUME Init PROVE Typed /\ RefillsPast
    OBVIOUS
  <1> USE ExchangeAssumption
  <1>1. IsFiniteSet(DSPs) /\ Capacity = Cardinality(DSPs)
    OBVIOUS
  <1>2. Capacity \in Nat
    BY <1>1, FS_CardinalityType
  <1>3. bidChan \in [Requests -> Seq(Offers)] /\ bids \in [Requests -> Seq(Offers)]
    BY DEF Init
  <1>4. \A r \in Requests : Len(bidChan[r]) <= Capacity
    BY <1>2 DEF Init
  <1>5. mu \in [DSPs -> SUBSET Requests] /\ \A d \in DSPs : Cardinality(mu[d]) <= 1
    <2>1. Cardinality({}) = 0
      BY FS_EmptySet
    <2> QED BY <2>1 DEF Init
  <1>6. tokens \in [DSPs -> 0..MaxTokens] /\ lastRefill \in [DSPs -> 0..MaxTime] /\ now \in 0..MaxTime
    BY DEF Init
  <1> QED BY <1>3, <1>4, <1>5, <1>6 DEF Init, Typed, TypeOK, SendersHaveBids, RefillsPast

LEMMA NextTyped == Typed /\ RefillsPast /\ [Next]_vars => Typed' /\ RefillsPast'
  <1> SUFFICES ASSUME Typed, RefillsPast, [Next]_vars PROVE Typed' /\ RefillsPast'
    OBVIOUS
  <1> USE ExchangeAssumption
  <1>t. TypeOK /\ SendersHaveBids
    BY DEF Typed
  <1>1. ASSUME NEW r \in Requests, BidRequest(r) PROVE Typed' /\ RefillsPast'
    BY <1>t, <1>1 DEF BidRequest, Typed, TypeOK, SendersHaveBids, RefillsPast, limiterVars
  <1>2. ASSUME NEW r \in Requests, NEW d \in DSPs, Allow(r, d) PROVE Typed' /\ RefillsPast'
    <2> DEFINE available == Least(MaxTokens, tokens[d] + Earned(d))
    <2>1. Earned(d) \in Nat /\ available \in 0..MaxTokens
      BY <1>t, AllowTypes DEF RefillsPast
    <2>2. /\ tokens' = [tokens EXCEPT ![d] = IF available > 0 THEN available - 1 ELSE 0]
          /\ granted' = [granted EXCEPT ![d] = IF available > 0 THEN @ + 1 ELSE @]
          /\ pc' = [pc EXCEPT ![r][d] = IF available > 0 THEN "lock" ELSE "done"]
      BY <1>2 DEF Allow, Goto
    <2>3. lastRefill' = [lastRefill EXCEPT ![d] = IF Earned(d) > 0 THEN now ELSE @]
      BY <1>2 DEF Allow
    <2>4. UNCHANGED <<phase, got, bidChan, bids, expired, answer, mu, metrics, now>>
      BY <1>2 DEF Allow, handlerVars
    <2> HIDE DEF available
    <2>5. tokens' \in [DSPs -> 0..MaxTokens] /\ granted' \in [DSPs -> Nat]
      <3>1. (IF available > 0 THEN available - 1 ELSE 0) \in 0..MaxTokens
        BY <2>1
      <3> QED BY <3>1, <2>2, <1>t DEF TypeOK
    <2>6. lastRefill' \in [DSPs -> 0..MaxTime] /\ RefillsPast'
      BY <2>3, <2>4, <1>t DEF TypeOK, RefillsPast
    <2>7. pc' \in [Requests -> [DSPs -> {"idle", "allow", "lock", "http", "send", "done"}]]
      BY <2>2, <1>t DEF TypeOK
    <2>8. SendersHaveBids'
      BY <2>2, <2>4, <1>t DEF TypeOK, SendersHaveBids
    <2> QED BY <1>t, <2>4, <2>5, <2>6, <2>7, <2>8 DEF Typed, TypeOK
  <1>3. ASSUME NEW r \in Requests, NEW d \in DSPs, Post(r, d) PROVE Typed' /\ RefillsPast'
    <2>1. mu' \in [DSPs -> SUBSET Requests] /\ \A e \in DSPs : Cardinality(mu'[e]) <= 1
      <3>1. Cardinality({r}) = 1
        BY FS_Singleton
      <3> QED BY <1>3, <1>t, <3>1 DEF Post, TypeOK
    <2>2. pc' = [pc EXCEPT ![r][d] = "http"]
      BY <1>3 DEF Post, Goto
    <2>3. UNCHANGED <<phase, got, bidChan, bids, expired, answer, tokens, lastRefill, granted, metrics, now>>
      BY <1>3 DEF Post, limiterVars, handlerVars
    <2> QED BY <1>t, <2>1, <2>2, <2>3 DEF Typed, TypeOK, SendersHaveBids, RefillsPast
  <1>4. ASSUME NEW r \in Requests, NEW d \in DSPs, Respond(r, d) PROVE Typed' /\ RefillsPast'
    <2>1. PICK a \in {o \in Offers : o.dsp = d} \cup {NoBid} :
            /\ got' = [got EXCEPT ![r][d] = a]
            /\ pc' = [pc EXCEPT ![r][d] = IF a = NoBid THEN "done" ELSE "send"]
      BY <1>4 DEF Respond, Goto
    <2>2. mu' \in [DSPs -> SUBSET Requests] /\ \A e \in DSPs : Cardinality(mu'[e]) <= 1
      <3>1. Cardinality({}) = 0
        BY FS_EmptySet
      <3> QED BY <1>4, <1>t, <3>1 DEF Respond, TypeOK
    <2>3. UNCHANGED <<phase, bidChan, bids, expired, answer, tokens, lastRefill, granted, metrics, now>>
      BY <1>4 DEF Respond, limiterVars, handlerVars
    <2>4. got' \in [Requests -> [DSPs -> Offers \cup {NoBid}]]
      BY <2>1, <1>t DEF TypeOK
    <2>5. pc' \in [Requests -> [DSPs -> {"idle", "allow", "lock", "http", "send", "done"}]]
      BY <2>1, <1>t DEF TypeOK
    <2>6. SendersHaveBids'
      BY <2>1, <1>t DEF TypeOK, SendersHaveBids
    <2> QED BY <1>t, <2>2, <2>3, <2>4, <2>5, <2>6 DEF Typed, TypeOK, RefillsPast
  <1>5. ASSUME NEW r \in Requests, NEW d \in DSPs, SendBid(r, d) PROVE Typed' /\ RefillsPast'
    <2>1. got[r][d] \in Offers /\ bidChan[r] \in Seq(Offers) /\ Len(bidChan[r]) < Capacity
      BY <1>5, <1>t DEF SendBid, ChannelHasRoom, SendersHaveBids, TypeOK
    <2>2. bidChan' = [bidChan EXCEPT ![r] = Append(bidChan[r], got[r][d])]
      BY <1>5 DEF SendBid
    <2>3. /\ Append(bidChan[r], got[r][d]) \in Seq(Offers)
          /\ Len(Append(bidChan[r], got[r][d])) = Len(bidChan[r]) + 1
      BY <2>1
    <2>4. Capacity \in Nat
      BY FS_CardinalityType
    <2>5. bidChan' \in [Requests -> Seq(Offers)] /\ \A q \in Requests : Len(bidChan'[q]) <= Capacity
      BY <2>1, <2>2, <2>3, <2>4, <1>t DEF TypeOK
    <2>6. pc' = [pc EXCEPT ![r][d] = "done"]
      BY <1>5 DEF SendBid, Goto
    <2>7. UNCHANGED <<phase, got, bids, expired, answer, mu, tokens, lastRefill, granted, metrics, now>>
      BY <1>5 DEF SendBid, limiterVars, handlerVars
    <2> QED BY <1>t, <2>5, <2>6, <2>7 DEF Typed, TypeOK, SendersHaveBids, RefillsPast
  <1>6. ASSUME NEW r \in Requests, ReceiveBid(r) PROVE Typed' /\ RefillsPast'
    <2>1. bidChan[r] \in Seq(Offers) /\ bids[r] \in Seq(Offers) /\ bidChan[r] # <<>>
      BY <1>6, <1>t DEF ReceiveBid, TypeOK
    <2>2. /\ Tail(bidChan[r]) \in Seq(Offers) /\ Len(Tail(bidChan[r])) <= Len(bidChan[r])
          /\ Append(bids[r], Head(bidChan[r])) \in Seq(Offers)
      BY <2>1
    <2>3. /\ bids' = [bids EXCEPT ![r] = Append(bids[r], Head(bidChan[r]))]
          /\ bidChan' = [bidChan EXCEPT ![r] = Tail(bidChan[r])]
      BY <1>6 DEF ReceiveBid
    <2>4. Capacity \in Nat
      BY FS_CardinalityType
    <2>5. /\ bids' \in [Requests -> Seq(Offers)] /\ bidChan' \in [Requests -> Seq(Offers)]
          /\ \A q \in Requests : Len(bidChan'[q]) <= Capacity
      BY <2>1, <2>2, <2>3, <2>4, <1>t DEF TypeOK
    <2>6. UNCHANGED <<phase, pc, got, expired, answer, mu, tokens, lastRefill, granted, metrics, now>>
      BY <1>6 DEF ReceiveBid, limiterVars
    <2> QED BY <1>t, <2>5, <2>6 DEF Typed, TypeOK, SendersHaveBids, RefillsPast
  <1>7. ASSUME NEW r \in Requests, Timeout(r) PROVE Typed' /\ RefillsPast'
    BY <1>t, <1>7 DEF Timeout, Typed, TypeOK, SendersHaveBids, RefillsPast, limiterVars
  <1>8. ASSUME NEW r \in Requests, Finish(r) PROVE Typed' /\ RefillsPast'
    <2> DEFINE w == runAuction(r, bids[r])
    <2>1. bids[r] \in Seq(Offers)
      BY <1>t DEF TypeOK
    <2>2. w \in Offers \cup {NoBid}
      BY <2>1, AuctionIsBest DEF Bid
    <2>3. answer' = [answer EXCEPT ![r] = w]
      BY <1>8 DEF Finish
    <2>4. answer'[r] = w /\ answer' \in [Requests -> Offers \cup {NoBid}]
      BY <2>2, <2>3, <1>t DEF TypeOK
    <2>5. metrics' = [impressions |-> metrics.impressions + 1,
                      bids |-> metrics.bids + (IF w = NoBid THEN 0 ELSE 1),
                      revenue |-> metrics.revenue + (IF w = NoBid THEN 0 ELSE w.price \div Dollar)]
      BY <1>8, <2>4 DEF Finish, updateMetrics
    <2> HIDE DEF w
    <2>6. (IF w = NoBid THEN 0 ELSE w.price \div Dollar) \in Nat
      <3>1. CASE w = NoBid
        BY <3>1
      <3>2. CASE w # NoBid
        <4>1. w.price \in Nat /\ Dollar \in Nat \ {0}
          BY <2>2, <3>2
        <4> QED BY <4>1, Division
      <3> QED BY <3>1, <3>2
    <2>7. metrics' \in [impressions : Nat, bids : Nat, revenue : Nat]
      BY <2>5, <2>6, <1>t DEF TypeOK
    <2>8. phase' \in [Requests -> {"new", "collecting", "answered"}]
      BY <1>8, <1>t DEF Finish, TypeOK
    <2>9. UNCHANGED <<pc, got, bidChan, bids, expired, mu, tokens, lastRefill, granted, now>>
      BY <1>8 DEF Finish, limiterVars
    <2> QED BY <1>t, <2>4, <2>7, <2>8, <2>9 DEF Typed, TypeOK, SendersHaveBids, RefillsPast
  <1>9. ASSUME Tick PROVE Typed' /\ RefillsPast'
    <2>1. now' \in 0..MaxTime /\ now <= now'
      BY <1>9, <1>t DEF Tick, TypeOK
    <2>2. UNCHANGED <<phase, pc, got, bidChan, bids, expired, answer, mu, tokens, lastRefill, granted, metrics>>
      BY <1>9 DEF Tick, limiterVars
    <2>3. RefillsPast'
      <3>1. ASSUME NEW d \in DSPs PROVE lastRefill'[d] <= now'
        <4>1. lastRefill[d] \in 0..MaxTime /\ now \in 0..MaxTime /\ lastRefill[d] <= now
          BY <1>t DEF TypeOK, RefillsPast
        <4> QED BY <2>1, <2>2, <4>1
      <3> QED BY <3>1 DEF RefillsPast
    <2> QED BY <1>t, <2>1, <2>2, <2>3 DEF Typed, TypeOK, SendersHaveBids
  <1>10. CASE UNCHANGED vars
    BY <1>t, <1>10 DEF vars, Typed, TypeOK, SendersHaveBids, RefillsPast
  <1> QED
    BY <1>1, <1>2, <1>3, <1>4, <1>5, <1>6, <1>7, <1>8, <1>9, <1>10
       DEF Next, Progress, Handler, Goroutine

\* openrtb.go: every field keeps its type, no token count leaves
\* 0..RateLimiter.max, and a DSP's mutex has one holder at most.
THEOREM TypeCorrect == Spec => []TypeOK
  <1>1. Typed => TypeOK
    BY DEF Typed
  <1> QED BY <1>1, InitTyped, NextTyped, PTL DEF Spec

LEMMA AlwaysTyped == Spec => [](Typed /\ RefillsPast)
  BY InitTyped, NextTyped, PTL DEF Spec

-----------------------------------------------------------------------------
(* The rate limiter. *)

\* What a limiter has granted and what it still holds were both earned by its
\* last refill: the time since then is not spent yet.
Paced == \A d \in DSPs : granted[d] + tokens[d] <= MaxTokens + (lastRefill[d] \div Refill)

LEMMA AllowPaced ==
    ASSUME TypeOK, RefillsPast, Paced, NEW r \in Requests, NEW d \in DSPs, Allow(r, d)
    PROVE  Paced'
  <1> DEFINE available == Least(MaxTokens, tokens[d] + Earned(d))
             last == lastRefill[d] \div Refill
  <1>1. /\ Earned(d) \in Nat /\ available \in 0..MaxTokens
        /\ available <= tokens[d] + Earned(d)
    BY AllowTypes DEF RefillsPast
  <1>2. /\ tokens' = [tokens EXCEPT ![d] = IF available > 0 THEN available - 1 ELSE 0]
        /\ granted' = [granted EXCEPT ![d] = IF available > 0 THEN @ + 1 ELSE @]
        /\ lastRefill' = [lastRefill EXCEPT ![d] = IF Earned(d) > 0 THEN now ELSE @]
    BY DEF Allow
  <1>3. /\ granted[d] \in Nat /\ tokens[d] \in Nat /\ lastRefill[d] \in Nat /\ now \in Nat
        /\ Refill \in Nat \ {0} /\ MaxTokens \in Nat /\ lastRefill[d] <= now
    BY ExchangeAssumption DEF TypeOK, RefillsPast
  <1>4. last \in Nat /\ granted[d] + tokens[d] <= MaxTokens + last
    BY <1>3, Division DEF Paced
  <1>5. last + Earned(d) <= now \div Refill /\ now \div Refill \in Nat
    <2>1. now - lastRefill[d] \in Nat /\ lastRefill[d] + (now - lastRefill[d]) = now
      BY <1>3
    <2>2. last + ((now - lastRefill[d]) \div Refill) <= (lastRefill[d] + (now - lastRefill[d])) \div Refill
      BY <1>3, <2>1, DivisionAdds
    <2> QED BY <1>3, <2>1, <2>2, Division DEF Earned
  <1>6. /\ tokens'[d] = IF available > 0 THEN available - 1 ELSE 0
        /\ granted'[d] = IF available > 0 THEN granted[d] + 1 ELSE granted[d]
        /\ lastRefill'[d] = IF Earned(d) > 0 THEN now ELSE lastRefill[d]
    BY <1>2 DEF TypeOK
  <1> HIDE DEF available
  <1>7. granted'[d] + tokens'[d] = granted[d] + available
    BY <1>1, <1>3, <1>6
  <1>8. granted[d] + available <= MaxTokens + (lastRefill'[d] \div Refill)
    <2>1. CASE Earned(d) > 0
      <3>1. lastRefill'[d] \div Refill = now \div Refill
        BY <1>6, <2>1
      <3> HIDE DEF last
      <3> QED BY <1>1, <1>3, <1>4, <1>5, <3>1
    <2>2. CASE Earned(d) = 0
      <3>1. lastRefill'[d] \div Refill = last
        BY <1>6, <2>2
      <3> HIDE DEF last
      <3> QED BY <1>1, <1>3, <1>4, <2>2, <3>1
    <2> QED BY <2>1, <2>2, <1>1
  <1>9. ASSUME NEW e \in DSPs, e # d
        PROVE  granted'[e] + tokens'[e] <= MaxTokens + (lastRefill'[e] \div Refill)
    <2>1. granted'[e] = granted[e] /\ tokens'[e] = tokens[e] /\ lastRefill'[e] = lastRefill[e]
      BY <1>2, <1>9 DEF TypeOK
    <2> QED BY <2>1 DEF Paced
  <1>10. ASSUME NEW e \in DSPs
         PROVE  granted'[e] + tokens'[e] <= MaxTokens + (lastRefill'[e] \div Refill)
    <2>1. CASE e = d
      BY <2>1, <1>7, <1>8
    <2>2. CASE e # d
      BY <2>2, <1>9
    <2> QED BY <2>1, <2>2
  <1> QED BY <1>10 DEF Paced

\* RateLimiter.Allow: a DSP is asked at most MaxTokens times and once more per
\* refill period, however the requests that share its limiter interleave.
THEOREM RespectsRate == Spec => []RateLimited
  <1>1. Init => Paced
    <2> SUFFICES ASSUME Init PROVE Paced
      OBVIOUS
    <2>1. 0 \div Refill \in Nat /\ MaxTokens \in Nat
      BY ExchangeAssumption, Division
    <2> QED BY <2>1 DEF Init, Paced
  <1>2. Typed /\ RefillsPast /\ Paced /\ [Next]_vars => Paced'
    <2> SUFFICES ASSUME Typed, RefillsPast, Paced, [Next]_vars PROVE Paced'
      OBVIOUS
    <2>1. CASE \E r \in Requests, d \in DSPs : Allow(r, d)
      BY <2>1, AllowPaced DEF Typed
    <2>2. CASE UNCHANGED limiterVars
      BY <2>2 DEF limiterVars, Paced
    <2>3. \/ \E r \in Requests, d \in DSPs : Allow(r, d)
          \/ UNCHANGED limiterVars
      BY DEF Next, Progress, Handler, Goroutine, BidRequest, Post, Respond, SendBid,
             ReceiveBid, Timeout, Finish, Tick, vars, limiterVars
    <2> QED BY <2>1, <2>2, <2>3
  <1>3. Typed /\ RefillsPast /\ Paced => RateLimited
    <2> SUFFICES ASSUME TypeOK, RefillsPast, Paced, NEW d \in DSPs
                 PROVE  granted[d] <= MaxTokens + (now \div Refill)
      BY DEF Typed, RateLimited
    <2> DEFINE last == lastRefill[d] \div Refill
               rest == (now - lastRefill[d]) \div Refill
               whole == now \div Refill
    <2>1. /\ granted[d] \in Nat /\ tokens[d] \in Nat /\ lastRefill[d] \in Nat /\ now \in Nat
          /\ Refill \in Nat \ {0} /\ MaxTokens \in Nat /\ lastRefill[d] <= now
      BY ExchangeAssumption DEF TypeOK, RefillsPast
    <2>2. now - lastRefill[d] \in Nat /\ lastRefill[d] + (now - lastRefill[d]) = now
      BY <2>1
    <2>3. last \in Nat /\ rest \in Nat /\ whole \in Nat
      BY <2>1, <2>2, Division
    <2>4. last + rest <= whole
      BY <2>1, <2>2, DivisionAdds
    <2>5. granted[d] + tokens[d] <= MaxTokens + last
      BY DEF Paced
    <2> HIDE DEF last, rest, whole
    <2>6. granted[d] <= MaxTokens + whole
      BY <2>1, <2>3, <2>4, <2>5
    <2> QED BY <2>6 DEF whole
  <1> QED BY <1>1, <1>2, <1>3, AlwaysTyped, PTL DEF Spec

-----------------------------------------------------------------------------
(* The answers. *)

\* An answered request has the result of the auction over what it received.
AnsweredByAuction ==
    \A r \in Requests : phase[r] = "answered" => answer[r] = runAuction(r, bids[r])

\* BidRequest: the answer is the highest eligible bid received in time, in
\* whatever order the DSPs' goroutines delivered them.
THEOREM AnswersBest == Spec => []AnswerIsBestReceived
  <1>1. Init => AnsweredByAuction
    BY DEF Init, AnsweredByAuction
  <1>2. Typed /\ AnsweredByAuction /\ [Next]_vars => AnsweredByAuction'
    <2> SUFFICES ASSUME TypeOK, AnsweredByAuction, [Next]_vars,
                        NEW q \in Requests, phase'[q] = "answered"
                 PROVE  answer'[q] = runAuction(q, bids'[q])
      BY DEF Typed, AnsweredByAuction
    <2>1. CASE \E r \in Requests : Finish(r)
      <3>1. PICK r \in Requests : Finish(r)
        BY <2>1
      <3>2. /\ answer' = [answer EXCEPT ![r] = runAuction(r, bids[r])]
            /\ phase' = [phase EXCEPT ![r] = "answered"] /\ bids' = bids
        BY <3>1 DEF Finish
      <3>3. CASE q = r
        BY <3>2, <3>3 DEF TypeOK
      <3>4. CASE q # r
        BY <3>2, <3>4 DEF TypeOK, AnsweredByAuction
      <3> QED BY <3>3, <3>4
    <2>2. CASE \E r \in Requests : ReceiveBid(r)
      <3>1. PICK r \in Requests : ReceiveBid(r)
        BY <2>2
      <3>2. /\ phase[r] = "collecting" /\ UNCHANGED <<phase, answer>>
            /\ bids' = [bids EXCEPT ![r] = Append(bids[r], Head(bidChan[r]))]
        BY <3>1 DEF ReceiveBid
      <3>3. q # r /\ bids'[q] = bids[q]
        BY <3>2 DEF TypeOK
      <3> QED BY <3>2, <3>3 DEF AnsweredByAuction
    <2>3. CASE \E r \in Requests : BidRequest(r)
      <3>1. PICK r \in Requests : BidRequest(r)
        BY <2>3
      <3>2. phase[q] = "answered" /\ UNCHANGED <<bids, answer>>
        BY <3>1 DEF BidRequest, TypeOK
      <3> QED BY <3>2 DEF AnsweredByAuction
    <2>4. CASE UNCHANGED <<phase, bids, answer>>
      BY <2>4 DEF AnsweredByAuction
    <2>5. \/ \E r \in Requests : Finish(r)
          \/ \E r \in Requests : ReceiveBid(r)
          \/ \E r \in Requests : BidRequest(r)
          \/ UNCHANGED <<phase, bids, answer>>
      BY DEF Next, Progress, Handler, Goroutine, Allow, Post, Respond, SendBid,
             Timeout, Tick, vars, handlerVars
    <2> QED BY <2>1, <2>2, <2>3, <2>4, <2>5
  <1>3. Typed /\ AnsweredByAuction => AnswerIsBestReceived
    <2> SUFFICES ASSUME TypeOK, AnsweredByAuction, NEW r \in Requests, phase[r] = "answered"
                 PROVE  IsBest(answer[r],
                               {b \in ToSet(bids[r]) : Eligible(r, b) /\ b.price > 0})
      BY Zenon DEF Typed, AnswerIsBestReceived, IsBest
    <2>1. bids[r] \in Seq(Offers)
      BY DEF TypeOK
    <2>2. answer[r] = runAuction(r, bids[r])
      BY DEF AnsweredByAuction
    <2>3. ToSet(bids[r]) = {bids[r][i] : i \in 1..Len(bids[r])}
      BY <2>1 DEF ToSet
    <2> QED BY <2>1, <2>2, <2>3, AuctionIsBest DEF EligibleOf
  <1> QED BY <1>1, <1>2, <1>3, AlwaysTyped, PTL DEF Spec

-----------------------------------------------------------------------------
(* The channel. *)

DoneOf(r) == {d \in DSPs : pc[r][d] = "done"}

\* Every bid in the channel is from a goroutine that has ended, and a request
\* that has not come has no goroutine.
ChannelAccounted ==
    \A r \in Requests :
        /\ Len(bidChan[r]) <= Cardinality(DoneOf(r))
        /\ phase[r] = "new" => \A d \in DSPs : pc[r][d] = "idle"

\* The goroutines of a request that send find room in its channel.
SendersHaveRoom == \A r \in Requests, d \in DSPs : pc[r][d] = "send" => ChannelHasRoom(r)

\* A goroutine that ends is one more of those that have ended.
LEMMA DoneGrows ==
    ASSUME TypeOK, NEW r \in Requests, NEW d \in DSPs, NEW l \in {"lock", "http", "send", "done"},
           pc[r][d] # "done", pc' = [pc EXCEPT ![r][d] = l], NEW q \in Requests
    PROVE  /\ Cardinality(DoneOf(q)) \in Nat
           /\ Cardinality(DoneOf(q)') = Cardinality(DoneOf(q)) + (IF q = r /\ l = "done" THEN 1 ELSE 0)
  <1>1. IsFiniteSet(DoneOf(q))
    BY ExchangeAssumption, FS_Subset DEF DoneOf
  <1>2. Cardinality(DoneOf(q)) \in Nat
    BY <1>1, FS_CardinalityType
  <1>3. CASE q = r /\ l = "done"
    <2>1. DoneOf(q)' = DoneOf(q) \cup {d} /\ d \notin DoneOf(q)
      BY <1>3 DEF TypeOK, DoneOf
    <2> QED BY <1>1, <1>2, <1>3, <2>1, FS_AddElement
  <1>4. CASE ~ (q = r /\ l = "done")
    <2>1. DoneOf(q)' = DoneOf(q)
      BY <1>4 DEF TypeOK, DoneOf
    <2> QED BY <1>2, <1>4, <2>1
  <1> QED BY <1>3, <1>4

LEMMA InitChannel == Init => ChannelAccounted
  <1> SUFFICES ASSUME Init, NEW r \in Requests PROVE Len(bidChan[r]) <= Cardinality(DoneOf(r))
    BY DEF Init, ChannelAccounted
  <1>1. DoneOf(r) = {} /\ bidChan[r] = <<>>
    BY DEF Init, DoneOf
  <1> QED BY <1>1, FS_EmptySet

LEMMA NextChannel == Typed /\ ChannelAccounted /\ [Next]_vars => ChannelAccounted'
  <1> SUFFICES ASSUME TypeOK, SendersHaveBids, ChannelAccounted, [Next]_vars, NEW q \in Requests
               PROVE  /\ Len(bidChan'[q]) <= Cardinality(DoneOf(q)')
                      /\ phase'[q] = "new" => \A e \in DSPs : pc'[q][e] = "idle"
    BY DEF Typed, ChannelAccounted, DoneOf
  <1> DEFINE Goal == /\ Len(bidChan'[q]) <= Cardinality(DoneOf(q)')
                     /\ phase'[q] = "new" => \A e \in DSPs : pc'[q][e] = "idle"
  <1>t. /\ Len(bidChan[q]) \in Nat /\ Len(bidChan[q]) <= Cardinality(DoneOf(q))
        /\ phase[q] = "new" => \A e \in DSPs : pc[q][e] = "idle"
    <2>1. bidChan[q] \in Seq(Offers)
      BY DEF TypeOK
    <2> QED BY <2>1 DEF ChannelAccounted
  <1>1. ASSUME NEW r \in Requests, NEW d \in DSPs, NEW l \in {"lock", "http", "send", "done"},
               pc[r][d] \notin {"idle", "done"}, pc' = [pc EXCEPT ![r][d] = l],
               UNCHANGED phase, UNCHANGED bidChan
        PROVE  Goal
    <2>1. /\ Cardinality(DoneOf(q)) \in Nat
          /\ Cardinality(DoneOf(q)') = Cardinality(DoneOf(q)) + (IF q = r /\ l = "done" THEN 1 ELSE 0)
      BY <1>1, DoneGrows
    <2>2. Len(bidChan'[q]) <= Cardinality(DoneOf(q)')
      BY <1>1, <1>t, <2>1
    <2>3. phase'[q] = "new" => \A e \in DSPs : pc'[q][e] = "idle"
      BY <1>1, <1>t DEF TypeOK
    <2> QED BY <2>2, <2>3
  <1>2. CASE \E r \in Requests, d \in DSPs : Allow(r, d) \/ Post(r, d) \/ Respond(r, d)
    <2>1. PICK r \in Requests, d \in DSPs : Allow(r, d) \/ Post(r, d) \/ Respond(r, d)
      BY <1>2
    <2>2. \E l \in {"lock", "http", "send", "done"} : pc' = [pc EXCEPT ![r][d] = l]
      BY <2>1 DEF Allow, Post, Respond, Goto
    <2>3. pc[r][d] \notin {"idle", "done"} /\ UNCHANGED phase /\ UNCHANGED bidChan
      BY <2>1 DEF Allow, Post, Respond, handlerVars
    <2> QED BY <2>2, <2>3, <1>1
  <1>3. CASE \E r \in Requests, d \in DSPs : SendBid(r, d)
    <2>1. PICK r \in Requests, d \in DSPs : SendBid(r, d)
      BY <1>3
    <2>2. /\ pc[r][d] = "send" /\ pc' = [pc EXCEPT ![r][d] = "done"] /\ UNCHANGED phase
          /\ bidChan' = [bidChan EXCEPT ![r] = Append(bidChan[r], got[r][d])]
      BY <2>1 DEF SendBid, Goto, handlerVars
    <2>3. /\ Cardinality(DoneOf(q)) \in Nat
          /\ Cardinality(DoneOf(q)') = Cardinality(DoneOf(q)) + (IF q = r THEN 1 ELSE 0)
      BY <2>2, DoneGrows
    <2>4. Len(bidChan'[q]) = Len(bidChan[q]) + (IF q = r THEN 1 ELSE 0)
      <3>1. bidChan[q] \in Seq(Offers)
        BY DEF TypeOK
      <3>2. CASE q = r
        <4>1. bidChan'[q] = Append(bidChan[q], got[r][d])
          BY <2>2, <3>2 DEF TypeOK
        <4>2. Len(Append(bidChan[q], got[r][d])) = Len(bidChan[q]) + 1
          <5>1. got[r][d] \in Offers
            BY <2>2 DEF SendersHaveBids
          <5> QED BY <3>1, <5>1
        <4> QED BY <3>2, <4>1, <4>2
      <3>3. CASE q # r
        <4>1. bidChan'[q] = bidChan[q]
          BY <2>2, <3>3 DEF TypeOK
        <4> QED BY <3>3, <4>1, <1>t
      <3> QED BY <3>2, <3>3
    <2>5. Len(bidChan'[q]) <= Cardinality(DoneOf(q)')
      <3>1. CASE q = r
        BY <1>t, <2>3, <2>4, <3>1
      <3>2. CASE q # r
        BY <1>t, <2>3, <2>4, <3>2
      <3> QED BY <3>1, <3>2
    <2>6. phase'[q] = "new" => \A e \in DSPs : pc'[q][e] = "idle"
      BY <2>2, <1>t DEF TypeOK
    <2> QED BY <2>5, <2>6
  <1>4. CASE \E r \in Requests : BidRequest(r)
    <2>1. PICK r \in Requests : BidRequest(r)
      BY <1>4
    <2>2. /\ phase[r] = "new" /\ phase' = [phase EXCEPT ![r] = "collecting"]
          /\ pc' = [pc EXCEPT ![r] = [d \in DSPs |-> "allow"]] /\ UNCHANGED bidChan
      BY <2>1 DEF BidRequest
    <2>3. DoneOf(q)' = DoneOf(q)
      <3>1. CASE q = r
        <4>1. DoneOf(q) = {}
          BY <1>t, <2>2, <3>1 DEF DoneOf
        <4>2. pc'[q] = [d \in DSPs |-> "allow"]
          BY <2>2, <3>1 DEF TypeOK
        <4> QED BY <4>1, <4>2 DEF DoneOf
      <3>2. CASE q # r
        BY <2>2, <3>2 DEF TypeOK, DoneOf
      <3> QED BY <3>1, <3>2
    <2>4. phase'[q] = "new" => \A e \in DSPs : pc'[q][e] = "idle"
      BY <2>2, <1>t DEF TypeOK
    <2> QED BY <1>t, <2>2, <2>3, <2>4
  <1>5. CASE \E r \in Requests : ReceiveBid(r)
    <2>1. PICK r \in Requests : ReceiveBid(r)
      BY <1>5
    <2>2. /\ bidChan[r] # <<>> /\ bidChan' = [bidChan EXCEPT ![r] = Tail(bidChan[r])]
          /\ UNCHANGED <<phase, pc>>
      BY <2>1 DEF ReceiveBid
    <2>3. Len(bidChan'[q]) <= Len(bidChan[q]) /\ Len(bidChan'[q]) \in Nat
      <3>1. bidChan[q] \in Seq(Offers)
        BY DEF TypeOK
      <3>2. CASE q = r
        <4>1. bidChan'[q] = Tail(bidChan[q]) /\ bidChan[q] # <<>>
          BY <2>2, <3>2 DEF TypeOK
        <4> QED BY <3>1, <4>1
      <3>3. CASE q # r
        BY <2>2, <3>3, <1>t DEF TypeOK
      <3> QED BY <3>2, <3>3
    <2>4. DoneOf(q)' = DoneOf(q) /\ Cardinality(DoneOf(q)) \in Nat
      <3>1. IsFiniteSet(DoneOf(q))
        BY ExchangeAssumption, FS_Subset DEF DoneOf
      <3> QED BY <3>1, <2>2, FS_CardinalityType DEF DoneOf
    <2> QED BY <1>t, <2>2, <2>3, <2>4
  <1>6. CASE \E r \in Requests : Finish(r)
    <2>1. PICK r \in Requests : Finish(r)
      BY <1>6
    <2>2. phase' = [phase EXCEPT ![r] = "answered"] /\ UNCHANGED <<pc, bidChan>>
      BY <2>1 DEF Finish
    <2>3. phase'[q] = "new" => phase[q] = "new"
      BY <2>2 DEF TypeOK
    <2> QED BY <1>t, <2>2, <2>3 DEF DoneOf
  <1>7. CASE UNCHANGED <<phase, pc, bidChan>>
    BY <1>7, <1>t DEF DoneOf
  <1>8. \/ \E r \in Requests, d \in DSPs : Allow(r, d) \/ Post(r, d) \/ Respond(r, d)
        \/ \E r \in Requests, d \in DSPs : SendBid(r, d)
        \/ \E r \in Requests : BidRequest(r)
        \/ \E r \in Requests : ReceiveBid(r)
        \/ \E r \in Requests : Finish(r)
        \/ UNCHANGED <<phase, pc, bidChan>>
    BY DEF Next, Progress, Handler, Goroutine, Timeout, Tick, vars
  <1> QED BY <1>2, <1>3, <1>4, <1>5, <1>6, <1>7, <1>8

\* collectBids makes bidChan with room for every DSP: a goroutine that sends is
\* never held up, not even after its request was answered at the timeout and
\* nobody receives any more.
THEOREM SendersNeverBlock == Spec => []SendersHaveRoom
  <1>1. Typed /\ ChannelAccounted => SendersHaveRoom
    <2> SUFFICES ASSUME ChannelAccounted, NEW r \in Requests, NEW d \in DSPs, pc[r][d] = "send", TypeOK
                 PROVE  Len(bidChan[r]) < Capacity
      BY DEF Typed, SendersHaveRoom, ChannelHasRoom
    <2>1. IsFiniteSet(DSPs) /\ Capacity = Cardinality(DSPs)
      BY ExchangeAssumption
    <2>2. DoneOf(r) \subseteq DSPs /\ DoneOf(r) # DSPs
      BY DEF DoneOf
    <2>3. Cardinality(DoneOf(r)) < Cardinality(DSPs)
      <3>1. IsFiniteSet(DoneOf(r)) /\ Cardinality(DoneOf(r)) <= Cardinality(DSPs)
        BY <2>1, <2>2, FS_Subset
      <3>2. Cardinality(DoneOf(r)) # Cardinality(DSPs)
        BY <2>1, <2>2, FS_Subset
      <3> QED BY <2>1, <3>1, <3>2, FS_CardinalityType
    <2>4. Len(bidChan[r]) <= Cardinality(DoneOf(r)) /\ Len(bidChan[r]) \in Nat
      <3>1. bidChan[r] \in Seq(Offers)
        BY DEF TypeOK
      <3> QED BY <3>1 DEF ChannelAccounted
    <2>5. Cardinality(DoneOf(r)) \in Nat /\ Cardinality(DSPs) \in Nat
      BY <2>1, <2>2, FS_Subset, FS_CardinalityType
    <2> QED BY <2>1, <2>3, <2>4, <2>5
  <1> QED BY <1>1, InitChannel, NextChannel, AlwaysTyped, PTL DEF Spec


-----------------------------------------------------------------------------
(* The tracker: where a call can be. *)

Places ==
    {"add", "send", "bucket", "fill", "fill-requests", "fill-impressions", "fill-store", "latency",
     "latency-count", "latency-store", "p95", "p95-store", "p99", "p99-store", "publisher",
     "miner", "store", "pod", "pod-rate", "pod-count", "pod-store", "done",
     "panicked"}

\* The places of each operation.
PlaceOf(o, l) ==
    /\ o.kind = "request" => l \in {"add", "send", "bucket", "done", "panicked"}
    /\ o.kind = "response" =>
         \/ o.filled /\ l \in {"fill", "fill-requests", "fill-impressions", "fill-store"}
         \/ l \in {"latency", "latency-count", "latency-store", "p95", "p95-store", "p99",
                   "p99-store", "done"}
    /\ o.kind = "impression" =>
         \/ l \in {"publisher", "store", "done"}
         \/ o.miner # NoMiner /\ l = "miner"
    /\ o.kind = "pod" => l \in {"pod", "pod-rate", "pod-count", "pod-store", "done"}

CallsTyped ==
    /\ op \in [Calls -> Operations] /\ at \in [Calls -> Places]
    /\ \A k \in Calls : PlaceOf(op[k], at[k])

CountersTyped ==
    /\ reg \in [Calls -> [1..2 -> Nat]]
    /\ totalRequests \in Nat /\ totalImpressions \in Nat /\ totalRevenue \in Nat /\ fillRate \in Nat
    /\ averageLatency \in Nat /\ p95Latency \in Nat /\ p99Latency \in Nat
    /\ totalPods \in Nat /\ podCompletionRate \in Nat
    /\ stream \in 0..StreamCapacity /\ minute \in 0..MaxMinute
    /\ buckets \in [0..MaxMinute -> Nat]
    /\ pubStats \in [Known -> [impressions : Nat, revenue : Nat]]
    /\ minerStats \in [Miners -> [served : Nat, earnings : Nat]]
    /\ events \subseteq Calls

TrackerTypeOK == CallsTyped /\ CountersTyped

\* What the fields of an operation are.
LEMMA OperationTypes ==
    ASSUME NEW o \in Operations
    PROVE  /\ o.kind \in {"request", "response", "impression", "pod"}
           /\ o.kind = "response" => o.filled \in BOOLEAN /\ o.price \in Nat /\ o.latency \in Nat
           /\ o.kind = "impression" =>
                o.publisher \in Publishers /\ o.miner \in Miners \cup {NoMiner} /\ o.price \in Nat
           /\ o.kind = "pod" => o.completed \in BOOLEAN
  <1>1. o \in Operation
    BY OperationsAssumption
  <1>2. CASE o \in [kind : {"request"}, hasPublisher : BOOLEAN]
    BY <1>2
  <1>3. CASE o \in [kind : {"response"}, filled : BOOLEAN, price : Prices, latency : Latencies]
    BY <1>3, AnalyticsAssumption
  <1>4. CASE o \in [kind : {"impression"}, publisher : Publishers, miner : Miners \cup {NoMiner},
                    price : Prices]
    BY <1>4, AnalyticsAssumption
  <1>5. CASE o \in [kind : {"pod"}, completed : BOOLEAN]
    BY <1>5
  <1> QED BY <1>1, <1>2, <1>3, <1>4, <1>5 DEF Operation

\* Where an operation begins.
LEMMA EntryOf ==
    ASSUME NEW o
    PROVE  /\ o.kind = "request" => Entry(o) = "add"
           /\ o.kind = "response" => Entry(o) = IF o.filled THEN "fill" ELSE "latency"
           /\ o.kind = "impression" => Entry(o) = "publisher"
           /\ o.kind = "pod" => Entry(o) = "pod"
  BY DEF Entry

\* Which operation a call runs can be told from where it is.
LEMMA KindAt ==
    ASSUME TrackerTypeOK, NEW k \in Calls
    PROVE  /\ op[k] \in Operations
           /\ at[k] \in {"add", "send", "bucket", "panicked"} => op[k].kind = "request"
           /\ at[k] \in {"fill", "fill-requests", "fill-impressions", "fill-store"}
                => op[k].kind = "response" /\ op[k].filled
           /\ at[k] \in {"latency", "latency-count", "latency-store", "p95", "p95-store", "p99",
                         "p99-store"} => op[k].kind = "response"
           /\ at[k] \in {"publisher", "miner", "store"} => op[k].kind = "impression"
           /\ at[k] = "miner" => op[k].miner \in Miners
           /\ at[k] \in {"pod", "pod-rate", "pod-count", "pod-store"} => op[k].kind = "pod"
  <1>1. op[k] \in Operations /\ PlaceOf(op[k], at[k])
    BY DEF TrackerTypeOK, CallsTyped
  <1>2. /\ op[k].kind \in {"request", "response", "impression", "pod"}
        /\ op[k].kind = "impression" => op[k].miner \in Miners \cup {NoMiner}
    BY <1>1, OperationTypes
  <1>3. CASE op[k].kind = "request"
    BY <1>1, <1>3 DEF PlaceOf
  <1>4. CASE op[k].kind = "response"
    BY <1>1, <1>4 DEF PlaceOf
  <1>5. CASE op[k].kind = "impression"
    BY <1>1, <1>2, <1>5 DEF PlaceOf
  <1>6. CASE op[k].kind = "pod"
    BY <1>1, <1>6 DEF PlaceOf
  <1> QED BY <1>2, <1>3, <1>4, <1>5, <1>6

\* A step of call k takes it to another place of its operation, never back to
\* the first one.
Moves(k, from, to) ==
    /\ at[k] = from /\ from # to /\ at' = [at EXCEPT ![k] = to] /\ op' = op
    /\ to \in Places /\ PlaceOf(op[k], to) /\ to # Entry(op[k])

\* The moves of each kind.
LEMMA RequestMoves ==
    ASSUME TrackerTypeOK, NEW k \in Calls, NEW from, NEW to, Advance(k, from, to),
           <<from, to>> \in {<<"add", "send">>, <<"add", "panicked">>, <<"send", "bucket">>,
                             <<"bucket", "done">>}
    PROVE  Moves(k, from, to) /\ op[k].kind = "request"
  <1>1. at[k] = from /\ at' = [at EXCEPT ![k] = to] /\ op' = op
    BY DEF Advance
  <1>2. from \in {"add", "send", "bucket"} /\ to \in {"send", "bucket", "done", "panicked"}
        /\ from # to
    OBVIOUS
  <1>3. op[k].kind = "request" /\ Entry(op[k]) = "add"
    BY <1>1, <1>2, KindAt, EntryOf
  <1>4. to \in Places /\ PlaceOf(op[k], to)
    BY <1>2, <1>3 DEF Places, PlaceOf
  <1> QED BY <1>1, <1>2, <1>3, <1>4 DEF Moves

LEMMA ResponseMoves ==
    ASSUME TrackerTypeOK, NEW k \in Calls, NEW from, NEW to, Advance(k, from, to),
           <<from, to>> \in {<<"fill", "fill-requests">>, <<"fill-requests", "fill-impressions">>,
             <<"fill-impressions", "fill-store">>, <<"fill-store", "latency">>,
             <<"latency", "latency-count">>, <<"latency-count", "latency-store">>,
             <<"latency-store", "p95">>, <<"p95", "p95-store">>, <<"p95", "p99">>,
             <<"p95-store", "p99">>, <<"p99", "p99-store">>, <<"p99", "done">>,
             <<"p99-store", "done">>}
    PROVE  Moves(k, from, to) /\ op[k].kind = "response"
  <1>1. at[k] = from /\ at' = [at EXCEPT ![k] = to] /\ op' = op
    BY DEF Advance
  <1>2. CASE from \in {"fill", "fill-requests", "fill-impressions", "fill-store"}
    <2>1. to \in {"fill-requests", "fill-impressions", "fill-store", "latency"} /\ from # to
      BY <1>2
    <2>2. op[k].kind = "response" /\ op[k].filled /\ Entry(op[k]) = "fill"
      BY <1>1, <1>2, KindAt, EntryOf
    <2>3. to \in Places /\ PlaceOf(op[k], to)
      BY <2>1, <2>2 DEF Places, PlaceOf
    <2> QED BY <1>1, <2>1, <2>2, <2>3 DEF Moves
  <1>3. CASE from \in {"latency", "latency-count", "latency-store", "p95", "p95-store", "p99",
                       "p99-store"}
    <2>1. /\ to \in {"latency-count", "latency-store", "p95", "p95-store", "p99", "p99-store", "done"}
          /\ from # to
      BY <1>3
    <2>2. op[k].kind = "response" /\ Entry(op[k]) \in {"fill", "latency"}
      BY <1>1, <1>3, KindAt, EntryOf
    <2>3. to \in Places /\ PlaceOf(op[k], to)
      BY <2>1, <2>2 DEF Places, PlaceOf
    <2> QED BY <1>1, <2>1, <2>2, <2>3 DEF Moves
  <1> QED BY <1>2, <1>3

LEMMA ImpressionMoves ==
    ASSUME TrackerTypeOK, NEW k \in Calls, NEW from, NEW to, Advance(k, from, to),
           <<from, to>> \in {<<"publisher", "store">>, <<"publisher", "miner">>,
                             <<"miner", "store">>, <<"store", "done">>},
           to = "miner" => op[k].miner # NoMiner
    PROVE  Moves(k, from, to) /\ op[k].kind = "impression"
  <1>1. at[k] = from /\ at' = [at EXCEPT ![k] = to] /\ op' = op
    BY DEF Advance
  <1>2. from \in {"publisher", "miner", "store"} /\ to \in {"miner", "store", "done"} /\ from # to
    OBVIOUS
  <1>3. op[k].kind = "impression" /\ Entry(op[k]) = "publisher"
    BY <1>1, <1>2, KindAt, EntryOf
  <1>4. to \in Places /\ PlaceOf(op[k], to)
    BY <1>2, <1>3 DEF Places, PlaceOf
  <1> QED BY <1>1, <1>2, <1>3, <1>4 DEF Moves

LEMMA PodMoves ==
    ASSUME TrackerTypeOK, NEW k \in Calls, NEW from, NEW to, Advance(k, from, to),
           <<from, to>> \in {<<"pod", "pod-rate">>, <<"pod", "done">>, <<"pod-rate", "pod-count">>,
                             <<"pod-count", "pod-store">>, <<"pod-store", "done">>}
    PROVE  Moves(k, from, to) /\ op[k].kind = "pod"
  <1>1. at[k] = from /\ at' = [at EXCEPT ![k] = to] /\ op' = op
    BY DEF Advance
  <1>2. /\ from \in {"pod", "pod-rate", "pod-count", "pod-store"}
        /\ to \in {"pod-rate", "pod-count", "pod-store", "done"} /\ from # to
    OBVIOUS
  <1>3. op[k].kind = "pod" /\ Entry(op[k]) = "pod"
    BY <1>1, <1>2, KindAt, EntryOf
  <1>4. to \in Places /\ PlaceOf(op[k], to)
    BY <1>2, <1>3 DEF Places, PlaceOf
  <1> QED BY <1>1, <1>2, <1>3, <1>4 DEF Moves

-----------------------------------------------------------------------------
(* The tracker: averages, percentiles and rates. *)

AverageFine == \E x \in Observed : averageLatency <= x
PercentilesFine == p95Latency \in Observed /\ p99Latency \in Observed
LoadedFine ==
    \A k \in Calls : at[k] \in {"latency-count", "latency-store"} =>
      \E x \in Observed : reg[k][1] <= x
PodsFine ==
    /\ podCompletionRate <= 100
    /\ \A k \in Calls :
         /\ at[k] \in {"pod-count", "pod-store"} => reg[k][1] <= 100
         /\ at[k] = "pod-store" => reg[k][2] >= 1
         /\ at[k] \in {"pod-rate", "pod-count", "pod-store"} => totalPods >= 1

RatesFine == AverageFine /\ PercentilesFine /\ LoadedFine /\ PodsFine

\* What was measured stays measured; the latency of the call that moves is.
LEMMA ObservedGrows ==
    ASSUME TrackerTypeOK, NEW k \in Calls, NEW from, NEW to, Moves(k, from, to)
    PROVE  /\ Observed \subseteq Observed'
           /\ op[k].kind = "response" => op[k].latency \in Observed'
  <1>1. op' = op /\ \A j \in Calls : at'[j] = IF j = k THEN to ELSE at[j]
    BY DEF Moves, TrackerTypeOK, CallsTyped
  <1>2. to # Entry(op[k])
    BY DEF Moves
  <1>3. ASSUME NEW j \in Calls, op[j].kind = "response", at[j] # Entry(op[j]) \/ j = k
        PROVE  op[j].latency \in Observed'
    <2>1. at'[j] # Entry(op'[j]) /\ op'[j].kind = "response" /\ op[j].latency = op'[j].latency
      BY <1>1, <1>2, <1>3
    <2> QED BY <2>1 DEF Observed
  <1>4. ASSUME NEW x \in Observed PROVE x \in Observed'
    <2>1. CASE x = 0
      BY <2>1 DEF Observed
    <2>2. CASE x # 0
      <3>1. PICK j \in Calls : op[j].kind = "response" /\ at[j] # Entry(op[j]) /\ x = op[j].latency
        BY <2>2 DEF Observed
      <3> QED BY <1>3, <3>1
    <2> QED BY <2>1, <2>2
  <1> QED BY <1>3, <1>4

\* What was measured is a number.
LEMMA ObservedNat ==
    ASSUME TrackerTypeOK
    PROVE  Observed \subseteq Nat /\ Observed # {} /\ 0 \in Observed
  <1>1. \A k \in Calls : op[k].kind = "response" => op[k].latency \in Nat
    BY OperationTypes DEF TrackerTypeOK, CallsTyped
  <1> QED BY <1>1 DEF Observed

\* A weighted average is at most the larger of the two.
LEMMA WeightedAtMost ==
    ASSUME NEW old \in Nat, NEW count \in Nat \ {0}, NEW new \in Nat, NEW bound \in Nat,
           old <= bound, new <= bound
    PROVE  weighted(old, count, new) \in Nat /\ weighted(old, count, new) <= bound
  <1> DEFINE n == old * (count - 1) + new
  <1>1. PICK c \in Nat : count = c + 1
    <2>1. count - 1 \in Nat /\ count = (count - 1) + 1
      OBVIOUS
    <2> QED BY <2>1
  <1>2. count - 1 = c
    BY <1>1
  <1>3. n = old * c + new
    BY <1>2
  <1>4. old * c \in Nat /\ old * c <= bound * c /\ bound * c \in Nat
    <2>1. old * c \in Int /\ old * c <= bound * c
      BY PartOfWhole
    <2> QED BY <2>1
  <1>5. bound * count = bound * c + bound
    BY <1>1
  <1> HIDE DEF n
  <1>6. n \in Nat /\ n <= bound * count
    BY <1>3, <1>4, <1>5
  <1>7. n \div count \in Nat /\ n \div count <= bound
    BY <1>6, QuotientNat, QuotientAtMost
  <1> QED BY <1>7 DEF weighted, n

\* The calls after a move.
LEMMA MovedCalls ==
    ASSUME TrackerTypeOK, NEW k \in Calls, NEW from, NEW to, Moves(k, from, to)
    PROVE  /\ op' = op /\ op' \in [Calls -> Operations] /\ at' \in [Calls -> Places]
           /\ \A j \in Calls : PlaceOf(op'[j], at'[j])
           /\ \A j \in Calls : at'[j] = IF j = k THEN to ELSE at[j]
           /\ at[k] = from /\ at'[k] = to /\ from # to
  <1>1. /\ at[k] = from /\ at' = [at EXCEPT ![k] = to] /\ op' = op /\ from # to
        /\ to \in Places /\ PlaceOf(op[k], to)
    BY DEF Moves
  <1>2. /\ op \in [Calls -> Operations] /\ at \in [Calls -> Places]
        /\ \A j \in Calls : PlaceOf(op[j], at[j])
    BY DEF TrackerTypeOK, CallsTyped
  <1>3. \A j \in Calls : at'[j] = IF j = k THEN to ELSE at[j]
    BY <1>1, <1>2
  <1>4. at' \in [Calls -> Places]
    BY <1>1, <1>2
  <1>5. ASSUME NEW j \in Calls PROVE PlaceOf(op'[j], at'[j])
    <2>1. CASE j = k
      BY <1>1, <1>3, <2>1
    <2>2. CASE j # k
      BY <1>1, <1>2, <1>3, <2>2
    <2> QED BY <2>1, <2>2
  <1> QED BY <1>1, <1>2, <1>3, <1>4, <1>5

\* A move of another operation keeps the pods.
LEMMA PodsKept ==
    ASSUME TrackerTypeOK, RatesFine, NEW k \in Calls, NEW from, NEW to, Moves(k, from, to),
           podCompletionRate' = podCompletionRate, totalPods' = totalPods,
           \A j \in Calls \ {k} : reg'[j] = reg[j],
           to \notin {"pod-rate", "pod-count", "pod-store"}
    PROVE  PodsFine'
  <1>1. \A j \in Calls : at'[j] = IF j = k THEN to ELSE at[j]
    BY MovedCalls
  <1>2. podCompletionRate' <= 100
    BY DEF RatesFine, PodsFine
  <1>3. ASSUME NEW j \in Calls
        PROVE  /\ at'[j] \in {"pod-count", "pod-store"} => reg'[j][1] <= 100
               /\ at'[j] = "pod-store" => reg'[j][2] >= 1
               /\ at'[j] \in {"pod-rate", "pod-count", "pod-store"} => totalPods' >= 1
    <2>1. CASE j = k
      BY <1>1, <2>1
    <2>2. CASE j # k
      <3>1. at'[j] = at[j] /\ reg'[j] = reg[j]
        BY <1>1, <2>2
      <3> QED BY <3>1 DEF RatesFine, PodsFine
    <2> QED BY <2>1, <2>2
  <1> QED BY <1>2, <1>3 DEF PodsFine

LEMMA LoadedKept ==
    ASSUME TrackerTypeOK, RatesFine, NEW k \in Calls, NEW from, NEW to, Moves(k, from, to),
           \A j \in Calls \ {k} : reg'[j] = reg[j],
           to \in {"latency-count", "latency-store"} => \E x \in Observed : reg'[k][1] <= x
    PROVE  LoadedFine'
  <1>1. Observed \subseteq Observed'
    BY ObservedGrows
  <1>2. \A j \in Calls : at'[j] = IF j = k THEN to ELSE at[j]
    BY MovedCalls
  <1> SUFFICES ASSUME NEW j \in Calls, at'[j] \in {"latency-count", "latency-store"}
               PROVE  \E x \in Observed' : reg'[j][1] <= x
    BY DEF LoadedFine
  <1>3. CASE j = k
    BY <1>1, <1>2, <1>3
  <1>4. CASE j # k
    <2>1. at'[j] = at[j] /\ reg'[j] = reg[j]
      BY <1>2, <1>4
    <2>2. \E x \in Observed : reg[j][1] <= x
      BY <2>1 DEF RatesFine, LoadedFine
    <2> QED BY <1>1, <2>1, <2>2
  <1> QED BY <1>3, <1>4

\* A move that loads and stores nothing the rates depend on.
LEMMA QuietRates ==
    ASSUME TrackerTypeOK, RatesFine, NEW k \in Calls, NEW from, NEW to, Moves(k, from, to),
           UNCHANGED <<averageLatency, p95Latency, p99Latency, podCompletionRate, totalPods>>,
           \A j \in Calls \ {k} : reg'[j] = reg[j],
           to \notin {"latency-count", "latency-store", "pod-rate", "pod-count", "pod-store"}
    PROVE  RatesFine'
  <1>1. Observed \subseteq Observed'
    BY ObservedGrows
  <1>2. AverageFine' /\ PercentilesFine'
    BY <1>1 DEF RatesFine, AverageFine, PercentilesFine
  <1>3. LoadedFine' /\ PodsFine'
    BY LoadedKept, PodsKept
  <1> QED BY <1>2, <1>3 DEF RatesFine

-----------------------------------------------------------------------------
(* The tracker: ledgers. *)

\* The calls of a kind that have left the places where they have not counted.
Past(kind, before) == {k \in Calls : op[k].kind = kind /\ at[k] \notin before}

PastPublisher(p) == {k \in Past("impression", {"publisher"}) : op[k].publisher = p}
PastMiner(m) == {k \in Past("impression", {"publisher", "miner"}) : op[k].miner = m}

RequestsCounted == totalRequests = Cardinality(Past("request", {"add"}))
BucketsCounted ==
    SumFunctionOnSet(buckets, 0..MaxMinute)
      = Cardinality(Past("request", {"add", "send", "bucket", "panicked"}))
PodsCounted == totalPods = Cardinality(Past("pod", {"pod"}))
EventsStored == events = Past("impression", {"publisher", "miner", "store"})
PublishersPaid ==
    \A p \in Known : /\ pubStats[p].impressions = Cardinality(PastPublisher(p))
                     /\ pubStats[p].revenue = Shares(PastPublisher(p), 10)
MinersPaid ==
    \A m \in Miners : /\ minerStats[m].served = Cardinality(PastMiner(m))
                      /\ minerStats[m].earnings = Shares(PastMiner(m), 100)

LedgersFine ==
    /\ RequestsCounted /\ BucketsCounted /\ PodsCounted
    /\ EventsStored /\ PublishersPaid /\ MinersPaid

LEMMA PastFinite ==
    ASSUME NEW kind, NEW before
    PROVE  Past(kind, before) \subseteq Calls /\ IsFiniteSet(Past(kind, before))
  <1>1. Past(kind, before) \subseteq Calls
    BY DEF Past
  <1> QED BY <1>1, AnalyticsAssumption, FS_Subset

\* A move that does not leave the places before, or one of another kind.
LEMMA PastSame ==
    ASSUME TrackerTypeOK, NEW k \in Calls, NEW from, NEW to, Moves(k, from, to),
           NEW kind, NEW before, op[k].kind = kind => (from \in before <=> to \in before)
    PROVE  Past(kind, before)' = Past(kind, before)
  <1>1. op' = op /\ at[k] = from /\ \A j \in Calls : at'[j] = IF j = k THEN to ELSE at[j]
    BY MovedCalls
  <1>2. ASSUME NEW j \in Calls PROVE j \in Past(kind, before)' <=> j \in Past(kind, before)
    <2>1. CASE j = k
      BY <1>1, <2>1 DEF Past
    <2>2. CASE j # k
      BY <1>1, <2>2 DEF Past
    <2> QED BY <2>1, <2>2
  <1>3. Past(kind, before)' \subseteq Calls /\ Past(kind, before) \subseteq Calls
    BY DEF Past
  <1> QED BY <1>2, <1>3

\* A move that leaves them.
LEMMA PastGrows ==
    ASSUME TrackerTypeOK, NEW k \in Calls, NEW from, NEW to, Moves(k, from, to),
           NEW kind, NEW before, op[k].kind = kind, from \in before, to \notin before
    PROVE  /\ Past(kind, before)' = Past(kind, before) \cup {k}
           /\ k \notin Past(kind, before)
  <1>1. op' = op /\ at[k] = from /\ \A j \in Calls : at'[j] = IF j = k THEN to ELSE at[j]
    BY MovedCalls
  <1>2. k \in Past(kind, before)' /\ k \notin Past(kind, before)
    BY <1>1 DEF Past
  <1>3. ASSUME NEW j \in Calls, j # k PROVE j \in Past(kind, before)' <=> j \in Past(kind, before)
    BY <1>1, <1>3 DEF Past
  <1>4. Past(kind, before)' \subseteq Calls /\ Past(kind, before) \subseteq Calls
    BY DEF Past
  <1> QED BY <1>2, <1>3, <1>4

\* One call more is one more.
LEMMA OneMore ==
    ASSUME NEW S \in SUBSET Calls, NEW k \in Calls, k \notin S
    PROVE  /\ IsFiniteSet(S) /\ Cardinality(S) \in Nat
           /\ Cardinality(S \cup {k}) = Cardinality(S) + 1
  <1>1. IsFiniteSet(S)
    BY AnalyticsAssumption, FS_Subset
  <1> QED BY <1>1, FS_AddElement, FS_CardinalityType

\* The share of one call more is added.
LEMMA SharesAdd ==
    ASSUME NEW S \in SUBSET Calls, NEW k \in Calls, k \notin S, NEW part \in Nat \ {0},
           \A j \in S \cup {k} : op[j].price \in Nat
    PROVE  Shares(S \cup {k}, part) = Shares(S, part) + op[k].price \div part
  <1> DEFINE f == [j \in S |-> op[j].price \div part]
             g == [j \in S \cup {k} |-> op[j].price \div part]
  <1>1. IsFiniteSet(S)
    BY AnalyticsAssumption, FS_Subset
  <1>2. ASSUME NEW j \in S \cup {k} PROVE op[j].price \div part \in Nat
    BY QuotientNat
  <1>3. \A j \in S \cup {k} : g[j] \in Int
    BY <1>2
  <1>4. \A j \in S : f[j] = g[j] /\ f[j] \in Int
    BY <1>2
  <1>5. g[k] = op[k].price \div part
    OBVIOUS
  <1>6. Shares(S, part) = SumFunctionOnSet(f, S) /\ Shares(S \cup {k}, part) = SumFunctionOnSet(g, S \cup {k})
    BY DEF Shares
  <1> HIDE DEF f, g
  <1>7. SumFunctionOnSet(g, S \cup {k}) = g[k] + SumFunctionOnSet(g, S)
    BY <1>1, <1>3, SumAdd
  <1>8. SumFunctionOnSet(f, S) = SumFunctionOnSet(g, S)
    BY <1>1, <1>3, <1>4, SumEqual
  <1>9. SumFunctionOnSet(f, S) \in Int /\ g[k] \in Int
    BY <1>1, <1>3, <1>4, SumInt
  <1> QED BY <1>5, <1>6, <1>7, <1>8, <1>9

\* Prices of impressions are numbers, those of a publisher's and a miner's too.
LEMMA PricesNat ==
    ASSUME TrackerTypeOK, NEW k \in Calls, op[k].kind = "impression"
    PROVE  op[k].price \in Nat
  BY OperationTypes DEF TrackerTypeOK, CallsTyped

\* The accounts of publishers and miners when nobody has moved past them.
LEMMA SamePublishers ==
    ASSUME TrackerTypeOK, PublishersPaid, op' = op, pubStats' = pubStats,
           \A p \in Known : PastPublisher(p)' = PastPublisher(p)
    PROVE  PublishersPaid'
  <1> SUFFICES ASSUME NEW p \in Known
               PROVE  /\ pubStats'[p].impressions = Cardinality(PastPublisher(p)')
                      /\ pubStats'[p].revenue = Shares(PastPublisher(p), 10)'
    BY DEF PublishersPaid
  <1> DEFINE S == PastPublisher(p)
             T == PastPublisher(p)'
  <1>1. T = S
    OBVIOUS
  <1>2. pubStats[p].impressions = Cardinality(S) /\ pubStats[p].revenue = Shares(S, 10)
    BY DEF PublishersPaid
  <1>3. Shares(PastPublisher(p), 10)' = Shares(S, 10)
    <2> HIDE DEF PastPublisher
    <2> QED BY <1>1 DEF Shares
  <1> QED BY <1>1, <1>2, <1>3

LEMMA SameMiners ==
    ASSUME TrackerTypeOK, MinersPaid, op' = op, minerStats' = minerStats,
           \A m \in Miners : PastMiner(m)' = PastMiner(m)
    PROVE  MinersPaid'
  <1> SUFFICES ASSUME NEW m \in Miners
               PROVE  /\ minerStats'[m].served = Cardinality(PastMiner(m)')
                      /\ minerStats'[m].earnings = Shares(PastMiner(m), 100)'
    BY DEF MinersPaid
  <1> DEFINE S == PastMiner(m)
             T == PastMiner(m)'
  <1>1. T = S
    OBVIOUS
  <1>2. minerStats[m].served = Cardinality(S) /\ minerStats[m].earnings = Shares(S, 100)
    BY DEF MinersPaid
  <1>3. Shares(PastMiner(m), 100)' = Shares(S, 100)
    <2> HIDE DEF PastMiner
    <2> QED BY <1>1 DEF Shares
  <1> QED BY <1>1, <1>2, <1>3

\* What a call of another kind leaves alone.
LEMMA NotRequest ==
    ASSUME TrackerTypeOK, LedgersFine, NEW k \in Calls, NEW from, NEW to, Moves(k, from, to),
           op[k].kind # "request", UNCHANGED <<totalRequests, buckets>>
    PROVE  RequestsCounted' /\ BucketsCounted'
  <1>1. /\ Past("request", {"add"})' = Past("request", {"add"})
        /\ Past("request", {"add", "send", "bucket", "panicked"})'
             = Past("request", {"add", "send", "bucket", "panicked"})
    BY PastSame
  <1> QED BY <1>1 DEF LedgersFine, RequestsCounted, BucketsCounted

LEMMA NotPod ==
    ASSUME TrackerTypeOK, LedgersFine, NEW k \in Calls, NEW from, NEW to, Moves(k, from, to),
           op[k].kind # "pod", UNCHANGED totalPods
    PROVE  PodsCounted'
  <1>1. Past("pod", {"pod"})' = Past("pod", {"pod"})
    BY PastSame
  <1> QED BY <1>1 DEF LedgersFine, PodsCounted

LEMMA NotImpression ==
    ASSUME TrackerTypeOK, LedgersFine, NEW k \in Calls, NEW from, NEW to, Moves(k, from, to),
           op[k].kind # "impression", UNCHANGED <<events, pubStats, minerStats>>
    PROVE  EventsStored' /\ PublishersPaid' /\ MinersPaid'
  <1>0. op' = op
    BY DEF Moves
  <1>1. /\ Past("impression", {"publisher"})' = Past("impression", {"publisher"})
        /\ Past("impression", {"publisher", "miner"})' = Past("impression", {"publisher", "miner"})
        /\ Past("impression", {"publisher", "miner", "store"})'
             = Past("impression", {"publisher", "miner", "store"})
    BY PastSame
  <1>2. EventsStored'
    BY <1>1 DEF LedgersFine, EventsStored
  <1>3. (\A p \in Known : PastPublisher(p)' = PastPublisher(p))
        /\ (\A m \in Miners : PastMiner(m)' = PastMiner(m))
    BY <1>0, <1>1 DEF PastPublisher, PastMiner
  <1> QED BY <1>0, <1>2, <1>3, SamePublishers, SameMiners DEF LedgersFine

\* A response keeps no ledger.
LEMMA ResponseLedgers ==
    ASSUME TrackerTypeOK, LedgersFine, NEW k \in Calls, NEW from, NEW to, Moves(k, from, to),
           op[k].kind = "response",
           UNCHANGED <<totalRequests, buckets, totalPods, events, pubStats, minerStats>>
    PROVE  LedgersFine'
  BY NotRequest, NotPod, NotImpression DEF LedgersFine

-----------------------------------------------------------------------------
(* The tracker: the invariant. *)

TrackerInv == TrackerTypeOK /\ RatesFine /\ LedgersFine

LEMMA MovedTypes ==
    ASSUME TrackerTypeOK, NEW k \in Calls, NEW from, NEW to, Moves(k, from, to), CountersTyped'
    PROVE  TrackerTypeOK'
  BY MovedCalls DEF TrackerTypeOK, CallsTyped

\* A loaded word goes to a register of the call.
LEMMA LoadTypes ==
    ASSUME TrackerTypeOK, NEW k \in Calls, NEW i \in 1..2, NEW word \in Nat, Load(k, i, word)
    PROVE  /\ reg' \in [Calls -> [1..2 -> Nat]]
           /\ \A j \in Calls \ {k} : reg'[j] = reg[j]
           /\ reg'[k][i] = word /\ \A h \in 1..2 \ {i} : reg'[k][h] = reg[k][h]
  <1>1. reg \in [Calls -> [1..2 -> Nat]]
    BY DEF TrackerTypeOK, CountersTyped
  <1>2. reg' = [reg EXCEPT ![k] = [reg[k] EXCEPT ![i] = word]]
    BY <1>1 DEF Load
  <1>3. reg[k] \in [1..2 -> Nat]
    BY <1>1
  <1>4. [reg[k] EXCEPT ![i] = word] \in [1..2 -> Nat]
    BY <1>3
  <1> QED BY <1>1, <1>2, <1>3, <1>4

\* A step of a response that no rate depends on.
LEMMA QuietResponse ==
    ASSUME TrackerInv, NEW k \in Calls, NEW from, NEW to, Moves(k, from, to),
           op[k].kind = "response", CountersTyped',
           UNCHANGED <<averageLatency, p95Latency, p99Latency, podCompletionRate, totalPods>>,
           UNCHANGED <<totalRequests, buckets, events, pubStats, minerStats>>,
           \A j \in Calls \ {k} : reg'[j] = reg[j],
           to \notin {"latency-count", "latency-store"}
    PROVE  TrackerInv'
  <1>1. TrackerTypeOK /\ RatesFine /\ LedgersFine
    BY DEF TrackerInv
  <1>2. TrackerTypeOK'
    BY <1>1, MovedTypes
  <1>3. to \notin {"pod-rate", "pod-count", "pod-store"}
    BY DEF Moves, PlaceOf
  <1>4. RatesFine'
    BY <1>1, <1>3, QuietRates
  <1>5. LedgersFine'
    BY <1>1, ResponseLedgers
  <1> QED BY <1>2, <1>4, <1>5 DEF TrackerInv

LEMMA FillInv ==
    ASSUME TrackerInv, NEW k \in Calls,
           AddImpression(k) \/ LoadRequests(k) \/ LoadImpressions(k) \/ StoreFillRate(k)
    PROVE  TrackerInv'
  <1>0. TrackerTypeOK /\ CountersTyped
    BY DEF TrackerInv, TrackerTypeOK
  <1> USE DEF counters, latencies, pods, ledgers
  <1>1. CASE AddImpression(k)
    <2>1. Moves(k, "fill", "fill-requests") /\ op[k].kind = "response"
      BY <1>0, <1>1, ResponseMoves DEF AddImpression
    <2>2. CountersTyped'
      BY <1>0, <1>1 DEF AddImpression, CountersTyped
    <2> QED BY <1>1, <2>1, <2>2, QuietResponse DEF AddImpression
  <1>2. CASE LoadRequests(k)
    <2>1. Moves(k, "fill-requests", "fill-impressions") /\ op[k].kind = "response"
      BY <1>0, <1>2, ResponseMoves DEF LoadRequests
    <2>2. Load(k, 1, totalRequests) /\ totalRequests \in Nat
      BY <1>0, <1>2 DEF LoadRequests, CountersTyped
    <2>3. reg' \in [Calls -> [1..2 -> Nat]] /\ \A j \in Calls \ {k} : reg'[j] = reg[j]
      BY <1>0, <2>2, LoadTypes
    <2>4. CountersTyped'
      BY <1>0, <1>2, <2>3 DEF LoadRequests, CountersTyped
    <2> QED BY <1>2, <2>1, <2>3, <2>4, QuietResponse DEF LoadRequests
  <1>3. CASE LoadImpressions(k)
    <2>1. Moves(k, "fill-impressions", "fill-store") /\ op[k].kind = "response"
      BY <1>0, <1>3, ResponseMoves DEF LoadImpressions
    <2>2. Load(k, 2, totalImpressions) /\ totalImpressions \in Nat
      BY <1>0, <1>3 DEF LoadImpressions, CountersTyped
    <2>3. reg' \in [Calls -> [1..2 -> Nat]] /\ \A j \in Calls \ {k} : reg'[j] = reg[j]
      BY <1>0, <2>2, LoadTypes
    <2>4. CountersTyped'
      BY <1>0, <1>3, <2>3 DEF LoadImpressions, CountersTyped
    <2> QED BY <1>3, <2>1, <2>3, <2>4, QuietResponse DEF LoadImpressions
  <1>4. CASE StoreFillRate(k)
    <2>1. Moves(k, "fill-store", "latency") /\ op[k].kind = "response"
      BY <1>0, <1>4, ResponseMoves DEF StoreFillRate
    <2>2. op[k].price \in Nat /\ reg[k][1] \in Nat /\ reg[k][2] \in Nat
      BY <1>0, <2>1, OperationTypes DEF CountersTyped, TrackerTypeOK, CallsTyped
    <2>3. fillRate' \in Nat
      <3>1. CASE reg[k][1] > 0
        <4>1. reg[k][2] * 10000 \in Nat /\ reg[k][1] \in Nat \ {0}
          BY <2>2, <3>1
        <4>2. fillRate' = (reg[k][2] * 10000) \div reg[k][1]
          BY <1>4, <3>1 DEF StoreFillRate
        <4> QED BY <4>1, <4>2, QuotientNat
      <3>2. CASE ~ (reg[k][1] > 0)
        BY <1>0, <1>4, <3>2 DEF StoreFillRate, CountersTyped
      <3> QED BY <3>1, <3>2
    <2>4. totalRevenue' \in Nat
      <3>1. totalRevenue' = totalRevenue + op[k].price
        BY <1>4 DEF StoreFillRate
      <3>2. totalRevenue \in Nat
        BY <1>0 DEF CountersTyped
      <3> QED BY <2>2, <3>1, <3>2
    <2>5. CountersTyped'
      BY <1>0, <1>4, <2>3, <2>4, SMTT(30) DEF StoreFillRate, CountersTyped
    <2> QED BY <1>4, <2>1, <2>5, QuietResponse DEF StoreFillRate
  <1> QED BY <1>1, <1>2, <1>3, <1>4

\* Loading the average: what was stored is within what was measured.
LEMMA LatencyLoadsInv ==
    ASSUME TrackerInv, NEW k \in Calls, LoadAverage(k) \/ LoadCount(k)
    PROVE  TrackerInv'
  <1>0. TrackerTypeOK /\ CountersTyped /\ RatesFine /\ LedgersFine
    BY DEF TrackerInv, TrackerTypeOK
  <1> USE DEF counters, latencies, pods, ledgers
  <1>1. CASE LoadAverage(k)
    <2>1. Moves(k, "latency", "latency-count") /\ op[k].kind = "response"
      BY <1>0, <1>1, ResponseMoves DEF LoadAverage
    <2>2. Load(k, 1, averageLatency) /\ averageLatency \in Nat
      BY <1>0, <1>1 DEF LoadAverage, CountersTyped
    <2>3. /\ reg' \in [Calls -> [1..2 -> Nat]] /\ \A j \in Calls \ {k} : reg'[j] = reg[j]
          /\ reg'[k][1] = averageLatency
      BY <1>0, <2>2, LoadTypes
    <2>4. CountersTyped'
      BY <1>0, <1>1, <2>3 DEF LoadAverage, CountersTyped
    <2>5. \E x \in Observed : reg'[k][1] <= x
      BY <1>0, <2>3 DEF RatesFine, AverageFine
    <2>6. LoadedFine'
      BY <1>0, <2>1, <2>3, <2>5, LoadedKept
    <2>7. UNCHANGED <<latencies, pods>>
      BY <1>1 DEF LoadAverage
    <2>8. PodsFine'
      BY <1>0, <2>1, <2>3, <2>7, PodsKept
    <2>9. AverageFine' /\ PercentilesFine'
      <3>1. Observed \subseteq Observed'
        BY <1>0, <2>1, ObservedGrows
      <3> QED BY <1>0, <2>7, <3>1 DEF RatesFine, AverageFine, PercentilesFine
    <2>10. LedgersFine'
      BY <1>0, <1>1, <2>1, ResponseLedgers DEF LoadAverage
    <2>11. TrackerTypeOK'
      BY <1>0, <2>1, <2>4, MovedTypes
    <2> QED BY <2>6, <2>8, <2>9, <2>10, <2>11 DEF TrackerInv, RatesFine
  <1>2. CASE LoadCount(k)
    <2>1. Moves(k, "latency-count", "latency-store") /\ op[k].kind = "response"
      BY <1>0, <1>2, ResponseMoves DEF LoadCount
    <2>2. Load(k, 2, totalRequests) /\ totalRequests \in Nat
      BY <1>0, <1>2 DEF LoadCount, CountersTyped
    <2>3. /\ reg' \in [Calls -> [1..2 -> Nat]] /\ \A j \in Calls \ {k} : reg'[j] = reg[j]
          /\ reg'[k][1] = reg[k][1]
      BY <1>0, <2>2, LoadTypes
    <2>4. CountersTyped'
      BY <1>0, <1>2, <2>3 DEF LoadCount, CountersTyped
    <2>5. \E x \in Observed : reg'[k][1] <= x
      <3>1. at[k] = "latency-count"
        BY <2>1 DEF Moves
      <3> QED BY <1>0, <2>3, <3>1 DEF RatesFine, LoadedFine
    <2>6. LoadedFine'
      BY <1>0, <2>1, <2>3, <2>5, LoadedKept
    <2>7. UNCHANGED <<latencies, pods>>
      BY <1>2 DEF LoadCount
    <2>8. PodsFine'
      BY <1>0, <2>1, <2>3, <2>7, PodsKept
    <2>9. AverageFine' /\ PercentilesFine'
      <3>1. Observed \subseteq Observed'
        BY <1>0, <2>1, ObservedGrows
      <3> QED BY <1>0, <2>7, <3>1 DEF RatesFine, AverageFine, PercentilesFine
    <2>10. LedgersFine'
      BY <1>0, <1>2, <2>1, ResponseLedgers DEF LoadCount
    <2>11. TrackerTypeOK'
      BY <1>0, <2>1, <2>4, MovedTypes
    <2> QED BY <2>6, <2>8, <2>9, <2>10, <2>11 DEF TrackerInv, RatesFine
  <1> QED BY <1>1, <1>2

\* A step of a response that stores a latency or goes on.
LEMMA LatencyStep ==
    ASSUME TrackerInv, NEW k \in Calls, NEW from, NEW to, Moves(k, from, to),
           op[k].kind = "response", CountersTyped', AverageFine', PercentilesFine',
           UNCHANGED <<podCompletionRate, totalPods, totalRequests, buckets>>,
           UNCHANGED <<events, pubStats, minerStats, reg>>,
           to \notin {"latency-count", "latency-store"}
    PROVE  TrackerInv'
  <1>1. TrackerTypeOK /\ RatesFine /\ LedgersFine
    BY DEF TrackerInv
  <1>2. TrackerTypeOK'
    BY <1>1, MovedTypes
  <1>3. to \notin {"pod-rate", "pod-count", "pod-store"}
    BY DEF Moves, PlaceOf
  <1>4. LoadedFine' /\ PodsFine'
    BY <1>1, <1>3, LoadedKept, PodsKept
  <1>5. LedgersFine'
    BY <1>1, ResponseLedgers
  <1> QED BY <1>2, <1>4, <1>5 DEF TrackerInv, RatesFine

LEMMA StoreAverageInv ==
    ASSUME TrackerInv, NEW k \in Calls, StoreAverage(k)
    PROVE  TrackerInv'
  <1>0. TrackerTypeOK /\ CountersTyped /\ RatesFine
    BY DEF TrackerInv, TrackerTypeOK
  <1> USE DEF counters, latencies, pods, ledgers
  <1>1. Moves(k, "latency-store", "p95") /\ op[k].kind = "response"
    BY <1>0, ResponseMoves DEF StoreAverage
  <1> DEFINE old == reg[k][1]
             count == reg[k][2]
             new == op[k].latency
  <1>2. old \in Nat /\ count \in Nat /\ new \in Nat
    BY <1>0, <1>1, OperationTypes DEF CountersTyped, TrackerTypeOK, CallsTyped
  <1>3. PICK x \in Observed : old <= x
    <2>1. at[k] = "latency-store"
      BY <1>1 DEF Moves
    <2> QED BY <1>0, <2>1 DEF RatesFine, LoadedFine
  <1>4. Observed \subseteq Observed' /\ new \in Observed' /\ x \in Nat
    BY <1>0, <1>1, ObservedGrows, ObservedNat
  <1>5. averageLatency' = IF count > 0 THEN weighted(old, count, new) ELSE averageLatency
    BY DEF StoreAverage
  <1> HIDE DEF old, count, new
  <1>6. averageLatency' \in Nat /\ AverageFine'
    <2>1. CASE count > 0
      <3> DEFINE bound == IF x <= new THEN new ELSE x
      <3>1. bound \in Nat /\ old <= bound /\ new <= bound /\ bound \in Observed'
        BY <1>2, <1>3, <1>4
      <3>2. count \in Nat \ {0}
        BY <1>2, <2>1
      <3> HIDE DEF bound
      <3>3. weighted(old, count, new) \in Nat /\ weighted(old, count, new) <= bound
        BY <1>2, <3>1, <3>2, WeightedAtMost
      <3> QED BY <1>5, <2>1, <3>1, <3>3 DEF AverageFine
    <2>2. CASE ~ (count > 0)
      <3>1. averageLatency' = averageLatency
        BY <1>5, <2>2
      <3> QED BY <1>0, <1>4, <3>1 DEF CountersTyped, RatesFine, AverageFine
    <2> QED BY <2>1, <2>2
  <1>7. UNCHANGED <<reg, counters, p95Latency, p99Latency, pods, ledgers, stream, buckets, minute>>
    BY DEF StoreAverage
  <1>8. CountersTyped'
    BY <1>0, <1>6, <1>7 DEF CountersTyped
  <1>9. PercentilesFine'
    BY <1>0, <1>4, <1>7 DEF RatesFine, PercentilesFine
  <1> QED BY <1>1, <1>6, <1>7, <1>8, <1>9, LatencyStep

LEMMA PercentilesInv ==
    ASSUME TrackerInv, NEW k \in Calls,
           CompareP95(k) \/ StoreP95(k) \/ CompareP99(k) \/ StoreP99(k)
    PROVE  TrackerInv'
  <1>0. TrackerTypeOK /\ CountersTyped /\ RatesFine
    BY DEF TrackerInv, TrackerTypeOK
  <1> USE DEF counters, latencies, pods, ledgers
  <1>1. op[k].kind = "response" => op[k].latency \in Nat
    BY <1>0, OperationTypes DEF TrackerTypeOK, CallsTyped
  <1>2. CASE CompareP95(k)
    <2>1. PICK to \in {"p95-store", "p99"} : Advance(k, "p95", to)
      BY <1>2 DEF CompareP95
    <2>2. Moves(k, "p95", to) /\ op[k].kind = "response"
      BY <1>0, <2>1, ResponseMoves
    <2>3. CountersTyped'
      BY <1>0, <1>2 DEF CompareP95, CountersTyped
    <2> QED BY <1>2, <2>2, <2>3, QuietResponse DEF CompareP95
  <1>3. CASE CompareP99(k)
    <2>1. PICK to \in {"p99-store", "done"} : Advance(k, "p99", to)
      BY <1>3 DEF CompareP99
    <2>2. Moves(k, "p99", to) /\ op[k].kind = "response"
      BY <1>0, <2>1, ResponseMoves
    <2>3. CountersTyped'
      BY <1>0, <1>3 DEF CompareP99, CountersTyped
    <2> QED BY <1>3, <2>2, <2>3, QuietResponse DEF CompareP99
  <1>4. CASE StoreP95(k)
    <2>1. Moves(k, "p95-store", "p99") /\ op[k].kind = "response"
      BY <1>0, <1>4, ResponseMoves DEF StoreP95
    <2>2. CountersTyped'
      BY <1>0, <1>1, <1>4, <2>1 DEF StoreP95, CountersTyped
    <2>3. Observed \subseteq Observed' /\ op[k].latency \in Observed'
      BY <1>0, <2>1, ObservedGrows
    <2>4. AverageFine' /\ PercentilesFine'
      BY <1>0, <1>4, <2>3 DEF StoreP95, RatesFine, AverageFine, PercentilesFine
    <2> QED BY <1>4, <2>1, <2>2, <2>4, LatencyStep DEF StoreP95
  <1>5. CASE StoreP99(k)
    <2>1. Moves(k, "p99-store", "done") /\ op[k].kind = "response"
      BY <1>0, <1>5, ResponseMoves DEF StoreP99
    <2>2. CountersTyped'
      BY <1>0, <1>1, <1>5, <2>1 DEF StoreP99, CountersTyped
    <2>3. Observed \subseteq Observed' /\ op[k].latency \in Observed'
      BY <1>0, <2>1, ObservedGrows
    <2>4. AverageFine' /\ PercentilesFine'
      BY <1>0, <1>5, <2>3 DEF StoreP99, RatesFine, AverageFine, PercentilesFine
    <2> QED BY <1>5, <2>1, <2>2, <2>4, LatencyStep DEF StoreP99
  <1> QED BY <1>2, <1>3, <1>4, <1>5

\* A request: it is counted, and sent or dropped and put in its bucket unless
\* the call panics.
LEMMA RequestInv ==
    ASSUME TrackerInv, NEW k \in Calls, AddRequest(k) \/ SendEvent(k) \/ updateTimeSeries(k)
    PROVE  TrackerInv'
  <1>0. TrackerTypeOK /\ CountersTyped /\ RatesFine /\ LedgersFine
    BY DEF TrackerInv, TrackerTypeOK
  <1> USE DEF counters, latencies, pods, ledgers
  <1>1. ASSUME NEW from, NEW to, Moves(k, from, to), op[k].kind = "request", CountersTyped',
               UNCHANGED <<reg, latencies, pods, ledgers>>, RequestsCounted', BucketsCounted'
        PROVE  TrackerInv'
    <2>1. to \notin {"latency-count", "latency-store", "pod-rate", "pod-count", "pod-store"}
      BY <1>1 DEF Moves, PlaceOf
    <2>2. RatesFine'
      BY <1>0, <1>1, <2>1, QuietRates
    <2>3. PodsCounted' /\ EventsStored' /\ PublishersPaid' /\ MinersPaid'
      BY <1>0, <1>1, NotPod, NotImpression
    <2>4. TrackerTypeOK'
      BY <1>0, <1>1, MovedTypes
    <2> QED BY <1>1, <2>2, <2>3, <2>4 DEF TrackerInv, LedgersFine
  <1> DEFINE Counted == Past("request", {"add"})
             Bucketed == Past("request", {"add", "send", "bucket", "panicked"})
  <1>2. Counted \in SUBSET Calls /\ Bucketed \in SUBSET Calls
    BY PastFinite
  <1>3. CASE AddRequest(k)
    <2>1. PICK to \in {"send", "panicked"} : Moves(k, "add", to) /\ op[k].kind = "request"
      <3>1. Advance(k, "add", "send") \/ Advance(k, "add", "panicked")
        BY <1>3 DEF AddRequest
      <3>2. ASSUME NEW l \in {"send", "panicked"}, Advance(k, "add", l)
            PROVE  Moves(k, "add", l) /\ op[k].kind = "request"
        BY <1>0, <3>2, RequestMoves
      <3> QED BY <3>1, <3>2
    <2>2. CountersTyped'
      BY <1>0, <1>3 DEF AddRequest, CountersTyped
    <2>3. Counted' = Counted \cup {k} /\ k \notin Counted
      BY <1>0, <2>1, PastGrows
    <2>4. Bucketed' = Bucketed
      BY <1>0, <2>1, PastSame
    <2> HIDE DEF Counted, Bucketed
    <2>5. RequestsCounted'
      <3>1. totalRequests = Cardinality(Counted) /\ totalRequests' = totalRequests + 1
        BY <1>0, <1>3 DEF AddRequest, LedgersFine, RequestsCounted, Counted
      <3>2. Cardinality(Counted') = Cardinality(Counted) + 1
        BY <1>2, <2>3, OneMore
      <3> QED BY <3>1, <3>2 DEF RequestsCounted, Counted
    <2>6. BucketsCounted'
      BY <1>0, <1>3, <2>4 DEF AddRequest, LedgersFine, BucketsCounted, Bucketed
    <2> QED BY <1>1, <1>3, <2>1, <2>2, <2>5, <2>6 DEF AddRequest
  <1>4. CASE SendEvent(k)
    <2>1. Moves(k, "send", "bucket") /\ op[k].kind = "request"
      BY <1>0, <1>4, RequestMoves DEF SendEvent
    <2>2. CountersTyped'
      <3>1. stream' \in 0..StreamCapacity
        BY <1>0, <1>4, AnalyticsAssumption DEF SendEvent, CountersTyped
      <3> QED BY <1>0, <1>4, <3>1 DEF SendEvent, CountersTyped
    <2>3. Counted' = Counted /\ Bucketed' = Bucketed
      BY <1>0, <2>1, PastSame
    <2> HIDE DEF Counted, Bucketed
    <2>4. RequestsCounted' /\ BucketsCounted'
      BY <1>0, <1>4, <2>3 DEF SendEvent, LedgersFine, RequestsCounted, BucketsCounted, Counted, Bucketed
    <2> QED BY <1>1, <1>4, <2>1, <2>2, <2>4 DEF SendEvent
  <1>5. CASE updateTimeSeries(k)
    <2>1. Moves(k, "bucket", "done") /\ op[k].kind = "request"
      BY <1>0, <1>5, RequestMoves DEF updateTimeSeries
    <2>2. buckets \in [0..MaxMinute -> Nat] /\ minute \in 0..MaxMinute
      BY <1>0 DEF CountersTyped
    <2>3. buckets' = [buckets EXCEPT ![minute] = buckets[minute] + 1]
      BY <1>5 DEF updateTimeSeries
    <2>4. CountersTyped'
      BY <1>0, <1>5, <2>2, <2>3 DEF updateTimeSeries, CountersTyped
    <2>5. Counted' = Counted
      BY <1>0, <2>1, PastSame
    <2>6. Bucketed' = Bucketed \cup {k} /\ k \notin Bucketed
      BY <1>0, <2>1, PastGrows
    <2> HIDE DEF Counted, Bucketed
    <2>7. RequestsCounted'
      BY <1>0, <1>5, <2>5 DEF updateTimeSeries, LedgersFine, RequestsCounted, Counted
    <2>8. BucketsCounted'
      <3>1. IsFiniteSet(0..MaxMinute)
        BY AnalyticsAssumption, FS_Interval
      <3>2. /\ \A m \in 0..MaxMinute : buckets[m] \in Int /\ buckets'[m] \in Int
            /\ \A m \in (0..MaxMinute) \ {minute} : buckets[m] = buckets'[m]
            /\ buckets'[minute] = buckets[minute] + 1
        BY <2>2, <2>3
      <3>3. SumFunctionOnSet(buckets', 0..MaxMinute)
              = SumFunctionOnSet(buckets, 0..MaxMinute) - buckets[minute] + buckets'[minute]
        <4> DEFINE S == 0..MaxMinute
                   after == buckets'
        <4>1. /\ \A m \in S : buckets[m] \in Int /\ after[m] \in Int
              /\ \A m \in S \ {minute} : buckets[m] = after[m]
          BY <3>2
        <4>2. minute \in S /\ IsFiniteSet(S)
          BY <2>2, <3>1
        <4> HIDE DEF S, after
        <4>3. SumFunctionOnSet(after, S) = SumFunctionOnSet(buckets, S) - buckets[minute] + after[minute]
          BY <4>1, <4>2, SumChange
        <4> QED BY <4>3 DEF S, after
      <3>4. SumFunctionOnSet(buckets, 0..MaxMinute) = Cardinality(Bucketed)
        BY <1>0 DEF LedgersFine, BucketsCounted, Bucketed
      <3>5. Cardinality(Bucketed') = Cardinality(Bucketed) + 1 /\ Cardinality(Bucketed) \in Nat
        BY <1>2, <2>6, OneMore
      <3>6. buckets[minute] \in Nat
        BY <2>2
      <3>7. SumFunctionOnSet(buckets', 0..MaxMinute) = Cardinality(Bucketed')
        BY <3>2, <3>3, <3>4, <3>5, <3>6
      <3> QED BY <3>7 DEF BucketsCounted, Bucketed
    <2> QED BY <1>1, <1>5, <2>1, <2>4, <2>7, <2>8 DEF updateTimeSeries
  <1> QED BY <1>3, <1>4, <1>5

\* What a step of an impression leaves to be shown.
LEMMA ImpressionStep ==
    ASSUME TrackerInv, NEW k \in Calls, NEW from, NEW to, Moves(k, from, to),
           op[k].kind = "impression", CountersTyped',
           UNCHANGED <<reg, counters, latencies, pods, buckets>>,
           EventsStored', PublishersPaid', MinersPaid'
    PROVE  TrackerInv'
  <1>0. TrackerTypeOK /\ RatesFine /\ LedgersFine
    BY DEF TrackerInv
  <1>1. UNCHANGED <<averageLatency, p95Latency, p99Latency, podCompletionRate, totalPods, totalRequests>>
    BY DEF counters, latencies, pods
  <1>2. to \notin {"latency-count", "latency-store", "pod-rate", "pod-count", "pod-store"}
    BY DEF Moves, PlaceOf
  <1>3. RatesFine'
    BY <1>0, <1>1, <1>2, QuietRates
  <1>4. RequestsCounted' /\ BucketsCounted' /\ PodsCounted'
    BY <1>0, <1>1, NotRequest, NotPod
  <1>5. TrackerTypeOK'
    BY <1>0, MovedTypes
  <1> QED BY <1>3, <1>4, <1>5 DEF TrackerInv, LedgersFine

\* The impression is counted for its publisher, when it is there.
LEMMA PublisherInv ==
    ASSUME TrackerInv, NEW k \in Calls, UpdatePublisher(k)
    PROVE  TrackerInv'
  <1>0. TrackerTypeOK /\ CountersTyped /\ LedgersFine
    BY DEF TrackerInv, TrackerTypeOK
  <1> DEFINE p == op[k].publisher
             to == IF op[k].miner = NoMiner THEN "store" ELSE "miner"
             amount == op[k].price \div 10
  <1>1. Moves(k, "publisher", to) /\ op[k].kind = "impression"
    <2>1. Advance(k, "publisher", to)
      BY DEF UpdatePublisher
    <2>2. <<"publisher", to>> \in {<<"publisher", "store">>, <<"publisher", "miner">>}
      OBVIOUS
    <2>3. to = "miner" => op[k].miner # NoMiner
      OBVIOUS
    <2> HIDE DEF to
    <2> QED BY <1>0, <2>1, <2>2, <2>3, ImpressionMoves
  <1>2. to \in {"store", "miner"} /\ (to = "store" => op[k].miner = NoMiner)
    OBVIOUS
  <1> HIDE DEF to
  <1>3. op' = op /\ op[k].price \in Nat /\ amount \in Nat
    <2>1. op[k].price \in Nat
      BY <1>0, <1>1, PricesNat
    <2> QED BY <1>1, <2>1, QuotientNat DEF Moves
  <1>4. UNCHANGED <<reg, counters, latencies, pods, minerStats, events, stream, buckets, minute>>
    BY DEF UpdatePublisher
  <1>5. pubStats \in [Known -> [impressions : Nat, revenue : Nat]]
    BY <1>0 DEF CountersTyped
  <1>6. ASSUME NEW q \in Known
        PROVE  /\ q # p => pubStats'[q] = pubStats[q]
               /\ q = p => /\ pubStats'[q].impressions = pubStats[q].impressions + 1
                           /\ pubStats'[q].revenue = pubStats[q].revenue + amount
    BY <1>5 DEF UpdatePublisher
  <1>7. pubStats' \in [Known -> [impressions : Nat, revenue : Nat]]
    BY <1>3, <1>5 DEF UpdatePublisher
  <1> HIDE DEF amount
  <1>8. CountersTyped'
    BY <1>0, <1>4, <1>7 DEF CountersTyped, counters, latencies, pods
  <1>9. EventsStored'
    <2>1. Past("impression", {"publisher", "miner", "store"})'
            = Past("impression", {"publisher", "miner", "store"})
      BY <1>0, <1>1, <1>2, PastSame
    <2> QED BY <1>0, <1>4, <2>1 DEF LedgersFine, EventsStored
  <1>10. MinersPaid'
    <2>1. ASSUME NEW m \in Miners PROVE PastMiner(m)' = PastMiner(m)
      <3>1. CASE to = "miner"
        <4>1. Past("impression", {"publisher", "miner"})' = Past("impression", {"publisher", "miner"})
          BY <1>0, <1>1, <3>1, PastSame
        <4> QED BY <1>3, <4>1 DEF PastMiner
      <3>2. CASE to = "store"
        <4>1. Past("impression", {"publisher", "miner"})' = Past("impression", {"publisher", "miner"}) \cup {k}
          BY <1>0, <1>1, <3>2, PastGrows
        <4>2. op[k].miner # m
          BY <1>2, <3>2, AnalyticsAssumption
        <4> QED BY <1>3, <4>1, <4>2 DEF PastMiner
      <3> QED BY <1>2, <3>1, <3>2
    <2> QED BY <1>0, <1>3, <1>4, <2>1, SameMiners DEF LedgersFine
  <1>11. PublishersPaid'
    <2>1. /\ Past("impression", {"publisher"})' = Past("impression", {"publisher"}) \cup {k}
          /\ k \notin Past("impression", {"publisher"})
      BY <1>0, <1>1, <1>2, PastGrows
    <2> SUFFICES ASSUME NEW q \in Known
                 PROVE  /\ pubStats'[q].impressions = Cardinality(PastPublisher(q)')
                        /\ pubStats'[q].revenue = Shares(PastPublisher(q), 10)'
      BY DEF PublishersPaid
    <2> DEFINE S == PastPublisher(q)
    <2>2. pubStats[q].impressions = Cardinality(S) /\ pubStats[q].revenue = Shares(S, 10)
      BY <1>0 DEF LedgersFine, PublishersPaid
    <2>3. S \in SUBSET Calls /\ k \notin S
      BY <2>1 DEF PastPublisher, Past
    <2>4. PastPublisher(q)' = IF q = p THEN S \cup {k} ELSE S
      BY <1>3, <2>1 DEF PastPublisher
    <2>5. Shares(PastPublisher(q), 10)' = Shares(PastPublisher(q)', 10)
      <3> HIDE DEF PastPublisher
      <3> QED BY <1>3 DEF Shares
    <2>6. \A j \in S \cup {k} : op[j].price \in Nat
      <3>1. \A j \in S \cup {k} : j \in Calls /\ op[j].kind = "impression"
        BY <1>1 DEF PastPublisher, Past
      <3> QED BY <1>0, <3>1, PricesNat
    <2> HIDE DEF S
    <2>7. CASE q = p
      <3>1. Cardinality(S \cup {k}) = Cardinality(S) + 1
        BY <2>3, OneMore
      <3>2. Shares(S \cup {k}, 10) = Shares(S, 10) + amount
        BY <2>3, <2>6, SharesAdd DEF amount
      <3> QED BY <1>6, <2>2, <2>4, <2>5, <2>7, <3>1, <3>2
    <2>8. CASE q # p
      BY <1>6, <2>2, <2>4, <2>5, <2>8
    <2> QED BY <2>7, <2>8
  <1> QED BY <1>1, <1>4, <1>8, <1>9, <1>10, <1>11, ImpressionStep

\* The impression is counted for the miner that served it.
LEMMA MinerInv ==
    ASSUME TrackerInv, NEW k \in Calls, updateMinerMetrics(k)
    PROVE  TrackerInv'
  <1>0. TrackerTypeOK /\ CountersTyped /\ LedgersFine
    BY DEF TrackerInv, TrackerTypeOK
  <1> DEFINE m == op[k].miner
             amount == op[k].price \div 100
  <1>1. Moves(k, "miner", "store") /\ op[k].kind = "impression"
    BY <1>0, ImpressionMoves DEF updateMinerMetrics
  <1>2. m \in Miners
    <2>1. at[k] = "miner"
      BY <1>1 DEF Moves
    <2> QED BY <1>0, <2>1, KindAt
  <1>3. op' = op /\ op[k].price \in Nat /\ amount \in Nat
    <2>1. op[k].price \in Nat
      BY <1>0, <1>1, PricesNat
    <2> QED BY <1>1, <2>1, QuotientNat DEF Moves
  <1>4. UNCHANGED <<reg, counters, latencies, pods, pubStats, events, stream, buckets, minute>>
    BY DEF updateMinerMetrics
  <1>5. minerStats \in [Miners -> [served : Nat, earnings : Nat]]
    BY <1>0 DEF CountersTyped
  <1>6. ASSUME NEW q \in Miners
        PROVE  /\ q # m => minerStats'[q] = minerStats[q]
               /\ q = m => /\ minerStats'[q].served = minerStats[q].served + 1
                           /\ minerStats'[q].earnings = minerStats[q].earnings + amount
    BY <1>5 DEF updateMinerMetrics
  <1>7. minerStats' \in [Miners -> [served : Nat, earnings : Nat]]
    BY <1>2, <1>3, <1>5 DEF updateMinerMetrics
  <1> HIDE DEF amount
  <1>8. CountersTyped'
    BY <1>0, <1>4, <1>7 DEF CountersTyped, counters, latencies, pods
  <1>9. EventsStored'
    <2>1. Past("impression", {"publisher", "miner", "store"})'
            = Past("impression", {"publisher", "miner", "store"})
      BY <1>0, <1>1, PastSame
    <2> QED BY <1>0, <1>4, <2>1 DEF LedgersFine, EventsStored
  <1>10. PublishersPaid'
    <2>1. Past("impression", {"publisher"})' = Past("impression", {"publisher"})
      BY <1>0, <1>1, PastSame
    <2>2. \A p \in Known : PastPublisher(p)' = PastPublisher(p)
      BY <1>3, <2>1 DEF PastPublisher
    <2> QED BY <1>0, <1>3, <1>4, <2>2, SamePublishers DEF LedgersFine
  <1>11. MinersPaid'
    <2>1. /\ Past("impression", {"publisher", "miner"})' = Past("impression", {"publisher", "miner"}) \cup {k}
          /\ k \notin Past("impression", {"publisher", "miner"})
      BY <1>0, <1>1, PastGrows
    <2> SUFFICES ASSUME NEW q \in Miners
                 PROVE  /\ minerStats'[q].served = Cardinality(PastMiner(q)')
                        /\ minerStats'[q].earnings = Shares(PastMiner(q), 100)'
      BY DEF MinersPaid
    <2> DEFINE S == PastMiner(q)
    <2>2. minerStats[q].served = Cardinality(S) /\ minerStats[q].earnings = Shares(S, 100)
      BY <1>0 DEF LedgersFine, MinersPaid
    <2>3. S \in SUBSET Calls /\ k \notin S
      BY <2>1 DEF PastMiner, Past
    <2>4. PastMiner(q)' = IF q = m THEN S \cup {k} ELSE S
      BY <1>3, <2>1 DEF PastMiner
    <2>5. Shares(PastMiner(q), 100)' = Shares(PastMiner(q)', 100)
      <3> HIDE DEF PastMiner
      <3> QED BY <1>3 DEF Shares
    <2>6. \A j \in S \cup {k} : op[j].price \in Nat
      <3>1. \A j \in S \cup {k} : j \in Calls /\ op[j].kind = "impression"
        BY <1>1 DEF PastMiner, Past
      <3> QED BY <1>0, <3>1, PricesNat
    <2> HIDE DEF S
    <2>7. CASE q = m
      <3>1. Cardinality(S \cup {k}) = Cardinality(S) + 1
        BY <2>3, OneMore
      <3>2. Shares(S \cup {k}, 100) = Shares(S, 100) + amount
        BY <2>3, <2>6, SharesAdd DEF amount
      <3> QED BY <1>6, <2>2, <2>4, <2>5, <2>7, <3>1, <3>2
    <2>8. CASE q # m
      BY <1>6, <2>2, <2>4, <2>5, <2>8
    <2> QED BY <2>7, <2>8
  <1> QED BY <1>1, <1>4, <1>8, <1>9, <1>10, <1>11, ImpressionStep

\* The event of the impression is stored.
LEMMA StoreInv ==
    ASSUME TrackerInv, NEW k \in Calls, Store(k)
    PROVE  TrackerInv'
  <1>0. TrackerTypeOK /\ CountersTyped /\ LedgersFine
    BY DEF TrackerInv, TrackerTypeOK
  <1>1. Moves(k, "store", "done") /\ op[k].kind = "impression" /\ op' = op
    <2>1. Moves(k, "store", "done") /\ op[k].kind = "impression"
      BY <1>0, ImpressionMoves DEF Store
    <2> QED BY <2>1 DEF Moves
  <1>2. /\ events' = events \cup {k}
        /\ UNCHANGED <<reg, counters, latencies, pods, pubStats, minerStats, stream, buckets, minute>>
    BY DEF Store
  <1>3. CountersTyped'
    BY <1>0, <1>2 DEF CountersTyped, counters, latencies, pods
  <1>4. EventsStored'
    <2>1. Past("impression", {"publisher", "miner", "store"})'
            = Past("impression", {"publisher", "miner", "store"}) \cup {k}
      BY <1>0, <1>1, PastGrows
    <2> QED BY <1>0, <1>2, <2>1 DEF LedgersFine, EventsStored
  <1>5. /\ Past("impression", {"publisher"})' = Past("impression", {"publisher"})
        /\ Past("impression", {"publisher", "miner"})' = Past("impression", {"publisher", "miner"})
    BY <1>0, <1>1, PastSame
  <1>6. (\A p \in Known : PastPublisher(p)' = PastPublisher(p))
        /\ (\A m \in Miners : PastMiner(m)' = PastMiner(m))
    BY <1>1, <1>5 DEF PastPublisher, PastMiner
  <1>7. PublishersPaid' /\ MinersPaid'
    BY <1>0, <1>1, <1>2, <1>6, SamePublishers, SameMiners DEF LedgersFine
  <1> QED BY <1>1, <1>2, <1>3, <1>4, <1>7, ImpressionStep

\* What a step of a pod leaves to be shown.
LEMMA PodStep ==
    ASSUME TrackerInv, NEW k \in Calls, NEW from, NEW to, Moves(k, from, to),
           op[k].kind = "pod", CountersTyped',
           UNCHANGED <<counters, latencies, ledgers, buckets>>,
           \A j \in Calls \ {k} : reg'[j] = reg[j],
           PodsFine', PodsCounted'
    PROVE  TrackerInv'
  <1>0. TrackerTypeOK /\ RatesFine /\ LedgersFine
    BY DEF TrackerInv
  <1>1. UNCHANGED <<averageLatency, p95Latency, p99Latency, totalRequests, events, pubStats, minerStats>>
    BY DEF counters, latencies, ledgers
  <1>2. to \notin {"latency-count", "latency-store"}
    BY DEF Moves, PlaceOf
  <1>3. LoadedFine'
    BY <1>0, <1>2, LoadedKept
  <1>4. AverageFine' /\ PercentilesFine'
    <2>1. Observed \subseteq Observed'
      BY <1>0, ObservedGrows
    <2> QED BY <1>0, <1>1, <2>1 DEF RatesFine, AverageFine, PercentilesFine
  <1>5. RequestsCounted' /\ BucketsCounted' /\ EventsStored' /\ PublishersPaid' /\ MinersPaid'
    BY <1>0, <1>1, NotRequest, NotImpression
  <1>6. TrackerTypeOK'
    BY <1>0, MovedTypes
  <1> QED BY <1>3, <1>4, <1>5, <1>6 DEF TrackerInv, RatesFine, LedgersFine

\* The pods after a move of a pod whose registers are in order.
LEMMA PodsAfter ==
    ASSUME TrackerTypeOK, RatesFine, NEW k \in Calls, NEW from, NEW to, Moves(k, from, to),
           \A j \in Calls \ {k} : reg'[j] = reg[j],
           totalPods \in Nat, totalPods' \in Nat, totalPods' >= totalPods,
           podCompletionRate' <= 100, totalPods' >= 1,
           to \in {"pod-count", "pod-store"} => reg'[k][1] <= 100,
           to = "pod-store" => reg'[k][2] >= 1
    PROVE  PodsFine'
  <1>1. \A j \in Calls : at'[j] = IF j = k THEN to ELSE at[j]
    BY MovedCalls
  <1>2. ASSUME NEW j \in Calls
        PROVE  /\ at'[j] \in {"pod-count", "pod-store"} => reg'[j][1] <= 100
               /\ at'[j] = "pod-store" => reg'[j][2] >= 1
               /\ at'[j] \in {"pod-rate", "pod-count", "pod-store"} => totalPods' >= 1
    <2>1. CASE j = k
      BY <1>1, <2>1
    <2>2. CASE j # k
      <3>1. at'[j] = at[j] /\ reg'[j] = reg[j]
        BY <1>1, <2>2
      <3> QED BY <3>1 DEF RatesFine, PodsFine
    <2> QED BY <2>1, <2>2
  <1> QED BY <1>2 DEF PodsFine

\* A pod: it is counted, and when it is completed the rate is recomputed.
LEMMA PodInv ==
    ASSUME TrackerInv, NEW k \in Calls,
           AddPod(k) \/ LoadPodRate(k) \/ LoadPodCount(k) \/ StorePodRate(k)
    PROVE  TrackerInv'
  <1>0. TrackerTypeOK /\ CountersTyped /\ RatesFine /\ LedgersFine
    BY DEF TrackerInv, TrackerTypeOK
  <1>1. totalPods \in Nat /\ podCompletionRate \in Nat /\ podCompletionRate <= 100
    BY <1>0 DEF CountersTyped, RatesFine, PodsFine
  <1> DEFINE Counted == Past("pod", {"pod"})
  <1>2. Counted \in SUBSET Calls
    BY PastFinite
  <1>3. totalPods = Cardinality(Counted)
    BY <1>0 DEF LedgersFine, PodsCounted
  <1>4. ASSUME NEW from, NEW to, Moves(k, from, to), op[k].kind = "pod", from # "pod",
               totalPods' = totalPods
        PROVE  PodsCounted' /\ totalPods >= 1
    <2>1. to # "pod"
      BY <1>4, EntryOf DEF Moves
    <2>2. Counted' = Counted
      BY <1>0, <1>4, <2>1, PastSame
    <2>3. from \in {"pod-rate", "pod-count", "pod-store", "done"} /\ at[k] = from
      BY <1>0, <1>4 DEF Moves, TrackerTypeOK, CallsTyped, PlaceOf
    <2>4. k \in Counted
      BY <1>4, <2>3 DEF Past
    <2>5. Cardinality(Counted) >= 1
      <3>1. IsFiniteSet(Counted)
        BY <1>2, AnalyticsAssumption, FS_Subset
      <3> HIDE DEF Counted
      <3>2. Cardinality(Counted) \in Nat /\ Cardinality(Counted) # 0
        BY <2>4, <3>1, FS_CardinalityType, FS_EmptySet
      <3> QED BY <3>2
    <2> HIDE DEF Counted
    <2>6. PodsCounted'
      BY <1>3, <1>4, <2>2 DEF PodsCounted, Counted
    <2> QED BY <1>3, <2>5, <2>6
  <1> USE DEF counters, latencies, pods, ledgers
  <1>5. CASE AddPod(k)
    <2>1. PICK to \in {"pod-rate", "done"} : Advance(k, "pod", to)
      BY <1>5 DEF AddPod
    <2>2. Moves(k, "pod", to) /\ op[k].kind = "pod"
      BY <1>0, <2>1, PodMoves
    <2>3. totalPods' = totalPods + 1 /\ UNCHANGED <<reg, podCompletionRate>>
      BY <1>5 DEF AddPod
    <2>4. CountersTyped'
      BY <1>0, <1>5 DEF AddPod, CountersTyped
    <2>5. Counted' = Counted \cup {k} /\ k \notin Counted
      BY <1>0, <2>1, <2>2, PastGrows
    <2> HIDE DEF Counted
    <2>6. PodsCounted'
      <3>1. Cardinality(Counted') = Cardinality(Counted) + 1
        BY <1>2, <2>5, OneMore
      <3> QED BY <1>3, <2>3, <3>1 DEF PodsCounted, Counted
    <2>7. PodsFine'
      <3>1. totalPods' \in Nat /\ totalPods' >= totalPods /\ totalPods' >= 1 /\ podCompletionRate' <= 100
        BY <1>1, <2>3
      <3>2. to \notin {"pod-count", "pod-store"} /\ \A j \in Calls \ {k} : reg'[j] = reg[j]
        BY <2>1, <2>3
      <3> QED BY <1>0, <1>1, <2>2, <3>1, <3>2, PodsAfter
    <2> QED BY <1>5, <2>2, <2>4, <2>6, <2>7, PodStep DEF AddPod
  <1> HIDE DEF Counted
  <1>6. CASE LoadPodRate(k)
    <2>1. Moves(k, "pod-rate", "pod-count") /\ op[k].kind = "pod"
      BY <1>0, <1>6, PodMoves DEF LoadPodRate
    <2>2. Load(k, 1, podCompletionRate) /\ UNCHANGED <<totalPods, podCompletionRate>>
      BY <1>6 DEF LoadPodRate
    <2>3. /\ reg' \in [Calls -> [1..2 -> Nat]] /\ \A j \in Calls \ {k} : reg'[j] = reg[j]
          /\ reg'[k][1] = podCompletionRate
      BY <1>0, <1>1, <2>2, LoadTypes
    <2>4. CountersTyped'
      BY <1>0, <1>6, <2>3 DEF LoadPodRate, CountersTyped
    <2>5. PodsCounted' /\ totalPods >= 1
      BY <1>4, <2>1, <2>2
    <2>6. PodsFine'
      BY <1>0, <1>1, <2>1, <2>2, <2>3, <2>5, PodsAfter
    <2> QED BY <1>6, <2>1, <2>3, <2>4, <2>5, <2>6, PodStep DEF LoadPodRate
  <1>7. CASE LoadPodCount(k)
    <2>1. Moves(k, "pod-count", "pod-store") /\ op[k].kind = "pod"
      BY <1>0, <1>7, PodMoves DEF LoadPodCount
    <2>2. Load(k, 2, totalPods) /\ UNCHANGED <<totalPods, podCompletionRate>>
      BY <1>7 DEF LoadPodCount
    <2>3. /\ reg' \in [Calls -> [1..2 -> Nat]] /\ \A j \in Calls \ {k} : reg'[j] = reg[j]
          /\ reg'[k][1] = reg[k][1] /\ reg'[k][2] = totalPods
      BY <1>0, <1>1, <2>2, LoadTypes
    <2>4. CountersTyped'
      BY <1>0, <1>7, <2>3 DEF LoadPodCount, CountersTyped
    <2>5. PodsCounted' /\ totalPods >= 1
      BY <1>4, <2>1, <2>2
    <2>6. reg[k][1] <= 100
      <3>1. at[k] = "pod-count"
        BY <2>1 DEF Moves
      <3> QED BY <1>0, <3>1 DEF RatesFine, PodsFine
    <2>7. PodsFine'
      BY <1>0, <1>1, <2>1, <2>2, <2>3, <2>5, <2>6, PodsAfter
    <2> QED BY <1>7, <2>1, <2>3, <2>4, <2>5, <2>7, PodStep DEF LoadPodCount
  <1>8. CASE StorePodRate(k)
    <2>1. Moves(k, "pod-store", "done") /\ op[k].kind = "pod"
      BY <1>0, <1>8, PodMoves DEF StorePodRate
    <2>2. podCompletionRate' = weighted(reg[k][1], reg[k][2], 100) /\ UNCHANGED <<totalPods, reg>>
      BY <1>8 DEF StorePodRate
    <2>3. reg[k][1] \in Nat /\ reg[k][1] <= 100 /\ reg[k][2] \in Nat \ {0}
      <3>1. at[k] = "pod-store" /\ reg[k][1] \in Nat /\ reg[k][2] \in Nat
        BY <1>0, <2>1 DEF Moves, CountersTyped
      <3>2. reg[k][1] <= 100 /\ reg[k][2] >= 1
        BY <1>0, <3>1 DEF RatesFine, PodsFine
      <3> QED BY <3>1, <3>2
    <2>4. podCompletionRate' \in Nat /\ podCompletionRate' <= 100
      <3>1. 100 \in Nat /\ 100 <= 100
        OBVIOUS
      <3> QED BY <2>2, <2>3, <3>1, WeightedAtMost
    <2>5. CountersTyped'
      BY <1>0, <1>8, <2>4 DEF StorePodRate, CountersTyped
    <2>6. PodsCounted' /\ totalPods >= 1
      BY <1>4, <2>1, <2>2
    <2>7. PodsFine'
      BY <1>0, <1>1, <2>1, <2>2, <2>4, <2>6, PodsAfter
    <2> QED BY <1>8, <2>1, <2>2, <2>5, <2>6, <2>7, PodStep DEF StorePodRate
  <1> QED BY <1>5, <1>6, <1>7, <1>8

\* A step that changes nothing but the clock.
LEMMA ClockInv ==
    ASSUME TrackerInv, minute' \in 0..MaxMinute,
           UNCHANGED <<at, op, reg, counters, latencies, pods, ledgers, stream, buckets>>
    PROVE  TrackerInv'
  <1> USE DEF counters, latencies, pods, ledgers
  <1>1. TrackerTypeOK'
    BY DEF TrackerInv, TrackerTypeOK, CallsTyped, CountersTyped
  <1>2. RatesFine'
    <2>1. Observed' = Observed
      BY DEF Observed
    <2> QED BY <2>1 DEF TrackerInv, RatesFine, AverageFine, PercentilesFine, LoadedFine, PodsFine
  <1>3. LedgersFine'
    <2>1. \A kind, before : Past(kind, before)' = Past(kind, before)
      BY DEF Past
    <2>2. /\ \A p : PastPublisher(p)' = PastPublisher(p)
          /\ \A m : PastMiner(m)' = PastMiner(m)
      BY <2>1 DEF PastPublisher, PastMiner
    <2>3. RequestsCounted' /\ BucketsCounted' /\ PodsCounted' /\ EventsStored'
      BY <2>1 DEF TrackerInv, LedgersFine, RequestsCounted, BucketsCounted, PodsCounted, EventsStored
    <2> QED BY <2>2, <2>3, SamePublishers, SameMiners DEF TrackerInv, LedgersFine
  <1> QED BY <1>1, <1>2, <1>3 DEF TrackerInv

LEMMA TrackerNextInv == TrackerInv /\ [TrackerNext]_trackerVars => TrackerInv'
  <1> SUFFICES ASSUME TrackerInv, [TrackerNext]_trackerVars PROVE TrackerInv'
    OBVIOUS
  <1>1. minute \in 0..MaxMinute /\ MaxMinute \in Nat
    BY AnalyticsAssumption DEF TrackerInv, TrackerTypeOK, CountersTyped
  <1>2. ASSUME NEW k \in Calls, Step(k) PROVE TrackerInv'
    BY <1>2, RequestInv, FillInv, LatencyLoadsInv, StoreAverageInv, PercentilesInv, PublisherInv,
       MinerInv, StoreInv, PodInv DEF Step
  <1>3. CASE NextMinute
    <2>1. minute' \in 0..MaxMinute
      BY <1>1, <1>3 DEF NextMinute
    <2> QED BY <1>3, <2>1, ClockInv DEF NextMinute
  <1>4. CASE UNCHANGED trackerVars
    BY <1>1, <1>4, ClockInv DEF trackerVars
  <1> QED BY <1>2, <1>3, <1>4 DEF TrackerNext

LEMMA TrackerInitInv == TrackerInit => TrackerInv
  <1> SUFFICES ASSUME TrackerInit PROVE TrackerInv
    OBVIOUS
  <1>1. op \in [Calls -> Operations] /\ at = [k \in Calls |-> Entry(op[k])]
    BY DEF TrackerInit
  <1>2. ASSUME NEW k \in Calls PROVE at[k] = Entry(op[k]) /\ at[k] \in Places /\ PlaceOf(op[k], at[k])
    <2>1. op[k] \in Operations /\ at[k] = Entry(op[k])
      BY <1>1
    <2>2. /\ op[k].kind \in {"request", "response", "impression", "pod"}
          /\ op[k].kind = "response" => op[k].filled \in BOOLEAN
      BY <2>1, OperationTypes
    <2>3. CASE op[k].kind = "request"
      BY <2>1, <2>3, EntryOf DEF Places, PlaceOf
    <2>4. CASE op[k].kind = "response"
      BY <2>1, <2>2, <2>4, EntryOf DEF Places, PlaceOf
    <2>5. CASE op[k].kind = "impression"
      BY <2>1, <2>5, EntryOf DEF Places, PlaceOf
    <2>6. CASE op[k].kind = "pod"
      BY <2>1, <2>6, EntryOf DEF Places, PlaceOf
    <2> QED BY <2>1, <2>2, <2>3, <2>4, <2>5, <2>6
  <1>3. CallsTyped
    <2>1. at \in [Calls -> Places]
      BY <1>1, <1>2
    <2> QED BY <1>1, <1>2, <2>1 DEF CallsTyped
  <1>4. CountersTyped
    BY AnalyticsAssumption DEF TrackerInit, CountersTyped
  <1>5. TrackerTypeOK
    BY <1>3, <1>4 DEF TrackerTypeOK
  <1>6. ASSUME NEW k \in Calls
        PROVE  /\ op[k].kind = "request" => at[k] = "add"
               /\ op[k].kind = "response" => at[k] \in {"fill", "latency"}
               /\ op[k].kind = "impression" => at[k] = "publisher"
               /\ op[k].kind = "pod" => at[k] = "pod"
    BY <1>2, EntryOf
  <1>7. RatesFine
    <2>1. 0 \in Observed /\ averageLatency = 0 /\ p95Latency = 0 /\ p99Latency = 0 /\ podCompletionRate = 0
      BY DEF Observed, TrackerInit
    <2>2. ASSUME NEW k \in Calls
          PROVE  at[k] \notin {"latency-count", "latency-store", "pod-rate", "pod-count", "pod-store"}
      <3>1. op[k].kind \in {"request", "response", "impression", "pod"}
        BY <1>1, OperationTypes
      <3> QED BY <1>6, <3>1
    <2>3. AverageFine /\ PercentilesFine
      BY <2>1 DEF AverageFine, PercentilesFine
    <2>4. LoadedFine
      BY <2>2 DEF LoadedFine
    <2>5. PodsFine
      BY <2>1, <2>2 DEF PodsFine
    <2> QED BY <2>3, <2>4, <2>5 DEF RatesFine
  <1>8. LedgersFine
    <2>1. /\ Past("request", {"add"}) = {} /\ Past("request", {"add", "send", "bucket", "panicked"}) = {}
          /\ Past("pod", {"pod"}) = {} /\ Past("impression", {"publisher"}) = {}
          /\ Past("impression", {"publisher", "miner"}) = {}
          /\ Past("impression", {"publisher", "miner", "store"}) = {}
      BY <1>6 DEF Past
    <2>2. Cardinality({}) = 0
      BY FS_EmptySet
    <2>3. RequestsCounted /\ PodsCounted /\ EventsStored
      BY <2>1, <2>2 DEF RequestsCounted, PodsCounted, EventsStored, TrackerInit
    <2>4. BucketsCounted
      <3>1. IsFiniteSet(0..MaxMinute)
        BY AnalyticsAssumption, FS_Interval
      <3>2. \A m \in 0..MaxMinute : buckets[m] = 0
        BY DEF TrackerInit
      <3>3. SumFunctionOnSet(buckets, 0..MaxMinute) = 0
        BY <3>1, <3>2, SumZero
      <3> QED BY <2>1, <2>2, <3>3 DEF BucketsCounted
    <2>5. \A part : Shares({}, part) = 0
      BY SumEmpty DEF Shares
    <2>6. (\A p : PastPublisher(p) = {}) /\ (\A m : PastMiner(m) = {})
      BY <2>1 DEF PastPublisher, PastMiner
    <2>7. PublishersPaid
      <3>1. \A p \in Known : pubStats[p].impressions = 0 /\ pubStats[p].revenue = 0
        BY DEF TrackerInit
      <3> QED BY <2>2, <2>5, <2>6, <3>1 DEF PublishersPaid
    <2>8. MinersPaid
      <3>1. \A m \in Miners : minerStats[m].served = 0 /\ minerStats[m].earnings = 0
        BY DEF TrackerInit
      <3> QED BY <2>2, <2>5, <2>6, <3>1 DEF MinersPaid
    <2> QED BY <2>3, <2>4, <2>7, <2>8 DEF LedgersFine
  <1> QED BY <1>5, <1>7, <1>8 DEF TrackerInv

\* What was measured has a largest element, and it is Max(Observed).
LEMMA MaxObserved ==
    ASSUME TrackerTypeOK
    PROVE  Max(Observed) \in Observed /\ \A y \in Observed : y <= Max(Observed)
  <1> DEFINE S == {j \in Calls : op[j].kind = "response" /\ at[j] # Entry(op[j])}
             f == [k \in S |-> op[k].latency]
  <1>1. IsFiniteSet(S)
    BY AnalyticsAssumption, FS_Subset
  <1>2. \A k \in S : f[k] \in Nat
    BY OperationTypes DEF TrackerTypeOK, CallsTyped
  <1>3. Observed = {0} \cup {f[k] : k \in S}
    BY DEF Observed
  <1> HIDE DEF S, f
  <1>4. PICK b \in {0} \cup {f[k] : k \in S} : \A k \in S : f[k] <= b
    BY <1>1, <1>2, LargestTerm
  <1>5. b \in Observed /\ \A y \in Observed : b >= y
    BY <1>2, <1>3, <1>4
  <1>6. Max(Observed) \in Observed /\ \A y \in Observed : Max(Observed) >= y
    BY <1>5, Zenon DEF Max
  <1>7. Observed \subseteq Nat
    BY ObservedNat
  <1> QED BY <1>6, <1>7

\* Averages and percentiles stay within what was measured and rates are
\* percentages, however many calls load and store at once.
THEOREM RatesObserved == TrackerSpec => []RatesWithinObserved
  <1>1. TrackerInv => RatesWithinObserved
    <2> SUFFICES ASSUME TrackerInv PROVE RatesWithinObserved
      OBVIOUS
    <2>1. TrackerTypeOK /\ RatesFine /\ averageLatency \in Nat
      BY DEF TrackerInv, TrackerTypeOK, CountersTyped
    <2>2. PICK x \in Observed : averageLatency <= x
      BY <2>1 DEF RatesFine, AverageFine
    <2>3. Max(Observed) \in Nat /\ x \in Nat /\ x <= Max(Observed)
      BY <2>1, <2>2, MaxObserved, ObservedNat
    <2>4. averageLatency <= Max(Observed)
      BY <2>1, <2>2, <2>3
    <2> QED BY <2>1, <2>4 DEF RatesWithinObserved, RatesFine, PercentilesFine, PodsFine
  <1> QED BY <1>1, TrackerInitInv, TrackerNextInv, PTL DEF TrackerSpec

\* At rest the counters, the time buckets, the stored events and the accounts
\* of publishers and miners agree, for any calls, operations and prices.
THEOREM LedgersAgree == TrackerSpec => []LedgersAgreeAtRest
  <1>1. TrackerInv => LedgersAgreeAtRest
    <2> SUFFICES ASSUME TrackerInv, AtRest PROVE LedgersAgreeAtRest
      BY DEF LedgersAgreeAtRest
    <2>1. TrackerTypeOK /\ LedgersFine /\ DOMAIN buckets = 0..MaxMinute
      BY DEF TrackerInv, TrackerTypeOK, CountersTyped
    <2>2. ASSUME NEW k \in Calls
          PROVE  /\ at[k] = "panicked" => op[k].kind = "request"
                 /\ op[k].kind = "request" => at[k] \in {"add", "done", "panicked"}
                 /\ op[k].kind = "impression" => at[k] \in {"publisher", "done"}
                 /\ op[k].kind = "pod" => at[k] \in {"pod", "done"}
      BY <2>1, EntryOf, KindAt DEF AtRest
    <2> DEFINE Bucketed == Past("request", {"add", "send", "bucket", "panicked"})
               Panicked == {k \in Calls : at[k] = "panicked"}
    <2>3. /\ Past("request", {"add"}) = Bucketed \cup Panicked
          /\ Bucketed \cap Panicked = {}
          /\ Past("pod", {"pod"}) = Done("pod")
          /\ Past("impression", {"publisher"}) = Done("impression")
          /\ Past("impression", {"publisher", "miner"}) = Done("impression")
          /\ Past("impression", {"publisher", "miner", "store"}) = Done("impression")
      BY <2>2 DEF Past, Done
    <2>4. events = Done("impression")
      BY <2>1, <2>3 DEF LedgersFine, EventsStored
    <2>5. /\ \A p : PastPublisher(p) = {k \in events : op[k].publisher = p}
          /\ \A m : PastMiner(m) = {k \in events : op[k].miner = m}
      BY <2>3, <2>4 DEF PastPublisher, PastMiner
    <2>6. totalRequests = SumFunctionOnSet(buckets, DOMAIN buckets) + Cardinality(Panicked)
      <3>1. IsFiniteSet(Bucketed) /\ IsFiniteSet(Panicked)
        <4>1. Bucketed \subseteq Calls /\ Panicked \subseteq Calls
          BY DEF Past
        <4> HIDE DEF Bucketed, Panicked
        <4> QED BY <4>1, AnalyticsAssumption, FS_Subset
      <3>2. totalRequests = Cardinality(Bucketed \cup Panicked)
            /\ SumFunctionOnSet(buckets, DOMAIN buckets) = Cardinality(Bucketed)
        BY <2>1, <2>3 DEF LedgersFine, RequestsCounted, BucketsCounted
      <3> HIDE DEF Bucketed, Panicked
      <3>3. Cardinality(Bucketed \cup Panicked) = Cardinality(Bucketed) + Cardinality(Panicked)
        <4>1. Cardinality(Bucketed \cup Panicked)
                = Cardinality(Bucketed) + Cardinality(Panicked) - Cardinality({})
          BY <2>3, <3>1, FS_Union
        <4> QED BY <3>1, <4>1, FS_EmptySet, FS_CardinalityType
      <3> QED BY <3>2, <3>3
    <2>7. totalPods = Cardinality(Done("pod"))
      BY <2>1, <2>3 DEF LedgersFine, PodsCounted
    <2>8. \A p \in Known : LET mine == {k \in events : op[k].publisher = p} IN
            /\ pubStats[p].impressions = Cardinality(mine)
            /\ pubStats[p].revenue = Shares(mine, 10)
      BY <2>1, <2>5 DEF LedgersFine, PublishersPaid
    <2>9. \A m \in Miners : LET mine == {k \in events : op[k].miner = m} IN
            /\ minerStats[m].served = Cardinality(mine)
            /\ minerStats[m].earnings = Shares(mine, 100)
      BY <2>1, <2>5 DEF LedgersFine, MinersPaid
    <2> QED BY <2>4, <2>6, <2>7, <2>8, <2>9 DEF LedgersAgreeAtRest
  <1> QED BY <1>1, TrackerInitInv, TrackerNextInv, PTL DEF TrackerSpec
=============================================================================
