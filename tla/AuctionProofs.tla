---------------------------- MODULE AuctionProofs ----------------------------
(***************************************************************************)
(* Proofs about the auction, its run with a Halo2 proof, and the enclave's  *)
(* pass.                                                                    *)
(*                                                                          *)
(* The reference outcome is stated over the positions of the sealed bids;   *)
(* the code works on lists made from them.  A listing relates the two: a    *)
(* list t and, for each of its places, the position of the sealed bid it    *)
(* comes from, no position twice.                                           *)
(***************************************************************************)
EXTENDS Halo2Auction, Enclave, InductionTheorems

USE AuctionAssumption

-----------------------------------------------------------------------------
(* Listings *)

\* The positions of s, up to n, of bids that can be decrypted and reach the
\* reserve.
Reaching(s, n) ==
    {k \in 1..n : decryptable(s[k]) /\ decryptBid(s[k]).value >= Reserve}

\* t lists, through f, the bids of s at the positions in K, each once.
Lists(t, f, s, K) ==
    /\ f \in [1..Len(t) -> K]
    /\ \A i, j \in 1..Len(t) : f[i] = f[j] => i = j
    /\ \A k \in K : \E i \in 1..Len(t) : f[i] = k
    /\ \A i \in 1..Len(t) : t[i] = decryptBid(s[f[i]])

\* A decrypted bid has the type decryptBid gives it.
LEMMA DecryptedType ==
    ASSUME NEW b \in SealedBid, decryptable(b)
    PROVE  /\ decryptBid(b) \in DecryptedBid
           /\ decryptBid(b).value \in Nat
           /\ decryptBid(b).bidder = b.bidder
  <1>1. b.commitment \in Nat /\ b.bidder \in Bidders
    BY DEF decryptable, SealedBid
  <1>2. b.commitment % Modulus \in Nat
    BY <1>1
  <1> QED BY <1>1, <1>2 DEF decryptBid, DecryptedBid

\* Appending the bid at a new position extends a listing.
LEMMA ListsAppend ==
    ASSUME NEW t \in Seq(DecryptedBid), NEW f, NEW s, NEW K, NEW k, k \notin K,
           decryptBid(s[k]) \in DecryptedBid, Lists(t, f, s, K)
    PROVE  \E g : Lists(Append(t, decryptBid(s[k])), g, s, K \cup {k})
  <1> DEFINE n == Len(t)
             u == Append(t, decryptBid(s[k]))
             g == [i \in 1..n + 1 |-> IF i = n + 1 THEN k ELSE f[i]]
  <1>1. n \in Nat /\ Len(u) = n + 1 /\ u[n + 1] = decryptBid(s[k])
    OBVIOUS
  <1>2. \A i \in 1..n : u[i] = t[i]
    OBVIOUS
  <1>3. 1..n + 1 = (1..n) \cup {n + 1} /\ n + 1 \notin 1..n
    BY <1>1
  <1>f. /\ f \in [1..n -> K]
        /\ \A i, j \in 1..n : f[i] = f[j] => i = j
        /\ \A m \in K : \E i \in 1..n : f[i] = m
        /\ \A i \in 1..n : t[i] = decryptBid(s[f[i]])
    BY DEF Lists
  <1> HIDE DEF u, n
  <1>4. \A i \in 1..n : g[i] = f[i] /\ g[i] \in K
    BY <1>3, <1>f
  <1>5. g[n + 1] = k
    BY <1>3
  <1>6. g \in [1..n + 1 -> K \cup {k}]
    BY <1>3, <1>f
  <1> HIDE DEF g
  <1>7. \A i, j \in 1..n + 1 : g[i] = g[j] => i = j
    BY <1>3, <1>4, <1>5, <1>f
  <1>8. \A m \in K \cup {k} : \E i \in 1..n + 1 : g[i] = m
    BY <1>3, <1>4, <1>5, <1>f
  <1>9. \A i \in 1..n + 1 : u[i] = decryptBid(s[g[i]])
    BY <1>1, <1>2, <1>3, <1>4, <1>5, <1>f
  <1> QED BY <1>1, <1>6, <1>7, <1>8, <1>9, SMTT(30) DEF Lists, u

\* The rounds of the loop that makes the list.
LEMMA ListRounds ==
    ASSUME NEW s \in Seq(SealedBid)
    PROVE  \E g \in [0..Len(s) -> Seq(DecryptedBid)] :
             /\ g[0] = <<>>
             /\ \A k \in 1..Len(s) : g[k] = keep(g[k - 1], s[k])
             /\ validBids(s) = g[Len(s)]
  <1> DEFINE n == Len(s)
             V == Seq(DecryptedBid)
             F(f) == [k \in 0..n |-> IF k = 0 THEN <<>> ELSE keep(f[k - 1], s[k])]
             step == [x \in Nat \X V |-> IF x[1] \in 1..n THEN keep(x[2], s[x[1]]) ELSE <<>>]
             h == CHOOSE f : f = F(f)
  <1>n. n \in Nat
    OBVIOUS
  <1>v. <<>> \in V
    OBVIOUS
  <1>k. ASSUME NEW v \in V, NEW k \in 1..n PROVE keep(v, s[k]) \in V
    BY DecryptedType DEF keep
  <1> HIDE DEF V
  <1>1. step \in [Nat \X V -> V]
    <2>1. ASSUME NEW x \in Nat \X V PROVE (IF x[1] \in 1..n THEN keep(x[2], s[x[1]]) ELSE <<>>) \in V
      BY <1>k, <1>v
    <2> QED BY <2>1
  <1>2. PICK g \in [0..n -> V] : Rounds(g, n, <<>>, step)
    <2> HIDE DEF step, n
    <2> QED BY <1>1, <1>v, <1>n, RoundsExist
  <1>3. g = F(g)
    <2>1. ASSUME NEW k \in 0..n PROVE g[k] = IF k = 0 THEN <<>> ELSE keep(g[k - 1], s[k])
      <3>1. CASE k = 0
        BY <3>1, <1>2 DEF Rounds
      <3>2. CASE k # 0
        <4>1. k \in 1..n /\ k - 1 \in 0..n
          BY <3>2, <1>n
        <4>2. <<k, g[k - 1]>> \in Nat \X V
          BY <4>1, SMTT(30)
        <4>3. g[k] = step[<<k, g[k - 1]>>]
          BY <1>2, <4>1 DEF Rounds
        <4> QED BY <4>1, <4>2, <4>3
      <3> QED BY <3>1, <3>2
    <2> QED BY <2>1
  <1>4. validBids(s) = h[n]
    BY DEF validBids
  <1>5. h = F(h)
    <2> HIDE DEF F
    <2> QED BY <1>3, Zenon
  <1> HIDE DEF h
  <1>6. h[0] = <<>> /\ \A k \in 1..n : h[k] = keep(h[k - 1], s[k])
    BY <1>5, <1>n
  <1> DEFINE Good == {k \in Nat : k <= n => h[k] \in V}
  <1>7. 0 \in Good
    BY <1>6, <1>v
  <1>8. ASSUME NEW k \in Nat, k \in Good PROVE k + 1 \in Good
    <2> SUFFICES ASSUME k + 1 <= n PROVE h[k + 1] \in V
      OBVIOUS
    <2>1. k + 1 \in 1..n /\ (k + 1) - 1 = k /\ h[k] \in V
      BY <1>8, <1>n
    <2>2. h[k + 1] = keep(h[k], s[k + 1])
      BY <2>1, <1>6
    <2> QED BY <2>1, <2>2, <1>k
  <1>9. Nat \subseteq Good
    <2> HIDE DEF Good
    <2> QED BY <1>7, <1>8, NumberInduction
  <1>10. h \in [0..n -> V]
    <2>1. \A k \in 0..n : h[k] \in V
      BY <1>9, <1>n
    <2> QED BY <1>5, <2>1
  <1> QED BY <1>4, <1>6, <1>10 DEF V

\* The list a loop over sealed bids makes is a listing of the bids it keeps.
LEMMA LoopLists ==
    ASSUME NEW s \in Seq(SealedBid)
    PROVE  /\ validBids(s) \in Seq(DecryptedBid)
           /\ \E f : Lists(validBids(s), f, s, Reaching(s, Len(s)))
  <1> DEFINE n == Len(s)
  <1>n. n \in Nat
    OBVIOUS
  <1>1. PICK g \in [0..n -> Seq(DecryptedBid)] :
             /\ g[0] = <<>>
             /\ \A k \in 1..n : g[k] = keep(g[k - 1], s[k])
             /\ validBids(s) = g[n]
    BY ListRounds
  <1>s. \A k \in 1..n : s[k] \in SealedBid
    OBVIOUS
  <1> HIDE DEF n
  <1> DEFINE Good == {k \in Nat : k <= n => \E f : Lists(g[k], f, s, Reaching(s, k))}
  <1>2. 0 \in Good
    <2>1. Reaching(s, 0) = {}
      BY DEF Reaching
    <2>2. g[0] = <<>> /\ Len(g[0]) = 0
      BY <1>1
    <2>3. Lists(g[0], [i \in {} |-> i], s, {})
      <3>1. 1..Len(g[0]) = {}
        BY <2>2
      <3> QED BY <3>1 DEF Lists
    <2> QED BY <2>1, <2>3
  <1>3. ASSUME NEW k \in Nat, k \in Good PROVE k + 1 \in Good
    <2> SUFFICES ASSUME k + 1 <= n PROVE \E f : Lists(g[k + 1], f, s, Reaching(s, k + 1))
      OBVIOUS
    <2>1. k + 1 \in 1..n /\ k \in 0..n /\ (k + 1) - 1 = k
      BY <1>n
    <2>2. g[k + 1] = keep(g[k], s[k + 1]) /\ g[k] \in Seq(DecryptedBid)
      BY <2>1, <1>1
    <2>3. PICK f : Lists(g[k], f, s, Reaching(s, k))
      BY <1>3, <2>1, <1>n
    <2>4. 1..k + 1 = (1..k) \cup {k + 1} /\ k + 1 \notin 1..k
      OBVIOUS
    <2> HIDE DEF Good
    <2>5. CASE decryptable(s[k + 1]) /\ decryptBid(s[k + 1]).value >= Reserve
      <3>1. Reaching(s, k + 1) = Reaching(s, k) \cup {k + 1}
        BY <2>4, <2>5, Zenon DEF Reaching
      <3>2. k + 1 \notin Reaching(s, k)
        BY <2>4 DEF Reaching
      <3>3. g[k + 1] = Append(g[k], decryptBid(s[k + 1]))
        BY <2>2, <2>5 DEF keep
      <3>4. decryptBid(s[k + 1]) \in DecryptedBid
        BY <1>s, <2>1, <2>5, DecryptedType
      <3> DEFINE K == Reaching(s, k)
                 m == k + 1
                 list == g[k]
      <3>5. list \in Seq(DecryptedBid) /\ m \notin K /\ decryptBid(s[m]) \in DecryptedBid /\ Lists(list, f, s, K)
        BY <2>2, <2>3, <3>2, <3>4
      <3> HIDE DEF K, m, list
      <3>6. \E h : Lists(Append(list, decryptBid(s[m])), h, s, K \cup {m})
        BY <3>5, ListsAppend
      <3> QED BY <3>1, <3>3, <3>6 DEF K, m, list
    <2>6. CASE ~ (decryptable(s[k + 1]) /\ decryptBid(s[k + 1]).value >= Reserve)
      <3>1. Reaching(s, k + 1) = Reaching(s, k)
        BY <2>4, <2>6, Zenon DEF Reaching
      <3>2. g[k + 1] = g[k]
        BY <2>2, <2>6 DEF keep
      <3> QED BY <2>3, <3>1, <3>2
    <2> QED BY <2>5, <2>6
  <1>4. Nat \subseteq Good
    <2> HIDE DEF Good
    <2> QED BY <1>2, <1>3, NumberInduction
  <1>5. (\E f : Lists(g[n], f, s, Reaching(s, n))) /\ g[n] \in Seq(DecryptedBid)
    BY <1>4, <1>n
  <1> QED BY <1>1, <1>5 DEF n
-----------------------------------------------------------------------------
(* Second-price outcomes of lists *)

\* The largest element of a set of numbers.
LEMMA MaxIs ==
    ASSUME NEW S, S \subseteq Int, NEW m \in S, \A x \in S : x <= m
    PROVE  Max(S) = m
  <1>1. m \in Int /\ \A y \in S : m >= y
    OBVIOUS
  <1>2. Max(S) \in S /\ \A y \in S : Max(S) >= y
    <2>1. \E x \in S : \A y \in S : x >= y
      BY <1>1
    <2> QED BY <2>1, Zenon DEF Max
  <1> DEFINE M == Max(S)
  <1>3. M \in Int /\ M \in S /\ M >= m
    BY <1>2
  <1> HIDE DEF M
  <1>4. M = m
    BY <1>1, <1>3
  <1> QED BY <1>4 DEF M

\* SecondPrice, of a list of decrypted bids.
PriceOf(o, t) ==
    \E i \in 1..Len(t) :
      /\ o.winner = t[i].bidder
      /\ o.winningBid = t[i].value
      /\ t[i].value >= Reserve
      /\ \A j \in 1..Len(t) : t[j].value <= t[i].value
      /\ o.clearingPrice \in Nat /\ o.clearingPrice >= Reserve
      /\ \A j \in 1..Len(t) : j # i => t[j].value <= o.clearingPrice
      /\ \/ o.clearingPrice = Reserve
         \/ \E j \in 1..Len(t) : j # i /\ t[j].value = o.clearingPrice

\* A second-price outcome of a list is one of the sealed bids it lists, when
\* it has all those that reach the reserve.
LEMMA ListedPrice ==
    ASSUME NEW s \in Seq(SealedBid),
           NEW t \in Seq(DecryptedBid), NEW f, Lists(t, f, s, Reaching(s, Len(s))),
           NEW o, PriceOf(o, t)
    PROVE  SecondPrice(o, s)
  <1> DEFINE valid == {k \in DOMAIN s : decryptable(s[k]) /\ decryptBid(s[k]).value >= Reserve}
             value(k) == decryptBid(s[k]).value
             N == 1..Len(t)
             K == Reaching(s, Len(s))
  <1>1. PICK i \in N :
          /\ o.winner = t[i].bidder
          /\ o.winningBid = t[i].value
          /\ t[i].value >= Reserve
          /\ \A j \in N : t[j].value <= t[i].value
          /\ o.clearingPrice \in Nat /\ o.clearingPrice >= Reserve
          /\ \A j \in N : j # i => t[j].value <= o.clearingPrice
          /\ \/ o.clearingPrice = Reserve
             \/ \E j \in N : j # i /\ t[j].value = o.clearingPrice
    BY DEF PriceOf
  <1>f. /\ f \in [N -> K]
        /\ \A a, b \in N : f[a] = f[b] => a = b
        /\ \A k \in K : \E a \in N : f[a] = k
        /\ \A a \in N : t[a] = decryptBid(s[f[a]])
    BY DEF Lists
  <1>d. DOMAIN s = 1..Len(s) /\ \A k \in DOMAIN s : s[k] \in SealedBid
    OBVIOUS
  <1>2. ASSUME NEW k \in DOMAIN s, decryptable(s[k])
        PROVE  value(k) \in Nat /\ decryptBid(s[k]).bidder = s[k].bidder
    BY <1>2, <1>d, DecryptedType
  <1>3. \A a \in N : f[a] \in DOMAIN s /\ decryptable(s[f[a]]) /\ value(f[a]) = t[a].value
    BY <1>f, <1>d DEF Reaching
  <1>4. \A k \in valid : k \in DOMAIN s /\ decryptable(s[k]) /\ value(k) \in Nat /\ value(k) >= Reserve
    BY <1>2
  <1>5. \A k \in valid : k \in K
    BY <1>4, <1>d DEF Reaching
  <1>6. \A a \in N : t[a].value >= Reserve => f[a] \in valid
    BY <1>3
  <1>7. \A a \in N : t[a].value \in Nat
    BY <1>2, <1>3
  <1>8. s[f[i]].bidder = t[i].bidder
    BY <1>2, <1>3, <1>f
  <1> HIDE DEF valid, value, N, K
  <1>9. f[i] \in valid /\ o.winner = s[f[i]].bidder /\ o.winningBid = value(f[i])
    BY <1>1, <1>3, <1>6, <1>8
  <1>10. \A j \in valid : value(j) <= value(f[i])
    <2>1. ASSUME NEW j \in valid PROVE value(j) <= value(f[i])
      <3>1. PICK a \in N : f[a] = j
        BY <1>5, <1>f
      <3> QED BY <3>1, <1>1, <1>3
    <2> QED BY <2>1
  <1> DEFINE S == {Reserve} \cup {value(j) : j \in valid \ {f[i]}}
  <1>11. S \subseteq Int
    BY <1>4
  <1>12. \A x \in S : x <= o.clearingPrice
    <2>1. ASSUME NEW j \in valid \ {f[i]} PROVE value(j) <= o.clearingPrice
      <3>1. PICK a \in N : f[a] = j
        BY <1>5, <1>f
      <3>2. a # i
        BY <3>1
      <3> QED BY <3>1, <3>2, <1>1, <1>3
    <2> QED BY <2>1, <1>1
  <1>13. o.clearingPrice \in S
    <2>1. CASE o.clearingPrice = Reserve
      BY <2>1
    <2>2. ASSUME NEW j \in N, j # i, t[j].value = o.clearingPrice PROVE o.clearingPrice \in S
      <3>1. f[j] \in valid
        BY <2>2, <1>1, <1>6
      <3>2. f[j] # f[i]
        BY <2>2, <1>f
      <3>3. value(f[j]) = o.clearingPrice
        BY <2>2, <1>3
      <3> QED BY <3>1, <3>2, <3>3
    <2> QED BY <2>1, <2>2, <1>1
  <1>14. Max(S) = o.clearingPrice
    <2> HIDE DEF S
    <2> QED BY <1>11, <1>12, <1>13, MaxIs
  <1> DEFINE d == [k \in valid |-> decryptBid(s[k])]
  <1>15. DOMAIN d = valid /\ \A k \in valid : d[k] = decryptBid(s[k]) /\ d[k].value = value(k)
    BY DEF value
  <1>16. {d[j].value : j \in DOMAIN d \ {f[i]}} = {value(j) : j \in valid \ {f[i]}}
    BY <1>15
  <1>17. d[f[i]].bidder = s[f[i]].bidder
    BY <1>2, <1>3, <1>9, <1>15
  <1> HIDE DEF d
  <1>18. SecondPriceOf(o, d)
    BY <1>9, <1>10, <1>14, <1>15, <1>16, <1>17, ZenonT(30) DEF SecondPriceOf
  <1> QED BY <1>18 DEF SecondPrice, valid, d

\* u has the elements of t in the order p gives.
Arranges(u, t, p) ==
    /\ p \in [DOMAIN t -> DOMAIN t]
    /\ \A j, k \in DOMAIN t : p[j] = p[k] => j = k
    /\ u = [k \in DOMAIN t |-> t[p[k]]]

\* Any arrangement of a list lists the same bids.
LEMMA ListsArranged ==
    ASSUME NEW t \in Seq(DecryptedBid), NEW f, NEW s, NEW K, Lists(t, f, s, K),
           NEW p, NEW u, Arranges(u, t, p)
    PROVE  /\ u \in Seq(DecryptedBid) /\ Len(u) = Len(t)
           /\ \E g : Lists(u, g, s, K)
  <1>a. /\ p \in [DOMAIN t -> DOMAIN t]
        /\ \A j, k \in DOMAIN t : p[j] = p[k] => j = k
        /\ u = [k \in DOMAIN t |-> t[p[k]]]
    BY DEF Arranges
  <1> DEFINE n == Len(t)
             N == 1..n
             g == [i \in N |-> f[p[i]]]
  <1>1. n \in Nat /\ DOMAIN t = N /\ t \in [N -> DecryptedBid]
    OBVIOUS
  <1>2. u \in Seq(DecryptedBid) /\ Len(u) = n
    BY <1>1, <1>a
  <1>f. /\ f \in [N -> K]
        /\ \A a, b \in N : f[a] = f[b] => a = b
        /\ \A k \in K : \E a \in N : f[a] = k
        /\ \A a \in N : t[a] = decryptBid(s[f[a]])
    BY DEF Lists
  <1>3. \A m \in N : \E i \in N : p[i] = m
    <2>1. IsFiniteSet(N)
      BY <1>1, FS_Interval
    <2>2. p \in [N -> N] /\ \A j, k \in N : p[j] = p[k] => j = k
      BY <1>1, <1>a
    <2>3. p \in Injection(N, N)
      BY <2>2 DEF Injection, IsInjective
    <2> HIDE DEF N
    <2>4. p \in Surjection(N, N)
      BY <2>1, <2>3, FS_Injection
    <2> QED BY <2>4 DEF Surjection
  <1> HIDE DEF N, n
  <1>4. \A i \in N : p[i] \in N /\ g[i] = f[p[i]] /\ u[i] = t[p[i]]
    BY <1>1, <1>a
  <1>5. g \in [N -> K]
    BY <1>4, <1>f
  <1> HIDE DEF g
  <1>6. \A i, j \in N : g[i] = g[j] => i = j
    BY <1>1, <1>4, <1>a, <1>f
  <1>7. \A k \in K : \E i \in N : g[i] = k
    <2>1. ASSUME NEW k \in K PROVE \E i \in N : g[i] = k
      <3>1. PICK a \in N : f[a] = k
        BY <1>f
      <3>2. PICK i \in N : p[i] = a
        BY <1>3
      <3> QED BY <3>1, <3>2, <1>4
    <2> QED BY <2>1
  <1>8. ASSUME NEW i \in N PROVE u[i] = decryptBid(s[g[i]])
    <2>1. p[i] \in N /\ g[i] = f[p[i]] /\ u[i] = t[p[i]]
      BY <1>4
    <2>2. t[p[i]] = decryptBid(s[f[p[i]]])
      BY <2>1, <1>f
    <2> QED BY <2>1, <2>2, Zenon
  <1>9. 1..Len(u) = N
    BY <1>2 DEF N
  <1>10. Lists(u, g, s, K)
    BY <1>5, <1>6, <1>7, <1>8, <1>9, Zenon DEF Lists
  <1> QED BY <1>2, <1>10 DEF n

\* What RunAuction takes from a sorted list is a second-price outcome of it.
LEMMA SortedPrice ==
    ASSUME NEW t \in Seq(DecryptedBid), Len(t) > 0,
           \A k \in 1..Len(t) : t[k].value >= Reserve,
           \A j, k \in 1..Len(t) : j < k => t[j].value >= t[k].value,
           NEW o, o = [winner |-> t[1].bidder, winningBid |-> t[1].value,
                       clearingPrice |-> IF Len(t) > 1 THEN t[2].value ELSE Reserve]
    PROVE  PriceOf(o, t) /\ o \in AuctionOutcome
  <1>0. Len(t) \in Nat /\ \A k \in 1..Len(t) : t[k] \in DecryptedBid
    OBVIOUS
  <1>1. Len(t) \in Nat /\ \A k \in 1..Len(t) : t[k].value \in Nat /\ t[k].bidder \in Bidders
    BY <1>0 DEF DecryptedBid
  <1> DEFINE n == Len(t)
  <1>2. o.winner = t[1].bidder /\ o.winningBid = t[1].value
    OBVIOUS
  <1>3. 1 \in 1..n /\ \A j \in 1..n : j # 1 => 1 < j
    BY <1>1
  <1>4. \A j \in 1..n : t[j].value <= t[1].value
    BY <1>1, <1>3
  <1>5. CASE n > 1
    <2>1. o.clearingPrice = t[2].value /\ 2 \in 1..n /\ 2 # 1
      BY <1>5, <1>1
    <2>2. \A j \in 1..n : j # 1 => j = 2 \/ 2 < j
      BY <1>1
    <2>3. \A j \in 1..n : j # 1 => t[j].value <= o.clearingPrice
      BY <1>1, <2>1, <2>2
    <2>4. o.clearingPrice \in Nat /\ o.clearingPrice >= Reserve
      BY <1>1, <2>1
    <2>5. PriceOf(o, t)
      BY <1>2, <1>3, <1>4, <2>1, <2>3, <2>4 DEF PriceOf
    <2> QED BY <1>1, <1>3, <2>1, <2>5 DEF AuctionOutcome
  <1>6. CASE ~ (n > 1)
    <2>1. o.clearingPrice = Reserve
      BY <1>6
    <2> HIDE DEF n
    <2>2. \A j \in 1..n : j = 1
      <3>1. n \in Nat
        BY <1>1 DEF n
      <3> QED BY <1>6, <3>1
    <2> USE DEF n
    <2>3. PriceOf(o, t)
      BY <1>2, <1>3, <1>4, <2>1, <2>2 DEF PriceOf
    <2> QED BY <1>1, <1>3, <2>1, <2>3 DEF AuctionOutcome
  <1> QED BY <1>5, <1>6

\* What RunAuction decides is a second-price outcome of the sealed bids, in
\* whatever order sort.Slice puts equal bids.
LEMMA RunIsSecondPrice ==
    ASSUME NEW s \in Seq(SealedBid), validBids(s) # <<>>, NEW t \in sortedBids(validBids(s)),
           NEW o, o = [winner |-> t[1].bidder, winningBid |-> t[1].value,
                       clearingPrice |-> IF Len(t) > 1 THEN t[2].value ELSE Reserve]
    PROVE  SecondPrice(o, s) /\ o \in AuctionOutcome
  <1> DEFINE v == validBids(s)
             K == Reaching(s, Len(s))
  <1>1. v \in Seq(DecryptedBid) /\ \E f : Lists(v, f, s, K)
    BY LoopLists
  <1>2. PICK f : Lists(v, f, s, K)
    BY <1>1
  <1>3. PICK p \in [DOMAIN v -> DOMAIN v] :
          /\ \A j, k \in DOMAIN v : p[j] = p[k] => j = k
          /\ \A j, k \in DOMAIN v : j < k => v[p[j]].value >= v[p[k]].value
          /\ t = [k \in DOMAIN v |-> v[p[k]]]
    BY DEF sortedBids
  <1>4. v # <<>>
    OBVIOUS
  <1> HIDE DEF v, K
  <1>5. t \in Seq(DecryptedBid) /\ Len(t) = Len(v) /\ \E g : Lists(t, g, s, K)
    <2>1. Arranges(t, v, p)
      BY <1>3, Zenon DEF Arranges
    <2> QED BY <1>1, <1>2, <2>1, ListsArranged
  <1>6. PICK g : Lists(t, g, s, K)
    BY <1>5
  <1>7. Len(t) > 0 /\ DOMAIN v = 1..Len(t)
    BY <1>1, <1>4, <1>5
  <1>8. \A k \in 1..Len(t) : t[k].value >= Reserve
    BY <1>6 DEF Lists, K, Reaching
  <1>9. \A j, k \in 1..Len(t) : j < k => t[j].value >= t[k].value
    BY <1>3, <1>7
  <1>10. PriceOf(o, t) /\ o \in AuctionOutcome
    BY <1>5, <1>7, <1>8, <1>9, SortedPrice
  <1>11. SecondPrice(o, s)
    BY <1>5, <1>6, <1>10, ListedPrice DEF K
  <1> QED BY <1>10, <1>11

-----------------------------------------------------------------------------
(* The enclave's pass *)

\* best is what the pass has after the first n bids of t.
Best(best, t, n) ==
    LET P == {i \in 1..n : t[i].value >= Reserve} IN
    \/ P = {} /\ best = [highest |-> None, second |-> None]
    \/ \E i \in P :
         /\ best.highest = t[i]
         /\ \A j \in P : t[j].value <= t[i].value
         /\ \/ P = {i} /\ best.second = None
            \/ \E j \in P \ {i} : best.second = t[j] /\ \A m \in P \ {i} : t[m].value <= t[j].value

PassState == [highest : DecryptedBid \cup {None}, second : DecryptedBid \cup {None}]

\* One more bid.
LEMMA PassIsBest ==
    ASSUME NEW t \in Seq(DecryptedBid), NEW n \in Nat, n + 1 \in 1..Len(t),
           NEW best \in PassState, Best(best, t, n)
    PROVE  Best(enclavePass(best, t[n + 1]), t, n + 1)
  <1> DEFINE P == {i \in 1..n : t[i].value >= Reserve}
             Q == {i \in 1..n + 1 : t[i].value >= Reserve}
             b == t[n + 1]
             r == enclavePass(best, b)
  <1>1. 1..n + 1 = (1..n) \cup {n + 1} /\ n + 1 \notin 1..n
    OBVIOUS
  <1>l. \A i \in 1..n + 1 : t[i] \in DecryptedBid
    OBVIOUS
  <1>2. \A i \in 1..n + 1 : t[i] \in DecryptedBid /\ t[i].value \in Nat /\ t[i] # None
    BY <1>l, NoneAssumption DEF DecryptedBid
  <1>3. b \in DecryptedBid /\ b.value \in Nat /\ b # None
    BY <1>1, <1>2
  <1>4. \A i \in P : t[i].value \in Nat /\ t[i] # None /\ i # n + 1
    BY <1>1, <1>2
  <1>5. IF b.value >= Reserve THEN Q = P \cup {n + 1} ELSE Q = P
    BY <1>1, Zenon
  <1>6. \/ P = {} /\ best = [highest |-> None, second |-> None]
        \/ \E i \in P :
             /\ best.highest = t[i]
             /\ \A j \in P : t[j].value <= t[i].value
             /\ \/ P = {i} /\ best.second = None
                \/ \E j \in P \ {i} : best.second = t[j] /\ \A m \in P \ {i} : t[m].value <= t[j].value
    BY DEF Best
  <1>7. SUFFICES
        \/ Q = {} /\ r = [highest |-> None, second |-> None]
        \/ \E i \in Q :
             /\ r.highest = t[i]
             /\ \A j \in Q : t[j].value <= t[i].value
             /\ \/ Q = {i} /\ r.second = None
                \/ \E j \in Q \ {i} : r.second = t[j] /\ \A m \in Q \ {i} : t[m].value <= t[j].value
    BY DEF Best
  <1>8. CASE b.value < Reserve
    <2>1. r = best /\ Q = P
      BY <1>3, <1>5, <1>8 DEF enclavePass
    <2> QED BY <1>6, <2>1, Zenon
  <1>9. CASE b.value >= Reserve
    <2>1. Q = P \cup {n + 1} /\ n + 1 \notin P
      BY <1>4, <1>5, <1>9
    <2>2. CASE best.highest = None \/ b.value > best.highest.value
      <3>1. r = [highest |-> b, second |-> best.highest]
        BY <1>3, <1>9, <2>2 DEF enclavePass
      <3>2. CASE P = {} /\ best = [highest |-> None, second |-> None]
        <4>1. Q = {n + 1} /\ r.highest = t[n + 1] /\ r.second = None
          BY <2>1, <3>1, <3>2
        <4> HIDE DEF r, Q, P
        <4> QED BY <1>3, <4>1
      <3>3. ASSUME NEW i \in P, best.highest = t[i], \A j \in P : t[j].value <= t[i].value
            PROVE  \E k \in Q :
                     /\ r.highest = t[k]
                     /\ \A j \in Q : t[j].value <= t[k].value
                     /\ \E j \in Q \ {k} : r.second = t[j] /\ \A m \in Q \ {k} : t[m].value <= t[j].value
        <4>1. r.highest = t[n + 1] /\ r.second = t[i] /\ t[i] # None /\ t[i].value \in Nat
          BY <3>1, <3>3, <1>4
        <4>2. t[n + 1].value > t[i].value /\ t[n + 1].value \in Nat
          BY <2>2, <3>3, <4>1, <1>3
        <4> HIDE DEF r, Q, P, b
        <4>3. Q \ {n + 1} = P /\ n + 1 \in Q
          BY <2>1
        <4>4. \A j \in Q : t[j].value <= t[n + 1].value
          BY <2>1, <4>1, <4>2, <3>3, <1>4
        <4> QED BY <4>1, <4>3, <4>4, <3>3
      <3> QED BY <1>6, <3>2, <3>3
    <2>3. CASE ~ (best.highest = None \/ b.value > best.highest.value)
      <3>1. r = IF best.second = None \/ b.value > best.second.value
                  THEN [best EXCEPT !.second = b] ELSE best
        BY <1>3, <1>9, <2>3 DEF enclavePass
      <3>0. best # [highest |-> None, second |-> None]
        BY <2>3
      <3>2. PICK i \in P :
             /\ best.highest = t[i]
             /\ \A j \in P : t[j].value <= t[i].value
             /\ \/ P = {i} /\ best.second = None
                \/ \E j \in P \ {i} : best.second = t[j] /\ \A m \in P \ {i} : t[m].value <= t[j].value
        BY <1>6, <3>0, Zenon
      <3>a. r.highest = t[i]
        BY <3>1, <3>2 DEF PassState
      <3>b. t[n + 1].value <= t[i].value
        <4>1. t[i].value \in Nat
          BY <1>4
        <4>2. best.highest.value = t[i].value
          BY <3>2
        <4> QED BY <1>3, <2>3, <4>1, <4>2
      <3>3. r.highest = t[i] /\ t[n + 1].value <= t[i].value
        BY <3>a, <3>b
      <3>4. b = t[n + 1] /\ t[n + 1].value \in Nat /\ t[i].value \in Nat
        BY <1>3, <1>4
      <3>5. i \in Q /\ \A j \in Q : t[j].value <= t[i].value
        BY <2>1, <3>2, <3>3
      <3>6. Q \ {i} = (P \ {i}) \cup {n + 1}
        BY <2>1
      <3>7. \E j \in Q \ {i} : r.second = t[j] /\ \A m \in Q \ {i} : t[m].value <= t[j].value
        <4>1. CASE P = {i} /\ best.second = None
          <5>1. r.second = t[n + 1] /\ Q \ {i} = {n + 1}
            BY <3>1, <3>6, <4>1 DEF PassState
          <5> HIDE DEF r, Q, P, b
          <5> QED BY <5>1, <3>4
        <4>2. ASSUME NEW j \in P \ {i}, best.second = t[j], \A m \in P \ {i} : t[m].value <= t[j].value
              PROVE  \E k \in Q \ {i} : r.second = t[k] /\ \A m \in Q \ {i} : t[m].value <= t[k].value
          <5>1. t[j].value \in Nat /\ best.second # None /\ best.second.value = t[j].value
            BY <1>4, <4>2
          <5>2. CASE b.value > t[j].value
            <6>1. r.second = t[n + 1]
              BY <3>1, <5>1, <5>2 DEF PassState
            <6> HIDE DEF r, Q
            <6>2. \A m \in P \ {i} : t[m].value <= t[n + 1].value
              BY <4>2, <5>1, <5>2, <1>4, <1>3, SMTT(30)
            <6> QED BY <6>1, <6>2, <3>4, <3>6
          <5>3. CASE ~ (b.value > t[j].value)
            <6>1. r.second = t[j]
              BY <3>1, <5>1, <5>3, <4>2
            <6> HIDE DEF r, Q
            <6>2. t[n + 1].value <= t[j].value
              BY <5>1, <5>3, <1>3
            <6> QED BY <6>1, <6>2, <4>2, <3>6
          <5> QED BY <5>2, <5>3
        <4> QED BY <3>2, <4>1, <4>2
      <3> QED BY <3>3, <3>5, <3>7
    <2> QED BY <2>2, <2>3
  <1> HIDE DEF P, Q, b, r
  <1> QED BY <1>3, <1>8, <1>9, SMTT(30)

\* The rounds of the enclave's loop.
LEMMA PassRounds ==
    ASSUME NEW t \in Seq(DecryptedBid)
    PROVE  \E g \in [0..Len(t) -> PassState] :
             /\ g[0] = [highest |-> None, second |-> None]
             /\ \A k \in 1..Len(t) : g[k] = enclavePass(g[k - 1], t[k])
             /\ runSecondPriceAuction(t) =
                  IF g[Len(t)].highest = None THEN NoWinner
                  ELSE [winner |-> g[Len(t)].highest.bidder,
                        winningBid |-> g[Len(t)].highest.value,
                        clearingPrice |-> IF g[Len(t)].second = None THEN Reserve
                                          ELSE g[Len(t)].second.value]
  <1> DEFINE n == Len(t)
             V == PassState
             start == [highest |-> None, second |-> None]
             F(f) == [k \in 0..n |-> IF k = 0 THEN start ELSE enclavePass(f[k - 1], t[k])]
             step == [x \in Nat \X V |-> IF x[1] \in 1..n THEN enclavePass(x[2], t[x[1]]) ELSE start]
             h == CHOOSE f : f = F(f)
  <1>n. n \in Nat
    OBVIOUS
  <1>v. start \in V
    BY DEF PassState
  <1>k. ASSUME NEW v \in V, NEW k \in 1..n PROVE enclavePass(v, t[k]) \in V
    <2>1. t[k] \in DecryptedBid
      OBVIOUS
    <2>2. t[k].value \in Nat
      BY <2>1 DEF DecryptedBid
    <2> QED BY <2>1, <2>2 DEF enclavePass, PassState
  <1>4. runSecondPriceAuction(t) =
          IF h[n].highest = None THEN NoWinner
          ELSE [winner |-> h[n].highest.bidder, winningBid |-> h[n].highest.value,
                clearingPrice |-> IF h[n].second = None THEN Reserve ELSE h[n].second.value]
    BY DEF runSecondPriceAuction
  <1> HIDE DEF V, start
  <1>1. step \in [Nat \X V -> V]
    <2>1. ASSUME NEW x \in Nat \X V PROVE (IF x[1] \in 1..n THEN enclavePass(x[2], t[x[1]]) ELSE start) \in V
      BY <1>k, <1>v
    <2> QED BY <2>1
  <1>2. PICK g \in [0..n -> V] : Rounds(g, n, start, step)
    <2> HIDE DEF step, n
    <2> QED BY <1>1, <1>v, <1>n, RoundsExist
  <1>3. g = F(g)
    <2>1. ASSUME NEW k \in 0..n PROVE g[k] = IF k = 0 THEN start ELSE enclavePass(g[k - 1], t[k])
      <3>1. CASE k = 0
        BY <3>1, <1>2 DEF Rounds
      <3>2. CASE k # 0
        <4>1. k \in 1..n /\ k - 1 \in 0..n
          BY <3>2, <1>n
        <4>2. <<k, g[k - 1]>> \in Nat \X V
          BY <4>1, SMTT(30)
        <4>3. g[k] = step[<<k, g[k - 1]>>]
          BY <1>2, <4>1 DEF Rounds
        <4> QED BY <4>1, <4>2, <4>3
      <3> QED BY <3>1, <3>2
    <2> QED BY <2>1
  <1>5. h = F(h)
    <2> HIDE DEF F
    <2> QED BY <1>3, Zenon
  <1> HIDE DEF h
  <1>6. h[0] = start /\ \A k \in 1..n : h[k] = enclavePass(h[k - 1], t[k])
    BY <1>5, <1>n
  <1> DEFINE Good == {k \in Nat : k <= n => h[k] \in V}
  <1>7. 0 \in Good
    BY <1>6, <1>v
  <1>8. ASSUME NEW k \in Nat, k \in Good PROVE k + 1 \in Good
    <2> SUFFICES ASSUME k + 1 <= n PROVE h[k + 1] \in V
      OBVIOUS
    <2>1. k + 1 \in 1..n /\ (k + 1) - 1 = k /\ h[k] \in V
      BY <1>8, <1>n
    <2>2. h[k + 1] = enclavePass(h[k], t[k + 1])
      BY <2>1, <1>6
    <2> QED BY <2>1, <2>2, <1>k
  <1>9. Nat \subseteq Good
    <2> HIDE DEF Good
    <2> QED BY <1>7, <1>8, NumberInduction
  <1>10. h \in [0..n -> V]
    <2>1. \A k \in 0..n : h[k] \in V
      BY <1>9, <1>n
    <2> QED BY <1>5, <2>1
  <1>11. h \in [0..n -> PassState]
    BY <1>10 DEF V
  <1>12. h[0] = [highest |-> None, second |-> None]
    BY <1>6 DEF start
  <1> QED BY <1>4, <1>6, <1>11, <1>12, Zenon DEF n

\* The enclave's pass over a list finds a second-price outcome of it, or none
\* when no bid reaches the reserve.
LEMMA PassPrice ==
    ASSUME NEW t \in Seq(DecryptedBid)
    PROVE  IF \E i \in 1..Len(t) : t[i].value >= Reserve
             THEN PriceOf(runSecondPriceAuction(t), t)
             ELSE runSecondPriceAuction(t) = NoWinner
  <1> DEFINE n == Len(t)
             o == runSecondPriceAuction(t)
  <1>n. n \in Nat
    OBVIOUS
  <1>t. \A i \in 1..n : t[i] \in DecryptedBid
    OBVIOUS
  <1>T. \A i \in 1..n : t[i].value \in Nat /\ t[i].bidder \in Bidders /\ t[i] # None
    BY <1>t, NoneAssumption DEF DecryptedBid
  <1>1. PICK g \in [0..n -> PassState] :
             /\ g[0] = [highest |-> None, second |-> None]
             /\ \A k \in 1..n : g[k] = enclavePass(g[k - 1], t[k])
             /\ o = IF g[n].highest = None THEN NoWinner
                     ELSE [winner |-> g[n].highest.bidder,
                           winningBid |-> g[n].highest.value,
                           clearingPrice |-> IF g[n].second = None THEN Reserve
                                             ELSE g[n].second.value]
    BY PassRounds, Zenon
  <1> HIDE DEF o, n
  <1> DEFINE Good == {k \in Nat : k <= n => Best(g[k], t, k)}
  <1>2. 0 \in Good
    <2>1. {i \in 1..0 : t[i].value >= Reserve} = {}
      OBVIOUS
    <2> QED BY <1>1, <2>1 DEF Best
  <1>3. ASSUME NEW k \in Nat, k \in Good PROVE k + 1 \in Good
    <2> SUFFICES ASSUME k + 1 <= n PROVE Best(g[k + 1], t, k + 1)
      OBVIOUS
    <2>1. k + 1 \in 1..n /\ k \in 0..n /\ (k + 1) - 1 = k
      BY <1>n
    <2>2. g[k + 1] = enclavePass(g[k], t[k + 1]) /\ g[k] \in PassState
      BY <2>1, <1>1
    <2>3. Best(g[k], t, k)
      BY <1>3, <2>1, <1>n
    <2>4. k + 1 \in 1..Len(t)
      BY <2>1 DEF n
    <2> HIDE DEF Good
    <2> QED BY <2>2, <2>3, <2>4, PassIsBest
  <1>4. Nat \subseteq Good
    <2> HIDE DEF Good
    <2> QED BY <1>2, <1>3, NumberInduction
  <1>5. Best(g[n], t, n)
    BY <1>4, <1>n
  <1> HIDE DEF Good
  <1> DEFINE P == {i \in 1..n : t[i].value >= Reserve}
  <1>6. CASE P = {} /\ g[n] = [highest |-> None, second |-> None]
    <2>1. g[n].highest = None
      BY <1>6
    <2>2. o = NoWinner
      BY <1>1, <2>1
    <2>3. ~ \E i \in 1..n : t[i].value >= Reserve
      BY <1>6
    <2> QED BY <2>2, <2>3 DEF o, n
  <1>7. ASSUME NEW i \in P,
               g[n].highest = t[i],
               \A j \in P : t[j].value <= t[i].value,
               \/ P = {i} /\ g[n].second = None
               \/ \E j \in P \ {i} : g[n].second = t[j] /\ \A m \in P \ {i} : t[m].value <= t[j].value
        PROVE  (\E k \in 1..n : t[k].value >= Reserve) /\ PriceOf(o, t)
    <2>1. i \in 1..n /\ t[i].value >= Reserve /\ t[i] # None /\ t[i].value \in Nat
      BY <1>T
    <2>2. o.winner = t[i].bidder /\ o.winningBid = t[i].value
          /\ o.clearingPrice = IF g[n].second = None THEN Reserve ELSE g[n].second.value
      BY <1>1, <1>7, <2>1
    <2>3. \A j \in 1..n : t[j].value <= t[i].value
      BY <1>7, <1>T, <2>1
    <2>4. CASE P = {i} /\ g[n].second = None
      <3>1. o.clearingPrice = Reserve
        BY <2>2, <2>4
      <3>2. \A j \in 1..n : j # i => t[j].value <= Reserve
        BY <1>T, <2>4
      <3>3. \E k \in 1..n : t[k].value >= Reserve
        BY <2>1
      <3>4. o.clearingPrice \in Nat /\ o.clearingPrice >= Reserve
            /\ \A j \in 1..n : j # i => t[j].value <= o.clearingPrice
        BY <3>1, <3>2
      <3>5. PriceOf(o, t)
        <4> HIDE DEF P
        <4> QED BY <2>1, <2>2, <2>3, <3>1, <3>4 DEF PriceOf, n
      <3> QED BY <3>3, <3>5
    <2>5. ASSUME NEW j \in P \ {i}, g[n].second = t[j], \A m \in P \ {i} : t[m].value <= t[j].value
          PROVE  PriceOf(o, t)
      <3>1. j \in 1..n /\ j # i /\ t[j].value \in Nat /\ t[j].value >= Reserve /\ t[j] # None
        BY <1>T
      <3>2. o.clearingPrice = t[j].value
        BY <2>2, <2>5, <3>1
      <3>3. \A m \in 1..n : m # i => t[m].value <= o.clearingPrice
        <4>1. \A m \in 1..n : m # i => m \notin P \/ t[m].value <= t[j].value
          BY <2>5
        <4> QED BY <1>T, <3>1, <3>2, <4>1
      <3> QED BY <2>1, <2>2, <2>3, <3>1, <3>2, <3>3 DEF PriceOf, n
    <2> QED BY <1>7, <2>1, <2>4, <2>5
  <1>8. \/ P = {} /\ g[n] = [highest |-> None, second |-> None]
        \/ \E i \in P :
             /\ g[n].highest = t[i]
             /\ \A j \in P : t[j].value <= t[i].value
             /\ \/ P = {i} /\ g[n].second = None
                \/ \E j \in P \ {i} : g[n].second = t[j] /\ \A m \in P \ {i} : t[m].value <= t[j].value
    BY <1>5 DEF Best
  <1>9. CASE \E i \in P :
             /\ g[n].highest = t[i]
             /\ \A j \in P : t[j].value <= t[i].value
             /\ \/ P = {i} /\ g[n].second = None
                \/ \E j \in P \ {i} : g[n].second = t[j] /\ \A m \in P \ {i} : t[m].value <= t[j].value
    <2>1. (\E k \in 1..n : t[k].value >= Reserve) /\ PriceOf(o, t)
      <3> HIDE DEF P
      <3> QED BY <1>7, <1>9, Zenon
    <2> QED BY <2>1 DEF o, n
  <1> QED
    <2> HIDE DEF P
    <2> QED BY <1>6, <1>8, <1>9, Zenon

\* A second-price outcome of a list of bids is one of those of its bids that
\* reach the reserve.
LEMMA PriceMeans ==
    ASSUME NEW t \in Seq(DecryptedBid), NEW o, PriceOf(o, t)
    PROVE  SecondPriceOf(o, [k \in {i \in DOMAIN t : t[i].value >= Reserve} |-> t[k]])
  <1> DEFINE N == 1..Len(t)
             valid == {i \in DOMAIN t : t[i].value >= Reserve}
             d == [k \in valid |-> t[k]]
  <1>1. PICK i \in N :
          /\ o.winner = t[i].bidder
          /\ o.winningBid = t[i].value
          /\ t[i].value >= Reserve
          /\ \A j \in N : t[j].value <= t[i].value
          /\ o.clearingPrice \in Nat /\ o.clearingPrice >= Reserve
          /\ \A j \in N : j # i => t[j].value <= o.clearingPrice
          /\ \/ o.clearingPrice = Reserve
             \/ \E j \in N : j # i /\ t[j].value = o.clearingPrice
    BY DEF PriceOf
  <1>2. DOMAIN t = N /\ \A j \in N : t[j].value \in Nat
    <2>1. DOMAIN t = N /\ \A j \in N : t[j] \in DecryptedBid
      OBVIOUS
    <2> QED BY <2>1 DEF DecryptedBid
  <1>3. i \in valid /\ valid \subseteq N /\ \A j \in N : t[j].value >= Reserve => j \in valid
    BY <1>1, <1>2
  <1>4. DOMAIN d = valid /\ \A j \in valid : d[j] = t[j]
    OBVIOUS
  <1> HIDE DEF N, valid, d
  <1> DEFINE S == {Reserve} \cup {d[j].value : j \in DOMAIN d \ {i}}
  <1>5. S \subseteq Int /\ \A x \in S : x <= o.clearingPrice
    BY <1>1, <1>2, <1>3, <1>4
  <1>6. o.clearingPrice \in S
    <2>1. ASSUME NEW j \in N, j # i, t[j].value = o.clearingPrice PROVE o.clearingPrice \in S
      BY <1>1, <1>3, <1>4, <2>1
    <2> QED BY <2>1, <1>1
  <1>7. Max(S) = o.clearingPrice
    <2> HIDE DEF S
    <2> QED BY <1>5, <1>6, MaxIs
  <1>8. SecondPriceOf(o, d)
    BY <1>1, <1>3, <1>4, <1>7 DEF SecondPriceOf
  <1> QED BY <1>8 DEF d, valid

\* The enclave decides a second-price outcome of what it decrypted.
LEMMA EnclaveStep ==
    ASSUME NEW n \in 0..MaxBids, EnclaveRunAuction(n)
    PROVE  EnclaveAgrees'
  <1>1. PICK t \in decryptions(n) : sealed' = [bids |-> t, outcome |-> runSecondPriceAuction(t)]
    BY DEF EnclaveRunAuction
  <1>2. t \in Seq(DecryptedBid) /\ DOMAIN t = 1..Len(t)
    <2>1. [bidder : Bidders, value : 0..(Intn - 1)] \subseteq DecryptedBid
      BY EnclaveAssumption DEF DecryptedBid
    <2> QED BY <2>1 DEF decryptions
  <1> DEFINE o == runSecondPriceAuction(t)
             valid == {k \in DOMAIN t : t[k].value >= Reserve}
  <1>3. sealed'.bids = t /\ sealed'.outcome = o
    BY <1>1
  <1>4. CASE valid = {}
    <2>1. o = NoWinner
      BY <1>2, <1>4, PassPrice
    <2> QED BY <1>3, <1>4, <2>1 DEF EnclaveAgrees
  <1>5. CASE valid # {}
    <2>1. PriceOf(o, t)
      BY <1>2, <1>5, PassPrice
    <2> HIDE DEF o
    <2>2. SecondPriceOf(o, [k \in valid |-> t[k]])
      BY <1>2, <2>1, PriceMeans
    <2> QED BY <1>3, <1>5, <2>2 DEF EnclaveAgrees
  <1> QED BY <1>4, <1>5

-----------------------------------------------------------------------------
(* The auction *)

\* A run past EndTime has seen all the bids there will be.
ClosedIsFinal == closed => ended /\ counted = Len(bids)

Inv == TypeOK /\ OutcomeIsSecondPrice /\ ClosedIsFinal

\* Bids that come later do not change what a run saw.
LEMMA SeenStays ==
    ASSUME NEW s \in Seq(SealedBid), NEW b \in SealedBid, NEW n \in 0..Len(s)
    PROVE  SubSeq(Append(s, b), 1, n) = SubSeq(s, 1, n) /\ n \in 0..Len(Append(s, b))
  OBVIOUS

\* A run sees all the bids there are.
LEMMA SeenAll ==
    ASSUME NEW s \in Seq(SealedBid)
    PROVE  SubSeq(s, 1, Len(s)) = s /\ Len(s) \in 0..Len(s)
  OBVIOUS

\* A new auction has no bids and no outcome.
LEMMA InitInv == Init => Inv
  <1> SUFFICES ASSUME Init PROVE Inv
    OBVIOUS
  <1>1. bids = <<>> /\ bids \in Seq(SealedBid) /\ Len(bids) = 0
    BY DEF Init
  <1>c. counted \in 0..Len(bids)
    BY <1>1 DEF Init
  <1>o. outcome \in AuctionOutcome \cup {None} /\ ended \in BOOLEAN /\ closed \in BOOLEAN
        /\ header \in AuctionHeader \cup {None}
    BY Zenon DEF Init
  <1>2. TypeOK
    BY <1>1, <1>c, <1>o, Zenon DEF TypeOK
  <1>3. OutcomeIsSecondPrice /\ ClosedIsFinal
    BY DEF Init, OutcomeIsSecondPrice, ClosedIsFinal
  <1> QED BY <1>2, <1>3 DEF Inv

\* RunAuction decides a second-price outcome of the bids there are.
LEMMA RunInv ==
    ASSUME Inv, RunAuction
    PROVE  /\ Inv'
           /\ outcome' \in AuctionOutcome
           /\ SecondPrice(outcome', SubSeq(bids, 1, counted'))
           /\ bids' = bids /\ counted' \in 0..Len(bids)
  <1>1. bids \in Seq(SealedBid) /\ bids' = bids /\ counted' = Len(bids) /\ closed' = ended
        /\ ended' = ended /\ header' = header
    BY DEF RunAuction, Inv, TypeOK
  <1>2. SecondPrice(outcome', bids) /\ outcome' \in AuctionOutcome
    <2> DEFINE o == outcome'
    <2>1. PICK sorted \in sortedBids(validBids(bids)) :
            o = [winner |-> sorted[1].bidder,
                 winningBid |-> sorted[1].value,
                 clearingPrice |-> IF Len(sorted) > 1 THEN sorted[2].value ELSE Reserve]
      BY DEF RunAuction
    <2>2. validBids(bids) # <<>>
      BY DEF RunAuction
    <2> HIDE DEF o
    <2>3. SecondPrice(o, bids) /\ o \in AuctionOutcome
      BY <1>1, <2>1, <2>2, RunIsSecondPrice
    <2> QED BY <2>3 DEF o
  <1>3. SecondPrice(outcome', SubSeq(bids, 1, counted')) /\ counted' \in 0..Len(bids)
    BY <1>1, <1>2, SeenAll
  <1>4. TypeOK'
    BY <1>1, <1>2, <1>3 DEF Inv, TypeOK
  <1>5. OutcomeIsSecondPrice'
    BY <1>1, <1>3 DEF OutcomeIsSecondPrice
  <1>6. ClosedIsFinal'
    BY <1>1 DEF ClosedIsFinal
  <1> QED BY <1>1, <1>2, <1>3, <1>4, <1>5, <1>6 DEF Inv

\* SubmitBid changes nothing of what a run saw.
LEMMA SubmitInv ==
    ASSUME Inv, NEW bid \in SealedBid, NEW rangeProof \in BOOLEAN, SubmitBid(bid, rangeProof)
    PROVE  Inv'
  <1>1. /\ bids \in Seq(SealedBid) /\ counted \in 0..Len(bids) /\ ~ ended
        /\ bids' = Append(bids, bid) /\ UNCHANGED <<outcome, ended, counted, closed, header>>
    BY DEF SubmitBid, Inv, TypeOK
  <1>2. /\ SubSeq(bids', 1, counted') = SubSeq(bids, 1, counted)
        /\ counted' \in 0..Len(bids')
        /\ bids' \in Seq(SealedBid)
    BY <1>1, SeenStays
  <1>3. TypeOK'
    BY <1>1, <1>2 DEF Inv, TypeOK
  <1>4. OutcomeIsSecondPrice'
    BY <1>1, <1>2 DEF Inv, OutcomeIsSecondPrice
  <1>5. ClosedIsFinal'
    BY <1>1 DEF Inv, ClosedIsFinal
  <1> QED BY <1>3, <1>4, <1>5 DEF Inv

\* Inv is inductive.
LEMMA NextInv == Inv /\ [Next]_vars => Inv'
  <1> SUFFICES ASSUME Inv, [Next]_vars PROVE Inv'
    OBVIOUS
  <1>1. ASSUME NEW bid \in SealedBid, NEW rangeProof \in BOOLEAN, SubmitBid(bid, rangeProof) PROVE Inv'
    BY <1>1, SubmitInv
  <1>2. CASE RunAuction
    BY <1>2, RunInv
  <1>3. CASE CreateAuctionHeader
    <2>1. header' \in AuctionHeader
      <3>1. bids \in Seq(SealedBid) /\ outcome \in AuctionOutcome
            /\ header' = [cmInputs |-> cmInputs(bids), cmWinner |-> cmWinner(outcome)]
        BY <1>3 DEF CreateAuctionHeader, Inv, TypeOK
      <3>2. cmInputs(bids) \in Seq(Numbers \cup {Short, Empty})
        <4>1. \A k \in DOMAIN bids : bids[k] \in SealedBid
          BY <3>1
        <4>2. \A k \in DOMAIN bids : bids[k].commitment \in Numbers \cup {Short, Empty}
          BY <4>1 DEF SealedBid
        <4>3. DOMAIN bids = 1..Len(bids) /\ Len(bids) \in Nat
          BY <3>1
        <4> QED BY <4>2, <4>3 DEF cmInputs
      <3>3. cmWinner(outcome) \in [id : Nat, winningBid : Nat, clearingPrice : Nat]
        BY <3>1 DEF cmWinner, AuctionOutcome
      <3> QED BY <3>1, <3>2, <3>3 DEF AuctionHeader
    <2> QED BY <1>3, <2>1 DEF CreateAuctionHeader, Inv, TypeOK, OutcomeIsSecondPrice, ClosedIsFinal
  <1>4. CASE End
    BY <1>4 DEF End, Inv, TypeOK, OutcomeIsSecondPrice, ClosedIsFinal
  <1>5. CASE UNCHANGED vars
    BY <1>5 DEF vars, Inv, TypeOK, OutcomeIsSecondPrice, ClosedIsFinal
  <1> QED BY <1>1, <1>2, <1>3, <1>4, <1>5 DEF Next

\* A header made after a late run commits to the bids of its outcome.
LEMMA LateStep ==
    ASSUME Inv, [Next]_vars, header' # header, closed
    PROVE  /\ header'.cmInputs = cmInputs(bids)
           /\ header'.cmWinner = cmWinner(outcome)
           /\ SecondPrice(outcome, bids)
  <1>1. CreateAuctionHeader
    BY DEF Next, SubmitBid, RunAuction, End, vars
  <1>2. header'.cmInputs = cmInputs(bids) /\ header'.cmWinner = cmWinner(outcome) /\ outcome # None
    BY <1>1 DEF CreateAuctionHeader
  <1>3. SecondPrice(outcome, SubSeq(bids, 1, counted)) /\ counted = Len(bids) /\ bids \in Seq(SealedBid)
    BY <1>2 DEF Inv, TypeOK, OutcomeIsSecondPrice, ClosedIsFinal
  <1> QED BY <1>2, <1>3, SeenAll

\* A run with a proof is a run of the auction.
LEMMA HaloIsAuction == HaloSpec => Spec
  <1>1. HaloInit => Init
    BY DEF HaloInit
  <1>2. [HaloNext]_haloVars => [Next]_vars
    BY DEF HaloNext, haloVars, RunAuctionWithHalo2, Next
  <1> QED BY <1>1, <1>2, PTL DEF HaloSpec, Spec

\* Inv holds throughout.
LEMMA AlwaysInv == Spec => []Inv
  BY InitInv, NextInv, PTL DEF Spec

\* auction.go and halo2_auction.go: every field of the auction keeps its type,
\* run with proofs or without.
THEOREM TypeCorrect == HaloSpec => []TypeOK
  <1>1. Inv => TypeOK
    BY DEF Inv
  <1> QED BY <1>1, AlwaysInv, HaloIsAuction, PTL

\* RunAuction: for any bids, malformed ones, ties and values that wrap
\* included, and however sort.Slice orders equal bids, the outcome is a
\* second-price outcome of the bids the run saw.
THEOREM SecondPriceAuction == HaloSpec => []OutcomeIsSecondPrice
  <1>1. Inv => OutcomeIsSecondPrice
    BY DEF Inv
  <1> QED BY <1>1, AlwaysInv, HaloIsAuction, PTL

\* Enclave.RunAuction: whatever list the enclave decrypts, its running maxima
\* give a second-price outcome of it, and the empty outcome exactly when no
\* bid reaches the reserve.
THEOREM EnclaveCorrect == EnclaveSpec => []EnclaveAgrees
  <1>1. EnclaveInit => EnclaveAgrees
    BY DEF EnclaveInit, EnclaveAgrees
  <1>2. EnclaveAgrees /\ [EnclaveNext]_sealed => EnclaveAgrees'
    <2>1. CASE EnclaveNext
      BY <2>1, EnclaveStep DEF EnclaveNext
    <2>2. CASE UNCHANGED sealed
      BY <2>2 DEF EnclaveAgrees
    <2> QED BY <2>1, <2>2
  <1> QED BY <1>1, <1>2, PTL DEF EnclaveSpec

\* CreateAuctionHeader: after a run past EndTime the header commits to the
\* bids the outcome was computed from.
THEOREM LateRunProven == HaloSpec => LateRunIsProven
  <1>1. Inv /\ [Next]_vars => [header' # header /\ closed =>
                                 /\ header'.cmInputs = cmInputs(bids)
                                 /\ header'.cmWinner = cmWinner(outcome)
                                 /\ SecondPrice(outcome, bids)]_vars
    BY LateStep
  <1> QED BY <1>1, AlwaysInv, HaloIsAuction, PTL DEF Spec, LateRunIsProven

-----------------------------------------------------------------------------
(* Runs with a proof *)

\* What holds of a run that was announced when s was submitted and ps stored.
Proven(run, s, ps) ==
    /\ run.counted \in 0..Len(s)
    /\ SecondPrice(run.outcome, SubSeq(s, 1, run.counted))
    /\ run.proof \in ps
    /\ Len(run.proof.commitments) >= NumBids + 2
    /\ run.proof.quotient \notin ShortDigests
    /\ run.proof.clearingPrice = run.outcome.clearingPrice

AllProven == \A run \in announced : Proven(run, bids, proofs)

\* More bids and more proofs leave it so.
LEMMA ProvenStays ==
    ASSUME NEW run, NEW s \in Seq(SealedBid), NEW b \in SealedBid, NEW ps, NEW qs,
           ps \subseteq qs, Proven(run, s, ps)
    PROVE  Proven(run, Append(s, b), ps) /\ Proven(run, s, qs)
  BY SeenStays DEF Proven

\* A run that answers has stored a proof that verifies for its price.
LEMMA RunWithProof ==
    ASSUME Inv, AllProven, RunAuctionWithHalo2
    PROVE  AllProven'
  <1> DEFINE o == outcome'
             n == counted'
             witness == prepareWitness(o)
             proof == AuctionProve(circuit, witness)
             run == [outcome |-> o, proof |-> proof, counted |-> n]
  <1>1. /\ bids' = bids /\ bids \in Seq(SealedBid)
        /\ SecondPrice(o, SubSeq(bids, 1, n)) /\ n \in 0..Len(bids)
    BY RunInv DEF RunAuctionWithHalo2, Inv, TypeOK
  <1>2. \/ UNCHANGED <<proofs, announced>>
        \/ /\ proofs' = proofs \cup {proof}
           /\ announced' = IF AuctionVerify(circuit, o.clearingPrice, proof)
                             THEN announced \cup {run} ELSE announced
    BY DEF RunAuctionWithHalo2
  <1>3. CASE UNCHANGED <<proofs, announced>>
    BY <1>1, <1>3 DEF AllProven
  <1>4. CASE /\ proofs' = proofs \cup {proof}
             /\ announced' = IF AuctionVerify(circuit, o.clearingPrice, proof)
                               THEN announced \cup {run} ELSE announced
    <2>1. ASSUME NEW r \in announced PROVE Proven(r, bids, proofs')
      BY <1>4, <2>1 DEF AllProven, Proven
    <2>2. proof.clearingPrice = o.clearingPrice
      BY DEF AuctionProve, prepareWitness
    <2>3. ASSUME AuctionVerify(circuit, o.clearingPrice, proof) PROVE Proven(run, bids, proofs')
      <3>1. Len(proof.commitments) >= NumBids + 2 /\ proof.quotient \notin ShortDigests
        BY <2>3 DEF AuctionVerify, circuit
      <3>2. run.outcome = o /\ run.proof = proof /\ run.counted = n
        OBVIOUS
      <3>3. proof \in proofs'
        BY <1>4
      <3> HIDE DEF run, proof, witness, o, n
      <3> QED BY <1>1, <2>2, <3>1, <3>2, <3>3 DEF Proven
    <2>4. \A r \in announced' : r \in announced \/ (r = run /\ AuctionVerify(circuit, o.clearingPrice, proof))
      BY <1>4
    <2> HIDE DEF run, proof, witness, o, n
    <2> QED BY <1>1, <2>1, <2>3, <2>4 DEF AllProven
  <1> QED BY <1>2, <1>3, <1>4

\* AllProven is inductive with the auction's invariant.
LEMMA AllProvenStep == Inv /\ AllProven /\ [HaloNext]_haloVars => AllProven'
  <1> SUFFICES ASSUME Inv, AllProven, [HaloNext]_haloVars PROVE AllProven'
    OBVIOUS
  <1>1. CASE RunAuctionWithHalo2
    BY <1>1, RunWithProof
  <1>2. ASSUME NEW bid \in SealedBid, NEW rangeProof \in BOOLEAN,
               SubmitBid(bid, rangeProof), UNCHANGED <<proofs, announced>>
        PROVE  AllProven'
    <2>1. bids' = Append(bids, bid) /\ bids \in Seq(SealedBid)
      BY <1>2 DEF SubmitBid, Inv, TypeOK
    <2>2. ASSUME NEW run \in announced PROVE Proven(run, bids', proofs)
      <3>1. Proven(run, bids, proofs)
        BY DEF AllProven
      <3> QED BY <2>1, <3>1, ProvenStays
    <2> QED BY <1>2, <2>2 DEF AllProven
  <1>3. CASE UNCHANGED <<bids, proofs, announced>>
    BY <1>3 DEF AllProven
  <1>4. \/ RunAuctionWithHalo2
        \/ \E bid \in SealedBid, rangeProof \in BOOLEAN :
              SubmitBid(bid, rangeProof) /\ UNCHANGED <<proofs, announced>>
        \/ UNCHANGED <<bids, proofs, announced>>
    BY DEF HaloNext, haloVars, vars, Next, RunAuction, CreateAuctionHeader, End
  <1> QED BY <1>1, <1>2, <1>3, <1>4

\* The proof of a run verifies for its price and for no other: prices are
\* below half a word, so reading one as a signed number changes nothing.
LEMMA ProvenMeans ==
    ASSUME AllProven PROVE AnnouncedIsProven
  <1> SUFFICES ASSUME NEW run \in announced, NEW price \in 0..(Modulus - 1)
               PROVE  /\ SecondPrice(run.outcome, SubSeq(bids, 1, run.counted))
                      /\ VerifyHalo2Proof(run.proof, price) <=> price = run.outcome.clearingPrice
    <2>1. \A run \in announced : SecondPrice(run.outcome, SubSeq(bids, 1, run.counted))
      BY DEF AllProven, Proven
    <2> QED BY <2>1 DEF AnnouncedIsProven
  <1>1. Proven(run, bids, proofs)
    BY DEF AllProven
  <1>2. Signed(price) = price
    <2>1. 2 * Modulus <= Word /\ Word \in Nat /\ Modulus \in Nat /\ price \in Nat /\ price < Modulus
      BY Halo2AuctionAssumption, CircuitsAssumption
    <2>2. price < Word \div 2
      BY <2>1
    <2> QED BY <2>2 DEF Signed
  <1> QED BY <1>1, <1>2 DEF Proven, VerifyHalo2Proof, AuctionVerify, circuit

\* RunAuctionWithHalo2: whatever bids, runs and failed runs come before or
\* after, an announced outcome is a second-price outcome of the bids its run
\* saw, and its stored proof verifies for its price only.
THEOREM AnnouncedProven == HaloSpec => []AnnouncedIsProven
  <1>1. HaloInit => AllProven
    BY DEF HaloInit, AllProven
  <1>2. HaloSpec => []AllProven
    BY <1>1, AllProvenStep, AlwaysInv, HaloIsAuction, PTL DEF HaloSpec
  <1>3. AllProven => AnnouncedIsProven
    BY ProvenMeans
  <1> QED BY <1>2, <1>3, PTL
=============================================================================
