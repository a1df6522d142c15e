---------------------------- MODULE ManagersProofs ---------------------------
(***************************************************************************)
(* Proofs about the managers of budgets, impressions and data:              *)
(* BudgetManager, the managers of FrequencyCapping, and DataAvailability,   *)
(* with HPKE.  For every integer, word, byte and field width and any sets   *)
(* of advertisers, devices, campaigns, caps, keys and data.                 *)
(*                                                                          *)
(* BudgetManager: TypeOK and BudgetConserved are inductive only together:   *)
(* conservation is what keeps spent from wrapping, and the types are what   *)
(* keeps remaining from going below zero.                                   *)
(*                                                                          *)
(* FrequencyCapping: TokensSound (an id is in one bucket, once), HaloSound  *)
(* (an account without an entry is at the start of its chain of proofs),    *)
(* CountersAgree (counters exist for what was checked, and both follow from *)
(* the caps that were asked for) and RootSound (the counters the root does  *)
(* not have are zero) are inductive, the last on top of CountersAgree.      *)
(*                                                                          *)
(* DataAvailability: StoreSound (what is referred to is committed to, or    *)
(* was written to) and AllSealed are inductive.                             *)
(***************************************************************************)
EXTENDS BudgetManager, FrequencyCapping, DataAvailability, InductionTheorems

-----------------------------------------------------------------------------
(* BudgetManager *)

Inv == TypeOK /\ BudgetConserved /\ ProofsChain

\* Reduction to the width of the integers stays within it, and changes
\* nothing that fits.
LEMMA Wrap ==
    ASSUME NEW x \in Nat
    PROVE  x % MaxUint \in Uint /\ (x < MaxUint => x % MaxUint = x)
  BY BudgetAssumption DEF Uint

\* Nothing is budgeted at first.
LEMMA InitInv == Init => Inv
  <1> SUFFICES ASSUME Init PROVE Inv
    OBVIOUS
  <1>1. 0 \in Uint
    BY BudgetAssumption DEF Uint
  <1> QED BY <1>1 DEF Init, Inv, TypeOK, BudgetConserved, ProofsChain

\* A new budget is conserved from the start.
LEMMA SetBudgetInv ==
    ASSUME Inv, NEW a \in Advertisers, NEW amount \in Uint, SetBudget(a, amount)
    PROVE  Inv'
  <1> DEFINE new == budgetOf(amount, 0, amount)
  <1>1. /\ budgets' = [budgets EXCEPT ![a] = new]
        /\ proof' = [proof EXCEPT ![a] = NoProof]
        /\ UNCHANGED <<pending, receipts, charged>>
    BY DEF SetBudget
  <1>2. 0 \in Uint /\ amount \in Int
    BY BudgetAssumption DEF Uint
  <1>3. /\ new \in Budget
        /\ new.total = new.spent + new.remaining
        /\ new.commitment = createBudgetCommitment(new.total, new.spent, new.remaining)
    BY <1>2 DEF budgetOf, createBudgetCommitment, Budget, Commitment
  <1> HIDE DEF new
  <1>4. TypeOK'
    BY <1>1, <1>3 DEF Inv, TypeOK
  <1>5. BudgetConserved'
    BY <1>1, <1>3 DEF Inv, TypeOK, BudgetConserved
  <1>6. ProofsChain'
    BY <1>1 DEF Inv, TypeOK, ProofsChain
  <1> QED BY <1>4, <1>5, <1>6 DEF Inv

\* A deduction keeps the sum of spent and remaining, so spent does not wrap.
LEMMA DeductBudgetInv ==
    ASSUME Inv, NEW a \in Advertisers, NEW amount \in Uint, DeductBudget(a, amount)
    PROVE  Inv'
  <1> DEFINE old == budgets[a]
             new == budgetOf(old.total, (old.spent + amount) % MaxUint, old.remaining - amount)
             pf == [prev |-> old.commitment, new |-> new.commitment, delta |-> amount]
  <1>1. /\ old # NoBudget /\ old.remaining >= amount
        /\ budgets' = [budgets EXCEPT ![a] = new]
        /\ proof' = [proof EXCEPT ![a] = pf]
        /\ pending' = [pending EXCEPT ![a] = (@ + amount) % MaxUint]
        /\ charged' = [charged EXCEPT ![a] = @ + amount]
        /\ UNCHANGED receipts
    BY DEF DeductBudget
  <1>2. /\ old \in Budget /\ old.total = old.spent + old.remaining
        /\ old.commitment = createBudgetCommitment(old.total, old.spent, old.remaining)
    BY <1>1 DEF Inv, TypeOK, BudgetConserved
  <1>3. /\ old.total \in Uint /\ old.spent \in Uint /\ old.remaining \in Uint
        /\ old.commitment \in Commitment
    BY <1>2 DEF Budget
  <1>4. /\ old.spent + amount \in Nat /\ old.spent + amount < MaxUint
        /\ old.remaining - amount \in Uint
        /\ (old.spent + amount) + (old.remaining - amount) = old.total
    BY <1>1, <1>2, <1>3, BudgetAssumption DEF Uint
  <1>5. (old.spent + amount) % MaxUint = old.spent + amount /\ old.spent + amount \in Uint
    BY <1>4, Wrap
  <1>6. /\ new \in Budget
        /\ new.total = old.total /\ new.remaining = old.remaining - amount
        /\ new.total = new.spent + new.remaining
        /\ new.commitment = createBudgetCommitment(new.total, new.spent, new.remaining)
    BY <1>3, <1>4, <1>5 DEF budgetOf, createBudgetCommitment, Budget, Commitment
  <1> HIDE DEF new
  <1>7. new.commitment \in Commitment
    BY <1>6 DEF Budget
  <1>8. pf \in BudgetProof
    BY <1>3, <1>7 DEF BudgetProof
  <1>9. /\ pf.new = new.commitment
        /\ pf.new.remaining = pf.prev.remaining - pf.delta
        /\ pf.new.total = pf.prev.total
    BY <1>2, <1>6 DEF createBudgetCommitment
  <1> HIDE DEF pf
  <1>10. TypeOK'
    <2>1. pending[a] \in Uint /\ charged[a] \in Nat
      BY DEF Inv, TypeOK
    <2>2. pending[a] + amount \in Nat /\ charged[a] + amount \in Nat
      BY <2>1, BudgetAssumption DEF Uint
    <2>3. (pending[a] + amount) % MaxUint \in Uint
      BY <2>2, BudgetAssumption DEF Uint
    <2>4. budgets' \in [Advertisers -> Budget \cup {NoBudget}]
      BY <1>1, <1>6 DEF Inv, TypeOK
    <2>5. proof' \in [Advertisers -> BudgetProof \cup {NoProof}]
      BY <1>1, <1>8 DEF Inv, TypeOK
    <2>6. pending' \in [Advertisers -> Uint] /\ charged' \in [Advertisers -> Nat]
      BY <1>1, <2>2, <2>3 DEF Inv, TypeOK
    <2> QED BY <1>1, <2>4, <2>5, <2>6 DEF Inv, TypeOK
  <1>11. BudgetConserved'
    BY <1>1, <1>6 DEF Inv, TypeOK, BudgetConserved
  <1>12. ProofsChain'
    BY <1>1, <1>6, <1>9, NoBudgetAssumption DEF Inv, TypeOK, ProofsChain
  <1> QED BY <1>10, <1>11, <1>12 DEF Inv

\* A settlement does not touch the budget.
LEMMA CreateSettlementInv ==
    ASSUME Inv, NEW a \in Advertisers, NEW p \in Publishers, CreateSettlement(a, p)
    PROVE  Inv'
  <1>1. /\ receipts' = Append(receipts, [advertiser |-> a, publisher |-> p, amount |-> pending[a]])
        /\ pending' = [pending EXCEPT ![a] = 0]
        /\ UNCHANGED <<budgets, proof, charged>>
    BY DEF CreateSettlement
  <1>2. TypeOK'
    <2>1. [advertiser |-> a, publisher |-> p, amount |-> pending[a]] \in Receipt
      BY DEF Inv, TypeOK, Receipt
    <2>2. receipts' \in Seq(Receipt)
      BY <1>1, <2>1 DEF Inv, TypeOK
    <2>3. 0 \in Uint
      BY BudgetAssumption DEF Uint
    <2> QED BY <1>1, <2>2, <2>3 DEF Inv, TypeOK
  <1> QED BY <1>1, <1>2 DEF Inv, BudgetConserved, ProofsChain

\* Inv is inductive.
LEMMA NextInv == Inv /\ [Next]_vars => Inv'
  <1> SUFFICES ASSUME Inv, [Next]_vars PROVE Inv'
    OBVIOUS
  <1>1. CASE UNCHANGED vars
    BY <1>1 DEF vars, Inv, TypeOK, BudgetConserved, ProofsChain
  <1>2. CASE Next
    BY <1>2, SetBudgetInv, DeductBudgetInv, CreateSettlementInv DEF Next
  <1> QED BY <1>1, <1>2

\* Every reachable state is of the declared types.
THEOREM TypeCorrect == Spec => []TypeOK
  <1>1. Inv => TypeOK
    BY DEF Inv
  <1> QED BY <1>1, InitInv, NextInv, PTL DEF Spec

\* Through any sequence of budgets, deductions and settlements, spent and
\* remaining make up the total and the commitment is to the current budget.
THEOREM Conservation == Spec => []BudgetConserved
  <1>1. Inv => BudgetConserved
    BY DEF Inv
  <1> QED BY <1>1, InitInv, NextInv, PTL DEF Spec

\* The last budget proof ends at the current commitment and subtracts the
\* amount deducted.
THEOREM ProofChain == Spec => []ProofsChain
  <1>1. Inv => ProofsChain
    BY DEF Inv
  <1> QED BY <1>1, InitInv, NextInv, PTL DEF Spec

-----------------------------------------------------------------------------
(* Deductions and receipts. *)

\* A quotient and its remainder.
LEMMA Division ==
    ASSUME NEW x \in Nat, NEW m \in Nat \ {0}
    PROVE  x \div m \in Nat /\ x % m \in 0..(m - 1) /\ x = m * (x \div m) + (x % m)
  OBVIOUS

\* What advertiser a owes by each receipt.
OwedIn(a, rs) == [k \in DOMAIN rs |-> IF rs[k].advertiser = a THEN rs[k].amount ELSE 0]

LEMMA OwedNat ==
    ASSUME NEW a, NEW rs \in Seq(Receipt)
    PROVE  /\ IsFiniteSet(DOMAIN rs) /\ \A k \in DOMAIN rs : OwedIn(a, rs)[k] \in Nat
           /\ SumFunctionOnSet(OwedIn(a, rs), DOMAIN rs) \in Nat
  <1>1. IsFiniteSet(DOMAIN rs)
    <2>1. DOMAIN rs = 1..Len(rs) /\ Len(rs) \in Nat
      OBVIOUS
    <2> QED BY <2>1, FS_Interval
  <1>2. ASSUME NEW k \in DOMAIN rs PROVE OwedIn(a, rs)[k] \in Nat
    <2>1. rs[k] \in Receipt
      OBVIOUS
    <2>2. rs[k].amount \in Uint
      BY <2>1 DEF Receipt
    <2>3. rs[k].amount \in Nat
      BY <2>2 DEF Uint
    <2> QED BY <2>3 DEF OwedIn
  <1> QED BY <1>1, <1>2, SumNat

\* A receipt more.
LEMMA OwedAppend ==
    ASSUME NEW a, NEW rs \in Seq(Receipt), NEW r \in Receipt
    PROVE  SumFunctionOnSet(OwedIn(a, Append(rs, r)), DOMAIN Append(rs, r))
             = SumFunctionOnSet(OwedIn(a, rs), DOMAIN rs) + (IF r.advertiser = a THEN r.amount ELSE 0)
  <1> DEFINE new == Append(rs, r)
             n == Len(rs) + 1
             f == OwedIn(a, rs)
             g == OwedIn(a, new)
  <1>1. /\ new \in Seq(Receipt) /\ DOMAIN new = DOMAIN rs \cup {n} /\ n \notin DOMAIN rs
        /\ \A k \in DOMAIN rs : new[k] = rs[k]
        /\ new[n] = r
    OBVIOUS
  <1> HIDE DEF new, n
  <1>2. IsFiniteSet(DOMAIN rs) /\ \A k \in DOMAIN rs \cup {n} : g[k] \in Int
    <2>1. IsFiniteSet(DOMAIN rs)
      BY OwedNat
    <2>2. \A k \in DOMAIN new : g[k] \in Nat
      BY <1>1, OwedNat
    <2>3. \A k \in DOMAIN rs \cup {n} : g[k] \in Nat
      BY <1>1, <2>2
    <2> HIDE DEF g
    <2> QED BY <2>1, <2>3
  <1>3. \A k \in DOMAIN rs : f[k] = g[k]
    BY <1>1 DEF OwedIn
  <1>4. g[n] = IF r.advertiser = a THEN r.amount ELSE 0
    BY <1>1 DEF OwedIn
  <1>5. SumFunctionOnSet(f, DOMAIN rs) \in Nat
    BY OwedNat
  <1>6. g[n] \in Int
    BY <1>2
  <1> HIDE DEF f, g
  <1>7. SumFunctionOnSet(g, DOMAIN rs \cup {n}) = g[n] + SumFunctionOnSet(g, DOMAIN rs)
    BY <1>1, <1>2, SumAdd
  <1>8. SumFunctionOnSet(f, DOMAIN rs) = SumFunctionOnSet(g, DOMAIN rs)
    BY <1>2, <1>3, SumEqual
  <1>9. SumFunctionOnSet(g, DOMAIN new)
          = SumFunctionOnSet(f, DOMAIN rs) + (IF r.advertiser = a THEN r.amount ELSE 0)
    BY <1>1, <1>4, <1>5, <1>6, <1>7, <1>8
  <1> QED BY <1>9 DEF f, g, new

LEMMA ReceiptedIsSum ==
    ASSUME NEW a
    PROVE  Receipted(a) = SumFunctionOnSet(OwedIn(a, receipts), DOMAIN receipts)
  BY DEF Receipted, OwedIn

\* What was charged is receipted, is pending, or went when pending wrapped.
Lossless ==
    \A a \in Advertisers : \E w \in Nat : charged[a] = Receipted(a) + pending[a] + MaxUint * w

LEMMA InitLossless == Init => Lossless
  <1> SUFFICES ASSUME Init, NEW a \in Advertisers
               PROVE  charged[a] = Receipted(a) + pending[a] + MaxUint * 0
    BY DEF Lossless
  <1>1. DOMAIN receipts = {}
    BY DEF Init
  <1>2. Receipted(a) = 0
    BY <1>1, ReceiptedIsSum, SumEmpty
  <1>3. MaxUint * 0 = 0
    BY BudgetAssumption
  <1> QED BY <1>2, <1>3 DEF Init

LEMMA NextLossless == Inv /\ Lossless /\ [Next]_vars => Lossless'
  <1> SUFFICES ASSUME TypeOK, Lossless, [Next]_vars, NEW c \in Advertisers
               PROVE  \E w \in Nat : charged'[c] = Receipted(c)' + pending'[c] + MaxUint * w
    BY DEF Inv, Lossless
  <1>m. MaxUint \in Nat \ {0}
    BY BudgetAssumption
  <1>1. PICK w \in Nat : charged[c] = Receipted(c) + pending[c] + MaxUint * w
    BY DEF Lossless
  <1>2. receipts \in Seq(Receipt) /\ Receipted(c) \in Nat
    BY ReceiptedIsSum, OwedNat DEF TypeOK
  <1>3. pending[c] \in Nat /\ charged[c] \in Nat /\ MaxUint * w \in Nat
    BY <1>m DEF TypeOK, Uint
  <1>4. CASE UNCHANGED <<pending, receipts, charged>>
    BY <1>1, <1>4 DEF Receipted
  <1>5. ASSUME NEW a \in Advertisers, NEW amount \in Uint, DeductBudget(a, amount)
        PROVE  \E v \in Nat : charged'[c] = Receipted(c)' + pending'[c] + MaxUint * v
    <2>1. /\ pending' = [pending EXCEPT ![a] = (pending[a] + amount) % MaxUint]
          /\ charged' = [charged EXCEPT ![a] = charged[a] + amount] /\ UNCHANGED receipts
      BY <1>5 DEF DeductBudget, TypeOK
    <2>2. Receipted(c)' = Receipted(c)
      BY <2>1 DEF Receipted
    <2>3. CASE c = a
      <3> DEFINE q == (pending[c] + amount) \div MaxUint
                 r == (pending[c] + amount) % MaxUint
      <3>1. amount \in Nat /\ pending[c] + amount \in Nat
        BY <1>3 DEF Uint
      <3>2. q \in Nat /\ r \in 0..(MaxUint - 1) /\ pending[c] + amount = MaxUint * q + r
        BY <1>m, <3>1, Division
      <3>3. pending'[c] = r /\ charged'[c] = charged[c] + amount
        BY <2>1, <2>3 DEF TypeOK
      <3> HIDE DEF q, r
      <3>4. MaxUint * (w + q) = MaxUint * w + MaxUint * q /\ MaxUint * q \in Nat /\ w + q \in Nat
        BY <1>m, <3>2
      <3>5. charged[c] + amount = Receipted(c) + r + (MaxUint * w + MaxUint * q)
        <4> DEFINE mw == MaxUint * w
                   mq == MaxUint * q
        <4>1. r \in Int /\ mw \in Int /\ mq \in Int
          BY <1>3, <3>2, <3>4
        <4>2. charged[c] = Receipted(c) + pending[c] + mw /\ pending[c] + amount = mq + r
          BY <1>1, <3>2
        <4> HIDE DEF mw, mq
        <4>3. /\ charged[c] \in Int /\ Receipted(c) \in Int /\ pending[c] \in Int /\ amount \in Int
          BY <1>2, <1>3, <3>1
        <4>4. charged[c] + amount = Receipted(c) + r + (mw + mq)
          BY <4>1, <4>2, <4>3
        <4> QED BY <4>4 DEF mw, mq
      <3>6. charged'[c] = Receipted(c)' + pending'[c] + MaxUint * (w + q)
        BY <2>2, <3>3, <3>4, <3>5
      <3> QED BY <3>4, <3>6
    <2>4. CASE c # a
      <3>1. pending'[c] = pending[c] /\ charged'[c] = charged[c]
        BY <2>1, <2>4 DEF TypeOK
      <3> QED BY <1>1, <2>2, <3>1
    <2> QED BY <2>3, <2>4
  <1>6. ASSUME NEW a \in Advertisers, NEW p \in Publishers, CreateSettlement(a, p)
        PROVE  \E v \in Nat : charged'[c] = Receipted(c)' + pending'[c] + MaxUint * v
    <2> DEFINE r == [advertiser |-> a, publisher |-> p, amount |-> pending[a]]
    <2>1. /\ receipts' = Append(receipts, r)
          /\ pending' = [pending EXCEPT ![a] = 0] /\ UNCHANGED charged
      BY <1>6 DEF CreateSettlement
    <2>2. r \in Receipt
      BY DEF TypeOK, Receipt
    <2>3. r.advertiser = a /\ r.amount = pending[a]
      OBVIOUS
    <2> HIDE DEF r
    <2>4. Receipted(c)' = SumFunctionOnSet(OwedIn(c, receipts'), DOMAIN receipts')
      BY DEF Receipted, OwedIn
    <2>5. Receipted(c)' = Receipted(c) + (IF a = c THEN pending[a] ELSE 0)
      BY <1>2, <2>1, <2>2, <2>3, <2>4, OwedAppend, ReceiptedIsSum
    <2>6. pending'[c] = IF a = c THEN 0 ELSE pending[c]
      BY <2>1 DEF TypeOK
    <2>7. charged'[c] = Receipted(c)' + pending'[c] + MaxUint * w
      <3>1. CASE a = c
        BY <1>1, <1>2, <1>3, <2>1, <2>5, <2>6, <3>1
      <3>2. CASE a # c
        BY <1>1, <1>2, <1>3, <2>1, <2>5, <2>6, <3>2
      <3> QED BY <3>1, <3>2
    <2> QED BY <2>7
  <1>7. \/ UNCHANGED <<pending, receipts, charged>>
        \/ \E a \in Advertisers, amount \in Uint : DeductBudget(a, amount)
        \/ \E a \in Advertisers, p \in Publishers : CreateSettlement(a, p)
    BY DEF Next, SetBudget, vars
  <1> QED BY <1>4, <1>5, <1>6, <1>7

\* Every amount deducted is pending or in exactly one receipt, up to the wrap
\* of the pending counter, through any sequence of budgets, deductions and
\* settlements.
THEOREM SettledOnce == Spec => []DeductionsSettledOnce
  <1>1. Inv /\ Lossless => DeductionsSettledOnce
    <2> SUFFICES ASSUME TypeOK, Lossless, NEW a \in Advertisers
                 PROVE  (Receipted(a) + pending[a]) % MaxUint = charged[a] % MaxUint
      BY DEF Inv, DeductionsSettledOnce
    <2>1. PICK w \in Nat : charged[a] = Receipted(a) + pending[a] + MaxUint * w
      BY DEF Lossless
    <2>2. Receipted(a) \in Nat /\ pending[a] \in Nat /\ MaxUint \in Nat \ {0}
      BY BudgetAssumption, ReceiptedIsSum, OwedNat DEF TypeOK, Uint
    <2> DEFINE x == Receipted(a) + pending[a]
    <2>3. x \in Nat /\ charged[a] = x + MaxUint * w
      BY <2>1, <2>2
    <2> HIDE DEF x
    <2>4. (x + MaxUint * w) % MaxUint = x % MaxUint
      <3>1. MaxUint \in Nat \ {0} /\ x \in Int /\ w \in Int
        BY <2>2, <2>3
      <3> QED BY <3>1, RemainderShift
    <2>5. x % MaxUint = charged[a] % MaxUint
      BY <2>3, <2>4
    <2> QED BY <2>5 DEF x
  <1> QED BY <1>1, InitInv, NextInv, InitLossless, NextLossless, PTL DEF Spec

-----------------------------------------------------------------------------
(* FrequencyCapping *)

\* A new map has no keys.
LEMMA NoEntriesIs == DOMAIN NoEntries = {}
  BY DEF NoEntries

-----------------------------------------------------------------------------
(* Tokens *)

PrivacyToken == [id : Nat, byte16 : Nat, redeemed : BOOLEAN]
TokenBucket == [epochID : Nat, tokens : Seq(PrivacyToken)]

\* The tokens of the bucket b have ids up to n, and r says which are redeemed.
Marked(b, n, r) ==
    \A k \in DOMAIN b.tokens :
      /\ b.tokens[k].id \in 1..n
      /\ b.tokens[k].redeemed <=> r[b.tokens[k].id] = 1

\* No id is in both of two buckets, nor twice in one.
Apart(b, d) ==
    \A k \in DOMAIN b.tokens, m \in DOMAIN d.tokens : b.tokens[k].id # d.tokens[m].id

AllApart(b) ==
    \A k, m \in DOMAIN b.tokens : b.tokens[k].id = b.tokens[m].id => k = m

\* A token is in one place, and is marked exactly when it was redeemed.
TokensSound ==
    /\ epoch \in Nat
    /\ issued \in 0..MaxTokens
    /\ redeemed \in [1..MaxTokens -> {0, 1}]
    /\ \A id \in 1..MaxTokens : id > issued => redeemed[id] = 0
    /\ DOMAIN tokens = Campaigns
    /\ \A c \in Campaigns : tokens[c] # None =>
         tokens[c] \in TokenBucket /\ Marked(tokens[c], issued, redeemed) /\ AllApart(tokens[c])
    /\ \A c, d \in Campaigns : c # d /\ tokens[c] # None /\ tokens[d] # None =>
         Apart(tokens[c], tokens[d])

\* Redeeming changes the mark of one token of the bucket, and no id.
LEMMA MarkIs ==
    ASSUME NEW b \in TokenBucket, NEW k \in DOMAIN b.tokens, NEW own \in BOOLEAN
    PROVE  LET m == markRedeemed(b, k, own) IN
           /\ m \in TokenBucket
           /\ DOMAIN m.tokens = DOMAIN b.tokens
           /\ \A j \in DOMAIN b.tokens :
                /\ m.tokens[j].id = b.tokens[j].id
                /\ m.tokens[j].redeemed <=> (j = k \/ b.tokens[j].redeemed)
  <1> DEFINE m == markRedeemed(b, k, own)
             byte == IF own THEN b.epochID % Byte ELSE b.tokens[k].byte16
             t == [b.tokens[k] EXCEPT !.redeemed = TRUE, !.byte16 = byte]
  <1>1. b.tokens \in Seq(PrivacyToken) /\ b.epochID \in Nat
    BY DEF TokenBucket
  <1>2. b.tokens[k] \in PrivacyToken
    BY <1>1
  <1>3. byte \in Nat
    <2>1. b.epochID % Byte \in Nat
      BY <1>1, FrequencyAssumption
    <2>2. b.tokens[k].byte16 \in Nat
      BY <1>2 DEF PrivacyToken
    <2> QED BY <2>1, <2>2
  <1>4. m = [b EXCEPT !.tokens = [b.tokens EXCEPT ![k] = t]]
    BY <1>1, <1>2 DEF markRedeemed, TokenBucket, PrivacyToken
  <1> HIDE DEF byte
  <1>5. t \in PrivacyToken /\ t.id = b.tokens[k].id /\ t.redeemed
    BY <1>2, <1>3 DEF PrivacyToken
  <1> HIDE DEF t
  <1>6. m.tokens = [b.tokens EXCEPT ![k] = t] /\ m.epochID = b.epochID
    BY <1>4 DEF TokenBucket
  <1>7. m.tokens \in Seq(PrivacyToken) /\ DOMAIN m.tokens = DOMAIN b.tokens
    BY <1>1, <1>5, <1>6
  <1>8. m \in TokenBucket
    <2>1. [b EXCEPT !.tokens = [b.tokens EXCEPT ![k] = t]] \in TokenBucket
      BY <1>6, <1>7 DEF TokenBucket
    <2> QED BY <1>4, <2>1
  <1> HIDE DEF m
  <1>9. ASSUME NEW j \in DOMAIN b.tokens
        PROVE  /\ m.tokens[j].id = b.tokens[j].id
               /\ m.tokens[j].redeemed <=> (j = k \/ b.tokens[j].redeemed)
    <2>1. CASE j = k
      BY <1>5, <1>6, <2>1
    <2>2. CASE j # k
      BY <1>6, <2>2
    <2> QED BY <2>1, <2>2
  <1> QED BY <1>7, <1>8, <1>9 DEF m

\* IssueTokens: ids that were never issued.
LEMMA IssueSound ==
    ASSUME TokensSound, NEW device \in Devices, NEW c \in Campaigns, NEW count \in BucketSizes,
           IssueTokens(device, c, count)
    PROVE  TokensSound'
  <1>n. count \in Nat /\ MaxTokens \in Nat /\ issued \in Nat /\ epoch \in Nat
    BY FrequencyAssumption DEF TokensSound
  <1>1. /\ issued' = issued + count /\ issued + count <= MaxTokens
        /\ UNCHANGED <<counters, epochRoot, epoch, freqProof, redeemed>>
    BY DEF IssueTokens
  <1>2. PICK byte16 \in [1..count -> 0..(Byte - 1)] :
         tokens' = [tokens EXCEPT ![c] =
           [epochID |-> epoch,
            tokens |-> [k \in 1..count |->
                          [id |-> issued + k, byte16 |-> byte16[k], redeemed |-> FALSE]]]]
    BY DEF IssueTokens
  <1> DEFINE b == [epochID |-> epoch,
                   tokens |-> [k \in 1..count |->
                                 [id |-> issued + k, byte16 |-> byte16[k], redeemed |-> FALSE]]]
  <1>3. b.epochID = epoch /\ DOMAIN b.tokens = 1..count
    OBVIOUS
  <1>4. \A k \in 1..count : b.tokens[k] \in PrivacyToken /\ b.tokens[k].id = issued + k /\ ~ b.tokens[k].redeemed
    BY <1>n, FrequencyAssumption DEF PrivacyToken
  <1>5. b \in TokenBucket
    <2>1. b.tokens \in Seq(PrivacyToken)
      BY <1>n, <1>3, <1>4
    <2> QED BY <1>n, <2>1 DEF TokenBucket
  <1>6. tokens' = [tokens EXCEPT ![c] = b]
    BY <1>2
  <1> HIDE DEF b
  <1>7. issued' \in 0..MaxTokens /\ issued <= issued'
    BY <1>1, <1>n
  <1>8. DOMAIN tokens' = Campaigns /\ tokens'[c] = b /\ \A d \in Campaigns \ {c} : tokens'[d] = tokens[d]
    BY <1>6 DEF TokensSound
  <1>9. Marked(b, issued', redeemed) /\ AllApart(b)
    <2>1. ASSUME NEW k \in 1..count PROVE issued + k \in 1..issued' /\ redeemed[issued + k] = 0
      BY <1>1, <1>n DEF TokensSound
    <2>2. \A k, m \in 1..count : issued + k = issued + m => k = m
      BY <1>n
    <2> QED BY <1>3, <1>4, <2>1, <2>2 DEF Marked, AllApart
  <1>10. ASSUME NEW d \in Campaigns \ {c}, tokens[d] # None
         PROVE  /\ tokens[d] \in TokenBucket /\ Marked(tokens[d], issued', redeemed) /\ AllApart(tokens[d])
                /\ Apart(tokens[d], b) /\ Apart(b, tokens[d])
    <2>1. tokens[d] \in TokenBucket /\ Marked(tokens[d], issued, redeemed) /\ AllApart(tokens[d])
      BY <1>10 DEF TokensSound
    <2>2. ASSUME NEW m \in DOMAIN tokens[d].tokens, NEW k \in 1..count
          PROVE  tokens[d].tokens[m].id \in 1..issued' /\ tokens[d].tokens[m].id # issued + k
      <3>1. tokens[d].tokens[m].id \in 1..issued
        BY <2>1 DEF Marked
      <3> QED BY <3>1, <1>n, <1>1
    <2>3. Marked(tokens[d], issued', redeemed)
      <3>1. ASSUME NEW m \in DOMAIN tokens[d].tokens PROVE tokens[d].tokens[m].id \in 1..issued'
        <4>1. tokens[d].tokens[m].id \in 1..issued
          BY <2>1 DEF Marked
        <4> QED BY <4>1, <1>7, <1>n
      <3> QED BY <2>1, <3>1 DEF Marked
    <2> QED BY <2>1, <2>2, <2>3, <1>3, <1>4 DEF Apart
  <1>11. \A id \in 1..MaxTokens : id > issued' => redeemed'[id] = 0
    BY <1>1, <1>7, <1>n DEF TokensSound
  <1>12. \A d \in Campaigns : tokens'[d] # None =>
           tokens'[d] \in TokenBucket /\ Marked(tokens'[d], issued', redeemed') /\ AllApart(tokens'[d])
    BY <1>1, <1>5, <1>8, <1>9, <1>10
  <1>13. \A d, e \in Campaigns : d # e /\ tokens'[d] # None /\ tokens'[e] # None =>
           Apart(tokens'[d], tokens'[e])
    BY <1>8, <1>10 DEF TokensSound
  <1> QED BY <1>1, <1>7, <1>8, <1>11, <1>12, <1>13 DEF TokensSound

\* RedeemPrivacyToken: the token's mark and its count change together.
LEMMA RedeemSound ==
    ASSUME TokensSound, NEW c \in Campaigns, NEW id \in 1..issued, NEW byte16, NEW own \in BOOLEAN,
           RedeemPrivacyToken(c, id, byte16, own)
    PROVE  TokensSound'
  <1> DEFINE b == tokens[c]
  <1>1. b # None /\ UNCHANGED <<counters, epochRoot, epoch, issued>>
        /\ redeemed' = [redeemed EXCEPT ![id] = @ + 1]
    BY DEF RedeemPrivacyToken
  <1>2. PICK k \in DOMAIN b.tokens :
          /\ b.tokens[k].id = id /\ ~ b.tokens[k].redeemed
          /\ tokens' = [tokens EXCEPT ![c] = markRedeemed(b, k, own)]
    BY DEF RedeemPrivacyToken
  <1>3. b \in TokenBucket /\ Marked(b, issued, redeemed) /\ AllApart(b)
    BY <1>1 DEF TokensSound
  <1>4. DOMAIN tokens = Campaigns /\ redeemed \in [1..MaxTokens -> {0, 1}] /\ issued \in 0..MaxTokens
    BY DEF TokensSound
  <1> HIDE DEF b
  <1> DEFINE m == markRedeemed(b, k, own)
  <1>5. /\ m \in TokenBucket
        /\ DOMAIN m.tokens = DOMAIN b.tokens
        /\ \A j \in DOMAIN b.tokens :
             /\ m.tokens[j].id = b.tokens[j].id
             /\ m.tokens[j].redeemed <=> (j = k \/ b.tokens[j].redeemed)
    BY <1>3, MarkIs
  <1>6. DOMAIN tokens' = Campaigns /\ tokens'[c] = m /\ \A d \in Campaigns \ {c} : tokens'[d] = tokens[d]
    BY <1>2, <1>4
  <1> HIDE DEF m
  <1>7. redeemed[id] = 0
    <2>1. redeemed[id] # 1
      BY <1>2, <1>3 DEF Marked
    <2>2. id \in 1..MaxTokens
      BY <1>4, FrequencyAssumption
    <2> QED BY <2>1, <2>2, <1>4
  <1>8. redeemed' \in [1..MaxTokens -> {0, 1}] /\ redeemed'[id] = 1
        /\ \A i \in 1..MaxTokens : i # id => redeemed'[i] = redeemed[i]
    <2>1. id \in 1..MaxTokens
      BY <1>4, FrequencyAssumption
    <2> QED BY <1>1, <1>4, <1>7, <2>1
  <1>9. 1..issued \subseteq 1..MaxTokens
    BY <1>4, FrequencyAssumption
  <1>10. Marked(m, issued, redeemed') /\ AllApart(m)
    <2>1. ASSUME NEW j \in DOMAIN b.tokens
          PROVE  m.tokens[j].id \in 1..issued /\ (m.tokens[j].redeemed <=> redeemed'[m.tokens[j].id] = 1)
      <3>1. b.tokens[j].id \in 1..issued /\ (b.tokens[j].redeemed <=> redeemed[b.tokens[j].id] = 1)
        BY <1>3 DEF Marked
      <3>2. CASE j = k
        BY <1>2, <1>5, <1>8, <3>1, <3>2
      <3>3. CASE j # k
        <4>1. b.tokens[j].id # id
          BY <1>2, <1>3, <3>3 DEF AllApart
        <4>2. redeemed'[b.tokens[j].id] = redeemed[b.tokens[j].id]
          BY <1>8, <1>9, <3>1, <4>1
        <4> QED BY <1>5, <3>1, <3>3, <4>2
      <3> QED BY <3>2, <3>3
    <2>2. Marked(m, issued, redeemed')
      BY <1>5, <2>1 DEF Marked
    <2>3. AllApart(m)
      BY <1>3, <1>5 DEF AllApart
    <2> QED BY <2>2, <2>3
  <1>11. ASSUME NEW d \in Campaigns \ {c}, tokens[d] # None
         PROVE  /\ tokens[d] \in TokenBucket /\ Marked(tokens[d], issued, redeemed') /\ AllApart(tokens[d])
                /\ Apart(tokens[d], m) /\ Apart(m, tokens[d])
    <2>1. tokens[d] \in TokenBucket /\ Marked(tokens[d], issued, redeemed) /\ AllApart(tokens[d])
      BY <1>11 DEF TokensSound
    <2>2. Apart(tokens[d], b) /\ Apart(b, tokens[d])
      BY <1>1, <1>11 DEF TokensSound, b
    <2>3. ASSUME NEW j \in DOMAIN tokens[d].tokens
          PROVE  redeemed'[tokens[d].tokens[j].id] = redeemed[tokens[d].tokens[j].id]
      <3>1. tokens[d].tokens[j].id \in 1..issued
        BY <2>1 DEF Marked
      <3>2. tokens[d].tokens[j].id # id
        BY <1>2, <2>2 DEF Apart
      <3> QED BY <1>8, <1>9, <3>1, <3>2
    <2>4. Marked(tokens[d], issued, redeemed')
      BY <2>1, <2>3 DEF Marked
    <2>5. Apart(tokens[d], m) /\ Apart(m, tokens[d])
      BY <1>5, <2>2 DEF Apart
    <2> QED BY <2>1, <2>4, <2>5
  <1>12. \A i \in 1..MaxTokens : i > issued => redeemed'[i] = 0
    <2>1. \A i \in 1..MaxTokens : i > issued => i # id
      BY <1>4, FrequencyAssumption
    <2> QED BY <1>8, <2>1 DEF TokensSound
  <1>13. \A d \in Campaigns : tokens'[d] # None =>
           tokens'[d] \in TokenBucket /\ Marked(tokens'[d], issued, redeemed') /\ AllApart(tokens'[d])
    BY <1>5, <1>6, <1>10, <1>11
  <1>14. \A d, e \in Campaigns : d # e /\ tokens'[d] # None /\ tokens'[e] # None =>
           Apart(tokens'[d], tokens'[e])
    BY <1>6, <1>11 DEF TokensSound
  <1> QED BY <1>1, <1>4, <1>6, <1>8, <1>12, <1>13, <1>14 DEF TokensSound

\* TokensSound is inductive.
LEMMA TokensStep == TokensSound /\ [CappingNext]_cappingVars => TokensSound'
  <1> SUFFICES ASSUME TokensSound, [CappingNext]_cappingVars PROVE TokensSound'
    OBVIOUS
  <1>1. ASSUME NEW d \in Devices, NEW c \in Campaigns, NEW n \in BucketSizes, IssueTokens(d, c, n)
        PROVE  TokensSound'
    BY <1>1, IssueSound
  <1>2. ASSUME NEW c \in Campaigns, NEW id \in 1..issued, NEW b \in 0..(Byte - 1), NEW own \in BOOLEAN,
               RedeemPrivacyToken(c, id, b, own)
        PROVE  TokensSound'
    BY <1>2, RedeemSound
  <1>3. CASE NextEpoch
    BY <1>3 DEF NextEpoch, tokenVars, TokensSound
  <1>4. CASE UNCHANGED <<tokenVars, epoch>>
    BY <1>4 DEF tokenVars, TokensSound
  <1>5. \/ \E d \in Devices, c \in Campaigns, n \in BucketSizes : IssueTokens(d, c, n)
        \/ \E c \in Campaigns, id \in 1..issued, b \in 0..(Byte - 1), own \in BOOLEAN :
             RedeemPrivacyToken(c, id, b, own)
        \/ NextEpoch
        \/ UNCHANGED <<tokenVars, epoch>>
    BY ZenonT(30) DEF CappingNext, Check, CheckAndIncrementCounter, Deduct, Token, TokenNext, cappingVars, freqVars, tokenVars
  <1> QED BY <1>1, <1>2, <1>3, <1>4, <1>5

\* IssueTokens and RedeemPrivacyToken: for any number of tokens, buckets and
\* replacements, no token is redeemed twice, and a stored token is marked
\* exactly when it was redeemed.
THEOREM RedeemedOnce == CappingSpec => []TokensRedeemedOnce
  <1>1. CappingInit => TokensSound
    <2> SUFFICES ASSUME CappingInit PROVE TokensSound
      OBVIOUS
    <2>1. \A c \in Campaigns : tokens[c] = None
      BY DEF CappingInit, FreqInit
    <2>2. DOMAIN tokens = Campaigns /\ epoch = 0 /\ issued = 0 /\ redeemed = [t \in 1..MaxTokens |-> 0]
      BY DEF CappingInit, FreqInit
    <2> QED BY <2>1, <2>2, FrequencyAssumption DEF TokensSound
  <1>2. TokensSound => TokensRedeemedOnce
    <2> SUFFICES ASSUME TokensSound PROVE TokensRedeemedOnce
      OBVIOUS
    <2>1. \A id \in 1..MaxTokens : redeemed[id] <= 1
      BY DEF TokensSound
    <2>2. ASSUME NEW c \in Campaigns, tokens[c] # None, NEW t \in Range(tokens[c].tokens)
          PROVE  t.redeemed <=> redeemed[t.id] = 1
      BY <2>2 DEF TokensSound, Marked, Range
    <2> QED BY <2>1, <2>2 DEF TokensRedeemedOnce
  <1> QED BY <1>1, <1>2, TokensStep, PTL DEF CappingSpec

-----------------------------------------------------------------------------
(* Budgets and their proofs *)

Digest == [1..3 -> Nat]
DeductionProof ==
    [delta : 0..(Word - 1), newBudget : Nat, oldCommit : Digest, newCommit : Digest,
     proof : [commitments : Seq(Digest), delta : Int, newBudget : Nat]]

\* What the proofs ps deducted one by one.
Deltas(ps) == [k \in DOMAIN ps |-> Signed(ps[k].delta)]

\* Proof k of ps verifies and starts where the one before it ended.
Link(ps, k) ==
    /\ VerifyBudgetProof(ps[k])
    /\ ps[k].oldCommit = IF k = 1 THEN Hash(<<DefaultBudget>>) ELSE ps[k-1].newCommit
    /\ ps[k].newCommit = Hash(<<ps[k].newBudget>>) \/ ps[k].proof.newBudget >= Word

\* The proofs ps lead from the default budget to b.
Chain(b, ps) ==
    /\ b \in Nat /\ ps \in Seq(DeductionProof)
    /\ b = DefaultBudget - SumFunctionOnSet(Deltas(ps), DOMAIN ps)
    /\ Hash(<<b>>) = IF ps = <<>> THEN Hash(<<DefaultBudget>>) ELSE Last(ps).newCommit
    /\ \A k \in DOMAIN ps : Link(ps, k)

\* The budget of every advertiser, the default one where there is no entry,
\* is at the end of its chain of proofs.
BudgetsSound ==
    /\ DOMAIN haloBudgets \subseteq HaloAdvertisers /\ DOMAIN budgetProofs = HaloAdvertisers
    /\ \A a \in HaloAdvertisers : Chain(Get(haloBudgets, a, DefaultBudget), budgetProofs[a])

LEMMA SignedInt ==
    ASSUME NEW x \in 0..(Word - 1)
    PROVE  Signed(x) \in Int
  BY CircuitsAssumption DEF Signed

LEMMA DigestOf ==
    ASSUME NEW n \in Int
    PROVE  Hash(<<n>>) \in Digest
  <1>1. n % FieldModulus \in Nat
    BY CircuitsAssumption
  <1>2. Len(<<n>>) = 1 /\ <<n>>[1] = n
    OBVIOUS
  <1>3. ASSUME NEW i \in 1..3 PROVE (IF i <= Len(<<n>>) THEN <<n>>[i] % FieldModulus ELSE 0) \in Nat
    BY <1>1, <1>2
  <1> QED BY <1>3 DEF Hash, Digest

\* No proofs lead to the default budget.
LEMMA ChainStarts == Chain(DefaultBudget, <<>>)
  <1>1. SumFunctionOnSet(Deltas(<<>>), DOMAIN <<>>) = 0
    <2>1. DOMAIN <<>> = {}
      OBVIOUS
    <2> QED BY <2>1, SumEmpty
  <1>2. <<>> \in Seq(DeductionProof) /\ DOMAIN <<>> = {}
    OBVIOUS
  <1>3. DefaultBudget \in Nat
    BY Halo2ManagersAssumption
  <1> QED BY <1>1, <1>2, <1>3 DEF Chain

\* A deduction adds its proof at the end of the chain.
LEMMA ChainGrows ==
    ASSUME NEW b, NEW ps, Chain(b, ps), NEW amount \in Amounts, b - Signed(amount) >= 0
    PROVE  LET new == b - Signed(amount)
           IN Chain(new, Append(ps, budgetProof(amount, new, BudgetProve(b, Signed(amount), new))))
  <1> DEFINE delta == Signed(amount)
             new == b - delta
             p == budgetProof(amount, new, BudgetProve(b, delta, new))
             qs == Append(ps, p)
             n == Len(ps) + 1
  <1>1. b \in Nat /\ ps \in Seq(DeductionProof) /\ \A k \in DOMAIN ps : Link(ps, k)
    BY DEF Chain
  <1>2. amount \in 0..(Word - 1) /\ delta \in Int
    BY SignedInt, Halo2ManagersAssumption
  <1> HIDE DEF delta
  <1>3. new \in Nat
    BY <1>1, <1>2 DEF delta
  <1> HIDE DEF new
  <1>4. /\ p.delta = amount /\ p.newBudget = new % Word
        /\ p.oldCommit = Hash(<<b>>) /\ p.newCommit = Hash(<<new>>)
        /\ p.proof.commitments = <<Hash(<<b>>), Hash(<<delta>>), Hash(<<new>>)>>
        /\ p.proof.delta = delta /\ p.proof.newBudget = new
    BY DEF budgetProof, BudgetProve
  <1>5. p \in DeductionProof
    <2>1. Hash(<<b>>) \in Digest /\ Hash(<<delta>>) \in Digest /\ Hash(<<new>>) \in Digest
      BY <1>1, <1>2, <1>3, DigestOf
    <2>2. new % Word \in Nat
      BY <1>3, CircuitsAssumption
    <2>3. <<Hash(<<b>>), Hash(<<delta>>), Hash(<<new>>)>> \in Seq(Digest)
      BY <2>1
    <2> QED BY <1>2, <1>3, <2>1, <2>2, <2>3 DEF budgetProof, BudgetProve, DeductionProof
  <1>6. /\ new < Word => new % Word = new
        /\ p.newCommit = Hash(<<p.newBudget>>) \/ p.proof.newBudget >= Word
    <2>1. new < Word => new % Word = new
      BY <1>3, CircuitsAssumption
    <2>2. CASE new < Word
      BY <1>4, <2>1, <2>2
    <2>3. CASE ~(new < Word)
      BY <1>3, <1>4, <2>3, CircuitsAssumption
    <2> QED BY <2>1, <2>2, <2>3
  <1>7. VerifyBudgetProof(p)
    <2>1. Len(p.proof.commitments) = 3
      BY <1>4
    <2> QED BY <1>4, <2>1 DEF VerifyBudgetProof, BudgetVerify, delta
  <1> HIDE DEF p
  <1>8. /\ qs \in Seq(DeductionProof) /\ DOMAIN qs = DOMAIN ps \cup {n} /\ n \notin DOMAIN ps
        /\ Len(qs) = n /\ n \in Nat \ {0} /\ qs # <<>> /\ DOMAIN ps = 1..(n - 1)
        /\ qs[n] = p /\ \A k \in DOMAIN ps : qs[k] = ps[k]
    BY <1>1, <1>5
  <1>9. Last(qs) = p
    BY <1>8 DEF Last
  <1>10. Hash(<<b>>) = IF n = 1 THEN Hash(<<DefaultBudget>>) ELSE ps[n-1].newCommit
    <2>1. Hash(<<b>>) = IF ps = <<>> THEN Hash(<<DefaultBudget>>) ELSE Last(ps).newCommit
      BY DEF Chain
    <2>2. (ps = <<>> <=> n = 1) /\ Last(ps) = ps[n-1]
      BY <1>1 DEF Last
    <2> QED BY <2>1, <2>2
  <1>d. DOMAIN ps = 1..Len(ps) /\ Len(ps) \in Nat
    BY <1>1
  <1> HIDE DEF qs, n
  <1>11. ASSUME NEW k \in DOMAIN qs PROVE Link(qs, k)
    <2>1. CASE k = n
      <3>1. n # 1 => n - 1 \in DOMAIN ps
        BY <1>8
      <3>2. n # 1 => qs[n-1] = ps[n-1]
        BY <1>8, <3>1
      <3> QED BY <1>4, <1>6, <1>7, <1>8, <1>10, <2>1, <3>2 DEF Link
    <2>2. CASE k \in DOMAIN ps
      <3>1. k # 1 => k - 1 \in DOMAIN ps
        BY <1>8, <2>2
      <3>2. qs[k] = ps[k] /\ (k # 1 => qs[k-1] = ps[k-1])
        BY <1>8, <2>2, <3>1
      <3>3. Link(ps, k)
        BY <1>1, <2>2
      <3> QED BY <3>2, <3>3 DEF Link
    <2> QED BY <1>8, <2>1, <2>2
  <1>12. new = DefaultBudget - SumFunctionOnSet(Deltas(qs), DOMAIN qs)
    <2> DEFINE f == Deltas(ps)
               g == Deltas(qs)
    <2>1. IsFiniteSet(DOMAIN ps)
      BY <1>d, FS_Interval
    <2>2. ASSUME NEW k \in DOMAIN qs PROVE g[k] \in Int
      <3>1. qs[k] \in DeductionProof
        BY <1>8
      <3>2. qs[k].delta \in 0..(Word - 1)
        BY <3>1 DEF DeductionProof
      <3>3. Signed(qs[k].delta) \in Int
        BY <3>2, SignedInt
      <3> QED BY <3>3 DEF Deltas
    <2>3. \A k \in DOMAIN ps : f[k] = g[k]
      BY <1>8 DEF Deltas
    <2>4. g[n] = delta
      BY <1>4, <1>8 DEF Deltas, delta
    <2>5. b = DefaultBudget - SumFunctionOnSet(f, DOMAIN ps)
      BY DEF Chain
    <2> HIDE DEF f, g
    <2>6. \A k \in DOMAIN ps \cup {n} : g[k] \in Int
      BY <1>8, <2>2
    <2>7. SumFunctionOnSet(g, DOMAIN ps \cup {n}) = g[n] + SumFunctionOnSet(g, DOMAIN ps)
      BY <1>8, <2>1, <2>6, SumAdd
    <2>8. SumFunctionOnSet(f, DOMAIN ps) = SumFunctionOnSet(g, DOMAIN ps)
      BY <2>1, <2>3, SumEqual
    <2>9. SumFunctionOnSet(g, DOMAIN ps) \in Int
      BY <2>1, <2>6, SumInt
    <2>10. new = DefaultBudget - SumFunctionOnSet(g, DOMAIN qs)
      BY <1>2, <1>8, <2>4, <2>5, <2>7, <2>8, <2>9, Halo2ManagersAssumption DEF new
    <2> QED BY <2>10 DEF g
  <1>13. Chain(new, qs)
    BY <1>3, <1>4, <1>8, <1>9, <1>11, <1>12 DEF Chain
  <1> QED BY <1>13 DEF new, delta, p, qs

\* DeductBudgetWithProof moves one budget to the end of a longer chain, or
\* enters the default budget.
LEMMA DeductSound ==
    ASSUME BudgetsSound, NEW a \in HaloAdvertisers, NEW amount \in Amounts,
           DeductBudgetWithProof(a, amount)
    PROVE  BudgetsSound'
  <1> DEFINE current == Get(haloBudgets, a, DefaultBudget)
             delta == Signed(amount)
             new == current - delta
             p == budgetProof(amount, new, BudgetProve(current, delta, new))
  <1>1. Chain(current, budgetProofs[a])
    BY DEF BudgetsSound
  <1>2. DOMAIN budgetProofs = HaloAdvertisers /\ DOMAIN haloBudgets \subseteq HaloAdvertisers
    BY DEF BudgetsSound
  <1>3. ASSUME NEW v, haloBudgets' = Put(haloBudgets, a, v)
        PROVE  /\ DOMAIN haloBudgets' \subseteq HaloAdvertisers
               /\ Get(haloBudgets', a, DefaultBudget) = v
               /\ \A x \in HaloAdvertisers : x # a =>
                    Get(haloBudgets', x, DefaultBudget) = Get(haloBudgets, x, DefaultBudget)
    BY <1>2, <1>3 DEF Put, Get
  <1>4. CASE /\ new >= 0
             /\ haloBudgets' = Put(haloBudgets, a, new)
             /\ budgetProofs' = [budgetProofs EXCEPT ![a] = Append(@, p)]
    <2>1. Chain(new, Append(budgetProofs[a], p))
      BY <1>1, <1>4, ChainGrows
    <2> HIDE DEF p, new, delta, current
    <2>2. /\ DOMAIN budgetProofs' = HaloAdvertisers /\ budgetProofs'[a] = Append(budgetProofs[a], p)
          /\ \A x \in HaloAdvertisers : x # a => budgetProofs'[x] = budgetProofs[x]
      BY <1>2, <1>4
    <2>3. ASSUME NEW x \in HaloAdvertisers
          PROVE  Chain(Get(haloBudgets', x, DefaultBudget), budgetProofs'[x])
      <3>1. CASE x = a
        BY <1>3, <1>4, <2>1, <2>2, <3>1
      <3>2. CASE x # a
        BY <1>3, <1>4, <2>2, <3>2 DEF BudgetsSound
      <3> QED BY <3>1, <3>2
    <2> QED BY <1>3, <1>4, <2>2, <2>3 DEF BudgetsSound
  <1>5. CASE haloBudgets' = Put(haloBudgets, a, current) /\ UNCHANGED budgetProofs
    <2>1. \A x \in HaloAdvertisers : Get(haloBudgets', x, DefaultBudget) = Get(haloBudgets, x, DefaultBudget)
      BY <1>3, <1>5
    <2> QED BY <1>2, <1>3, <1>5, <2>1 DEF BudgetsSound
  <1> QED BY <1>4, <1>5 DEF DeductBudgetWithProof

-----------------------------------------------------------------------------
(* Counters and their proofs *)

Keys == Devices \X Campaigns

ImpressionProof ==
    [cap : Nat, newCounter : Nat, proof : [commitments : Seq(Digest), counterAfter : Nat]]

\* Proof p is of impression k, and verifies under a circuit of cs.
Counted(p, k, cs) ==
    /\ p.cap \in cs /\ FrequencyVerify(p.cap, p.proof)
    /\ p.newCounter = k
    /\ p.proof.commitments = <<Hash(<<k - 1>>), Hash(<<k>>)>>

\* The proofs ps are of the n impressions, one each.
CountedBy(n, ps, cs) ==
    /\ ps \in Seq(ImpressionProof) /\ Len(ps) = n
    /\ \A k \in DOMAIN ps : Counted(ps[k], k, cs)

\* Every counter, zero where there is no entry, is as long as its proofs.
CountersSound ==
    /\ DOMAIN counterProofs \subseteq DOMAIN haloCounters /\ DOMAIN haloCounters \subseteq Keys
    /\ \A key \in Keys :
         CountedBy(Get(haloCounters, key, 0), Get(counterProofs, key, <<>>), circuits)

\* Circuits are added, never taken away.
LEMMA CircuitsStay ==
    ASSUME NEW n, NEW ps, NEW cs, NEW ds, cs \subseteq ds, CountedBy(n, ps, cs)
    PROVE  CountedBy(n, ps, ds)
  BY DEF CountedBy, Counted

\* An impression that is counted adds its proof.
LEMMA CountGrows ==
    ASSUME NEW n, NEW ps, NEW cs, CountedBy(n, ps, cs), NEW cap \in Caps, cap \in cs, n < cap
    PROVE  CountedBy(n + 1, Append(ps, [cap |-> cap, newCounter |-> n + 1,
                                        proof |-> FrequencyProve(n, n + 1)]), cs)
  <1> DEFINE p == [cap |-> cap, newCounter |-> n + 1, proof |-> FrequencyProve(n, n + 1)]
             qs == Append(ps, p)
  <1>1. ps \in Seq(ImpressionProof) /\ Len(ps) = n /\ \A k \in DOMAIN ps : Counted(ps[k], k, cs)
    BY DEF CountedBy
  <1>2. n \in Nat /\ cap \in Nat /\ n + 1 <= cap
    <2>1. n \in Nat /\ cap \in Nat
      BY <1>1, FrequencyAssumption
    <2> QED BY <2>1
  <1>3. Hash(<<n>>) \in Digest /\ Hash(<<n + 1>>) \in Digest
    BY <1>2, DigestOf
  <1>4. p \in ImpressionProof
    BY <1>2, <1>3 DEF ImpressionProof, FrequencyProve
  <1>5. Counted(p, n + 1, cs)
    <2>1. p.proof.commitments = <<Hash(<<n>>), Hash(<<n + 1>>)>> /\ p.proof.counterAfter = n + 1
      BY DEF FrequencyProve
    <2>2. (n + 1) - 1 = n
      BY <1>2
    <2>3. Len(p.proof.commitments) = 2
      BY <2>1
    <2> QED BY <1>2, <2>1, <2>2, <2>3 DEF Counted, FrequencyVerify
  <1> HIDE DEF p
  <1>6. /\ qs \in Seq(ImpressionProof) /\ Len(qs) = n + 1
        /\ DOMAIN qs = DOMAIN ps \cup {n + 1}
        /\ qs[n + 1] = p /\ \A k \in DOMAIN ps : qs[k] = ps[k]
    BY <1>1, <1>4
  <1> HIDE DEF qs
  <1>7. \A k \in DOMAIN qs : Counted(qs[k], k, cs)
    BY <1>1, <1>5, <1>6
  <1>8. CountedBy(n + 1, qs, cs)
    BY <1>6, <1>7 DEF CountedBy
  <1> QED BY <1>8 DEF p, qs

\* CheckAndIncrementWithProof adds a circuit, and a proof with every count.
LEMMA CountSound ==
    ASSUME CountersSound, NEW key \in Keys, NEW campaign, NEW cap \in Caps,
           CheckAndIncrementWithProof(key, campaign, cap)
    PROVE  CountersSound'
  <1> DEFINE n == Get(haloCounters, key, 0)
             ps == Get(counterProofs, key, <<>>)
             p == [cap |-> cap, newCounter |-> n + 1, proof |-> FrequencyProve(n, n + 1)]
  <1>1. /\ DOMAIN counterProofs \subseteq DOMAIN haloCounters /\ DOMAIN haloCounters \subseteq Keys
        /\ CountedBy(n, ps, circuits)
    BY DEF CountersSound
  <1>2. circuits \subseteq circuits' /\ cap \in circuits'
    BY DEF CheckAndIncrementWithProof, withCircuit
  <1>3. ASSUME NEW v, haloCounters' = Put(haloCounters, key, v)
        PROVE  /\ DOMAIN haloCounters' = DOMAIN haloCounters \cup {key}
               /\ Get(haloCounters', key, 0) = v
               /\ \A x \in Keys : x # key => Get(haloCounters', x, 0) = Get(haloCounters, x, 0)
    BY <1>3 DEF Put, Get
  <1>4. ASSUME NEW x \in Keys
        PROVE  CountedBy(Get(haloCounters, x, 0), Get(counterProofs, x, <<>>), circuits')
    BY <1>2, CircuitsStay DEF CountersSound
  <1>5. CASE /\ n < cap
             /\ haloCounters' = Put(haloCounters, key, n + 1)
             /\ counterProofs' = Put(counterProofs, key, Append(ps, p))
    <2>1. CountedBy(n + 1, Append(ps, p), circuits')
      BY <1>2, <1>4, <1>5, CountGrows
    <2> HIDE DEF p, n, ps
    <2>2. /\ DOMAIN counterProofs' = DOMAIN counterProofs \cup {key}
          /\ Get(counterProofs', key, <<>>) = Append(ps, p)
          /\ \A x \in Keys : x # key => Get(counterProofs', x, <<>>) = Get(counterProofs, x, <<>>)
      BY <1>5 DEF Put, Get
    <2>3. ASSUME NEW x \in Keys
          PROVE  CountedBy(Get(haloCounters', x, 0), Get(counterProofs', x, <<>>), circuits')
      <3>1. CASE x = key
        BY <1>3, <1>5, <2>1, <2>2, <3>1
      <3>2. CASE x # key
        BY <1>3, <1>4, <1>5, <2>2, <3>2
      <3> QED BY <3>1, <3>2
    <2> QED BY <1>1, <1>3, <1>5, <2>2, <2>3 DEF CountersSound
  <1>6. CASE haloCounters' = Put(haloCounters, key, n) /\ UNCHANGED counterProofs
    <2>1. \A x \in Keys : Get(haloCounters', x, 0) = Get(haloCounters, x, 0)
      BY <1>3, <1>6
    <2> QED BY <1>1, <1>3, <1>4, <1>6, <2>1 DEF CountersSound
  <1> QED BY <1>5, <1>6 DEF CheckAndIncrementWithProof

HaloSound == BudgetsSound /\ CountersSound

LEMMA HaloStep == HaloSound /\ [CappingNext]_cappingVars => HaloSound'
  <1> SUFFICES ASSUME HaloSound, [CappingNext]_cappingVars PROVE HaloSound'
    OBVIOUS
  <1>1. ASSUME NEW d \in Devices, NEW c \in Campaigns, NEW cap \in Caps, Check(d, c, cap)
        PROVE  HaloSound'
    <2>1. CheckAndIncrementWithProof(<<d, c>>, c, cap)
      BY <1>1 DEF Check
    <2>2. <<d, c>> \in Keys
      BY DEF Keys
    <2>3. CountersSound'
      BY <2>1, <2>2, CountSound DEF HaloSound
    <2>4. BudgetsSound'
      BY <2>1 DEF HaloSound, CheckAndIncrementWithProof, budgetVars, BudgetsSound
    <2> QED BY <2>3, <2>4 DEF HaloSound
  <1>2. ASSUME NEW a \in HaloAdvertisers, NEW amount \in Amounts, Deduct(a, amount)
        PROVE  HaloSound'
    <2>1. DeductBudgetWithProof(a, amount)
      BY <1>2 DEF Deduct
    <2>2. BudgetsSound'
      BY <2>1, DeductSound DEF HaloSound
    <2>3. CountersSound'
      BY <2>1 DEF HaloSound, DeductBudgetWithProof, haloFreqVars, CountersSound
    <2> QED BY <2>2, <2>3 DEF HaloSound
  <1>3. CASE UNCHANGED <<budgetVars, haloFreqVars>>
    BY <1>3 DEF budgetVars, haloFreqVars, HaloSound, BudgetsSound, CountersSound
  <1> QED BY <1>1, <1>2, <1>3 DEF CappingNext, Token, cappingVars

\* DeductBudgetWithProof and CheckAndIncrementWithProof: for every word width,
\* every field and any amounts and caps, the state of an account is what its
\* chain of proofs shows.
THEOREM ProvenState == CappingSpec => []StateIsProven
  <1>1. CappingInit => HaloSound
    <2> SUFFICES ASSUME CappingInit PROVE HaloSound
      OBVIOUS
    <2>1. /\ haloBudgets = NoEntries /\ haloCounters = NoEntries /\ counterProofs = NoEntries
          /\ budgetProofs = [a \in HaloAdvertisers |-> <<>>]
      BY DEF CappingInit, HaloInit
    <2>2. BudgetsSound
      <3>1. \A a \in HaloAdvertisers : Get(haloBudgets, a, DefaultBudget) = DefaultBudget
        BY <2>1, NoEntriesIs DEF Get
      <3> QED BY <2>1, <3>1, NoEntriesIs, ChainStarts DEF BudgetsSound
    <2>3. CountersSound
      <3>1. \A key \in Keys : Get(haloCounters, key, 0) = 0 /\ Get(counterProofs, key, <<>>) = <<>>
        BY <2>1, NoEntriesIs DEF Get
      <3>2. CountedBy(0, <<>>, circuits)
        BY DEF CountedBy
      <3> QED BY <2>1, <3>1, <3>2, NoEntriesIs DEF CountersSound
    <2> QED BY <2>2, <2>3 DEF HaloSound
  <1>2. HaloSound => StateIsProven
    <2> SUFFICES ASSUME HaloSound PROVE StateIsProven
      OBVIOUS
    <2>1. ASSUME NEW a \in DOMAIN haloBudgets PROVE BudgetIsProven(a)
      <3>1. Chain(haloBudgets[a], budgetProofs[a])
        BY DEF HaloSound, BudgetsSound, Get
      <3>2. haloBudgets[a] >= 0
        BY <3>1 DEF Chain
      <3> QED BY <3>1, <3>2, Zenon DEF Chain, Link, Deltas, BudgetIsProven
    <2>2. ASSUME NEW key \in DOMAIN counterProofs PROVE CounterIsProven(key)
      <3>1. CountedBy(haloCounters[key], counterProofs[key], circuits)
        BY DEF HaloSound, CountersSound, Get
      <3> QED BY <3>1 DEF CountedBy, Counted, CounterIsProven, VerifyFrequencyProof
    <2> QED BY <2>1, <2>2 DEF StateIsProven
  <1> QED BY <1>1, <1>2, HaloStep, PTL DEF CappingSpec

-----------------------------------------------------------------------------
(* The two managers side by side *)

FrequencyCounter == [count : Nat, cap : Caps, epochID : Nat]

\* The counter c of the first manager and h of the second, of a device and
\* campaign that was checked under caps.
Agrees(c, h, caps) ==
    /\ c \in FrequencyCounter /\ h \in Nat /\ caps \in Seq(Caps) /\ caps # <<>>
    /\ c.cap = caps[1] /\ c.count <= c.cap
    /\ \E k \in DOMAIN caps : h <= caps[k]
    /\ Len(caps) = 1 => c.count = h

\* Both managers have a counter for whatever was checked, and for nothing else.
CountersAgree ==
    /\ epoch \in Nat
    /\ asked \in [Keys -> Seq(Caps)]
    /\ DOMAIN counters = {key \in Keys : asked[key] # <<>>} /\ DOMAIN haloCounters = DOMAIN counters
    /\ \A key \in DOMAIN counters : Agrees(counters[key], haloCounters[key], asked[key])

\* A counter that is not counted up is below another cap as well.
LEMMA AgreesUnder ==
    ASSUME NEW c, NEW h, NEW caps, Agrees(c, h, caps), NEW cap \in Caps
    PROVE  Agrees(c, h, Append(caps, cap))
  <1> DEFINE qs == Append(caps, cap)
  <1>1. caps \in Seq(Caps) /\ caps # <<>>
    BY DEF Agrees
  <1>2. /\ qs \in Seq(Caps) /\ qs # <<>> /\ Len(qs) # 1 /\ 1 \in DOMAIN caps
        /\ DOMAIN caps \subseteq DOMAIN qs /\ \A k \in DOMAIN caps : qs[k] = caps[k]
    BY <1>1
  <1> HIDE DEF qs
  <1>3. \E k \in DOMAIN qs : h <= qs[k]
    BY <1>2 DEF Agrees
  <1>4. Agrees(c, h, qs)
    BY <1>2, <1>3 DEF Agrees
  <1> QED BY <1>4 DEF qs

\* A first check enters a zero in both managers.
LEMMA AgreesAtFirst ==
    ASSUME NEW cap \in Caps, NEW e \in Nat
    PROVE  Agrees([count |-> 0, cap |-> cap, epochID |-> e], 0, Append(<<>>, cap))
  <1>1. cap \in Nat
    BY FrequencyAssumption
  <1>2. Append(<<>>, cap) = <<cap>> /\ <<cap>> \in Seq(Caps) /\ <<cap>> # <<>> /\ <<cap>>[1] = cap
        /\ DOMAIN <<cap>> = {1}
    OBVIOUS
  <1>3. \E k \in DOMAIN <<cap>> : 0 <= <<cap>>[k]
    BY <1>1, <1>2
  <1> QED BY <1>1, <1>2, <1>3 DEF Agrees, FrequencyCounter

Up(c) == [c EXCEPT !.count = @ + 1]

\* A check of both counters, under a cap that was noted.
LEMMA AgreesAfter ==
    ASSUME NEW c, NEW h, NEW caps, Agrees(c, h, caps),
           NEW m \in DOMAIN caps
    PROVE  Agrees(IF c.count < c.cap THEN Up(c) ELSE c,
                  IF h < caps[m] /\ FrequencyProvable(caps[m], h, h + 1) THEN h + 1 ELSE h, caps)
  <1> DEFINE c2 == IF c.count < c.cap THEN Up(c) ELSE c
             h2 == IF h < caps[m] /\ FrequencyProvable(caps[m], h, h + 1) THEN h + 1 ELSE h
  <1>1. c \in FrequencyCounter /\ h \in Nat /\ caps \in Seq(Caps) /\ caps # <<>>
        /\ c.cap = caps[1] /\ c.count <= c.cap /\ (Len(caps) = 1 => c.count = h)
    BY DEF Agrees
  <1>2. c.count \in Nat /\ c.cap \in Nat /\ c.cap \in Caps /\ c.epochID \in Nat
    BY <1>1, FrequencyAssumption DEF FrequencyCounter
  <1>3. caps[m] \in Nat /\ caps[m] < FieldModulus
    <2>1. caps[m] \in Caps
      BY <1>1
    <2> QED BY <2>1, FrequencyAssumption, CapsAssumption
  <1>4. h < caps[m] => FrequencyProvable(caps[m], h, h + 1)
    <2>1. h < caps[m] => h + 1 <= caps[m] /\ h + 1 < FieldModulus
      BY <1>1, <1>3, CircuitsAssumption
    <2>2. h < caps[m] => (h + 1) % FieldModulus = h + 1
      BY <1>1, <2>1, CircuitsAssumption
    <2> QED BY <2>1, <2>2 DEF FrequencyProvable, FieldAdd
  <1>5. h2 = IF h < caps[m] THEN h + 1 ELSE h
    BY <1>4
  <1>6. /\ c2 \in FrequencyCounter /\ c2.cap = c.cap
        /\ c2.count = IF c.count < c.cap THEN c.count + 1 ELSE c.count
    <2>1. Up(c) \in FrequencyCounter /\ Up(c).cap = c.cap /\ Up(c).count = c.count + 1
      BY <1>1, <1>2 DEF Up, FrequencyCounter
    <2> QED BY <1>1, <2>1
  <1> HIDE DEF c2, h2
  <1>7. h2 \in Nat /\ c2.count <= c.cap
    BY <1>1, <1>2, <1>5, <1>6
  <1>8. \E k \in DOMAIN caps : h2 <= caps[k]
    <2>1. CASE h < caps[m]
      BY <1>1, <1>3, <1>5, <2>1
    <2>2. CASE ~(h < caps[m])
      BY <1>5, <2>2 DEF Agrees
    <2> QED BY <2>1, <2>2
  <1>9. Len(caps) = 1 => c2.count = h2
    <2>1. Len(caps) = 1 => m = 1
      BY <1>1
    <2> QED BY <1>1, <1>5, <1>6, <2>1
  <1>10. Agrees(c2, h2, caps)
    BY <1>1, <1>6, <1>7, <1>8, <1>9 DEF Agrees
  <1> QED BY <1>10 DEF c2, h2

\* Check keeps the two managers together.
LEMMA CheckAgrees ==
    ASSUME CountersAgree, NEW d \in Devices, NEW c \in Campaigns, NEW cap \in Caps, Check(d, c, cap)
    PROVE  CountersAgree'
  <1> DEFINE key == <<d, c>>
             old == counterFor(key, cap)
             h == Get(haloCounters, key, 0)
             caps == IF cap \in Range(asked[key]) THEN asked[key] ELSE Append(asked[key], cap)
             new == IF old.count < old.cap THEN Up(old) ELSE old
             h2 == IF h < cap /\ FrequencyProvable(cap, h, h + 1) THEN h + 1 ELSE h
  <1>1. key \in Keys
    BY DEF Keys
  <1>2. /\ epoch \in Nat
        /\ asked \in [Keys -> Seq(Caps)]
        /\ DOMAIN counters = {k \in Keys : asked[k] # <<>>} /\ DOMAIN haloCounters = DOMAIN counters
    BY DEF CountersAgree
  <1>3. counters' = Put(counters, key, new)
    BY DEF Check, CheckAndIncrementCounter, Up
  <1>4. haloCounters' = Put(haloCounters, key, h2)
    BY DEF Check, CheckAndIncrementWithProof
  <1>5. asked' = [asked EXCEPT ![key] = caps] /\ epoch' = epoch
    BY DEF Check, CheckAndIncrementCounter
  <1>6. Agrees(old, h, caps)
    <2>1. CASE key \in DOMAIN counters
      <3>1. old = counters[key] /\ h = haloCounters[key]
        BY <1>2, <2>1 DEF counterFor, Get
      <3>2. Agrees(old, h, asked[key])
        BY <2>1, <3>1 DEF CountersAgree
      <3> QED BY <3>2, AgreesUnder
    <2>2. CASE key \notin DOMAIN counters
      <3>1. old = [count |-> 0, cap |-> cap, epochID |-> epoch] /\ h = 0
        BY <1>2, <2>2 DEF counterFor, Get
      <3>2. asked[key] = <<>>
        BY <1>1, <1>2, <2>2
      <3>3. caps = Append(<<>>, cap)
        BY <3>2 DEF Range
      <3> HIDE DEF old, h, caps
      <3> QED BY <1>2, <3>1, <3>3, AgreesAtFirst
    <2> QED BY <2>1, <2>2
  <1>7. \E m \in DOMAIN caps : caps[m] = cap
    <2>1. asked[key] \in Seq(Caps)
      BY <1>1, <1>2
    <2>2. CASE cap \in Range(asked[key])
      BY <2>2 DEF Range
    <2>3. CASE cap \notin Range(asked[key])
      <3>1. /\ Len(asked[key]) + 1 \in DOMAIN Append(asked[key], cap)
            /\ Append(asked[key], cap)[Len(asked[key]) + 1] = cap
        BY <2>1
      <3> QED BY <2>3, <3>1
    <2> QED BY <2>2, <2>3
  <1> HIDE DEF old, h, caps
  <1>8. Agrees(new, h2, caps)
    BY <1>6, <1>7, AgreesAfter
  <1> HIDE DEF new, h2, key
  <1>9. caps \in Seq(Caps) /\ caps # <<>>
    BY <1>8 DEF Agrees
  <1>10. /\ DOMAIN counters' = DOMAIN counters \cup {key} /\ counters'[key] = new
         /\ \A x \in DOMAIN counters : x # key => counters'[x] = counters[x]
    BY <1>3 DEF Put
  <1>11. /\ DOMAIN haloCounters' = DOMAIN haloCounters \cup {key} /\ haloCounters'[key] = h2
         /\ \A x \in DOMAIN haloCounters : x # key => haloCounters'[x] = haloCounters[x]
    BY <1>4 DEF Put
  <1>12. /\ asked' \in [Keys -> Seq(Caps)] /\ asked'[key] = caps
         /\ \A x \in Keys : x # key => asked'[x] = asked[x]
    BY <1>1, <1>2, <1>5, <1>9
  <1>13. DOMAIN counters' = {x \in Keys : asked'[x] # <<>>}
    BY <1>1, <1>2, <1>9, <1>10, <1>12
  <1>14. ASSUME NEW x \in DOMAIN counters' PROVE Agrees(counters'[x], haloCounters'[x], asked'[x])
    <2>1. CASE x = key
      BY <1>8, <1>10, <1>11, <1>12, <2>1
    <2>2. CASE x # key
      <3>1. x \in DOMAIN counters /\ x \in DOMAIN haloCounters /\ x \in Keys
        BY <1>2, <1>10, <2>2
      <3> QED BY <1>10, <1>11, <1>12, <2>2, <3>1 DEF CountersAgree
    <2> QED BY <2>1, <2>2
  <1> QED BY <1>2, <1>5, <1>10, <1>11, <1>12, <1>13, <1>14 DEF CountersAgree

LEMMA AgreeStep == CountersAgree /\ [CappingNext]_cappingVars => CountersAgree'
  <1> SUFFICES ASSUME CountersAgree, [CappingNext]_cappingVars PROVE CountersAgree'
    OBVIOUS
  <1>1. ASSUME NEW d \in Devices, NEW c \in Campaigns, NEW cap \in Caps, Check(d, c, cap)
        PROVE  CountersAgree'
    BY <1>1, CheckAgrees
  <1>2. CASE UNCHANGED <<counters, haloCounters, asked>> /\ epoch' \in {epoch, epoch + 1}
    BY <1>2 DEF CountersAgree
  <1>3. \/ \E d \in Devices, c \in Campaigns, cap \in Caps : Check(d, c, cap)
        \/ UNCHANGED <<counters, haloCounters, asked>> /\ epoch' \in {epoch, epoch + 1}
    BY DEF CappingNext, Deduct, DeductBudgetWithProof, Token, TokenNext, IssueTokens, RedeemPrivacyToken,
           NextEpoch, cappingVars, freqVars, haloFreqVars
  <1> QED BY <1>1, <1>2, <1>3

LEMMA AgreeInit == CappingInit => CountersAgree
  <1> SUFFICES ASSUME CappingInit PROVE CountersAgree
    OBVIOUS
  <1>1. counters = NoEntries /\ haloCounters = NoEntries /\ epoch = 0
        /\ asked = [k \in Keys |-> <<>>]
    BY DEF CappingInit, FreqInit, HaloInit, Keys
  <1>2. <<>> \in Seq(Caps)
    OBVIOUS
  <1> QED BY <1>1, <1>2, NoEntriesIs DEF CountersAgree

\* A sequence of numbers that is not empty has a largest element.
LEMMA LargestOf ==
    ASSUME NEW caps \in Seq(Nat), caps # <<>>
    PROVE  Max(Range(caps)) \in Nat /\ \A k \in DOMAIN caps : caps[k] <= Max(Range(caps))
  <1> DEFINE Good == {n \in Nat : n \in 1..Len(caps) =>
                        \E m \in 1..n : \A k \in 1..n : caps[m] >= caps[k]}
  <1>1. Len(caps) \in Nat \ {0} /\ DOMAIN caps = 1..Len(caps) /\ \A k \in DOMAIN caps : caps[k] \in Nat
    OBVIOUS
  <1>2. 0 \in Good
    OBVIOUS
  <1>3. ASSUME NEW n \in Nat, n \in Good PROVE n + 1 \in Good
    <2> SUFFICES ASSUME n + 1 \in 1..Len(caps)
                 PROVE  \E m \in 1..(n + 1) : \A k \in 1..(n + 1) : caps[m] >= caps[k]
      BY <1>3
    <2>1. CASE n = 0
      <3>1. \A k \in 1..(n + 1) : k = n + 1 /\ caps[k] >= caps[k]
        BY <1>1, <2>1
      <3> QED BY <2>1, <3>1
    <2>2. CASE n # 0
      <3>1. n \in 1..Len(caps) /\ \A k \in 1..(n + 1) : k \in DOMAIN caps
        BY <1>1, <2>2
      <3>2. PICK m \in 1..n : \A k \in 1..n : caps[m] >= caps[k]
        BY <1>3, <3>1
      <3>3. \A k \in 1..(n + 1) : caps[k] \in Nat /\ (k \in 1..n \/ k = n + 1)
        BY <1>1, <3>1
      <3>4. m \in 1..(n + 1) /\ n + 1 \in 1..(n + 1)
        OBVIOUS
      <3>5. CASE caps[m] >= caps[n + 1]
        BY <3>2, <3>3, <3>4, <3>5
      <3>6. CASE ~(caps[m] >= caps[n + 1])
        <4>1. \A k \in 1..(n + 1) : caps[n + 1] >= caps[k]
          BY <3>2, <3>3, <3>4, <3>6
        <4> QED BY <3>4, <4>1
      <3> QED BY <3>5, <3>6
    <2> QED BY <2>1, <2>2
  <1>4. Len(caps) \in Good
    <2> HIDE DEF Good
    <2>1. Nat \subseteq Good
      BY <1>2, <1>3, NumberInduction
    <2> QED BY <1>1, <2>1
  <1>5. PICK m \in DOMAIN caps : \A k \in DOMAIN caps : caps[m] >= caps[k]
    <2>1. Len(caps) \in 1..Len(caps)
      BY <1>1
    <2>2. \E m \in 1..Len(caps) : \A k \in 1..Len(caps) : caps[m] >= caps[k]
      BY <1>4, <2>1, Zenon
    <2> QED BY <1>1, <2>2, Zenon
  <1>6. \E x \in Range(caps) : \A y \in Range(caps) : x >= y
    BY <1>5 DEF Range
  <1>7. Max(Range(caps)) \in Range(caps) /\ \A y \in Range(caps) : Max(Range(caps)) >= y
    BY <1>6 DEF Max
  <1>8. Max(Range(caps)) \in Nat
    BY <1>1, <1>7 DEF Range
  <1> QED BY <1>1, <1>7, <1>8 DEF Range

\* FrequencyManager and Halo2FrequencyManager: under any caps and in any order
\* of checks both cap impressions, and under one cap they allow the same.
THEOREM AgreeProven == CappingSpec => []ManagersAgree
  <1>1. CountersAgree => ManagersAgree
    <2> SUFFICES ASSUME CountersAgree, NEW key \in Keys, key \in DOMAIN counters
                 PROVE  LET caps == asked[key] IN
                        /\ counters[key].count <= Head(caps)
                        /\ haloCounters[key] <= Max(Range(caps))
                        /\ Len(caps) = 1 => counters[key].count = haloCounters[key]
      BY DEF CountersAgree, ManagersAgree, Keys
    <2> DEFINE caps == asked[key]
    <2>1. Agrees(counters[key], haloCounters[key], caps)
      BY DEF CountersAgree
    <2> HIDE DEF caps
    <2>2. caps \in Seq(Caps) /\ caps # <<>> /\ haloCounters[key] \in Nat
      BY <2>1 DEF Agrees
    <2>3. caps \in Seq(Nat) /\ Head(caps) = caps[1]
      <3>1. \A k \in 1..Len(caps) : caps[k] \in Nat
        <4>1. \A k \in 1..Len(caps) : caps[k] \in Caps
          BY <2>2
        <4> QED BY <4>1, FrequencyAssumption
      <3>2. DOMAIN caps = 1..Len(caps) /\ Len(caps) \in Nat /\ Head(caps) = caps[1]
        BY <2>2
      <3>3. caps = [k \in 1..Len(caps) |-> caps[k]]
        BY <2>2
      <3> QED BY <3>1, <3>2, <3>3
    <2>4. PICK k \in DOMAIN caps : haloCounters[key] <= caps[k]
      BY <2>1 DEF Agrees
    <2>5. haloCounters[key] <= Max(Range(caps))
      <3>1. caps[k] <= Max(Range(caps)) /\ caps[k] \in Nat
        BY <2>2, <2>3, LargestOf
      <3>2. Max(Range(caps)) \in Nat
        BY <2>2, <2>3, LargestOf
      <3> QED BY <2>2, <2>4, <3>1, <3>2
    <2> QED BY <2>1, <2>3, <2>5 DEF Agrees, caps
  <1> QED BY <1>1, AgreeInit, AgreeStep, PTL DEF CappingSpec

-----------------------------------------------------------------------------
(* The epoch root *)

\* An order of a finite set takes each of its elements once.
LEMMA OrderTakesAll ==
    ASSUME NEW D, IsFiniteSet(D), NEW order \in SetToSeqs(D), NEW P \in SUBSET D
    PROVE  Cardinality({k \in DOMAIN order : order[k] \in P}) = Cardinality(P)
  <1> DEFINE n == Cardinality(D)
             K == {k \in 1..n : order[k] \in P}
  <1>1. n \in Nat
    BY FS_CardinalityType
  <1>2. order \in [1..n -> D] /\ \A i, j \in 1..n : i # j => order[i] # order[j]
    BY DEF SetToSeqs
  <1>3. order \in Injection(1..n, D)
    BY <1>2 DEF Injection, IsInjective
  <1>4. IsFiniteSet(1..n) /\ Cardinality(1..n) = n
    BY <1>1, FS_Interval
  <1>5. order \in Surjection(1..n, D)
    BY <1>3, <1>4, FS_Injection
  <1>6. \A x \in D : \E k \in 1..n : order[k] = x
    BY <1>5 DEF Surjection
  <1> HIDE DEF n
  <1> DEFINE f == [k \in K |-> order[k]]
  <1>7. f \in [K -> P] /\ \A x \in P : \E k \in K : f[k] = x
    BY <1>6
  <1>8. \A i, j \in K : f[i] = f[j] => i = j
    BY <1>2
  <1>9. IsFiniteSet(K)
    BY <1>4, FS_Subset
  <1>10. DOMAIN order = 1..n
    BY <1>2
  <1> HIDE DEF f, K
  <1>11. f \in Bijection(K, P)
    BY <1>7, <1>8 DEF Bijection, Injection, IsInjective, Surjection
  <1>12. Cardinality(P) = Cardinality(K)
    BY <1>9, <1>11, FS_Bijection DEF ExistsBijection
  <1> QED BY <1>10, <1>12 DEF K

\* The root r has the low bytes of the counts of D.
RootOf(r, D, cs) ==
    \E order \in SetToSeqs(D) : r = [k \in DOMAIN order |-> cs[order[k]].count % Byte]

\* The root has the counts of all counters but some that are zero.
RootSound ==
    \E D \in SUBSET DOMAIN counters :
      /\ RootOf(epochRoot, D, counters)
      /\ \A key \in DOMAIN counters \ D : counters[key].count = 0

\* CheckAndIncrementCounter makes the root of all counts, or enters a zero.
LEMMA CheckRoot ==
    ASSUME CountersAgree, RootSound, NEW d \in Devices, NEW c \in Campaigns, NEW cap \in Caps,
           CheckAndIncrementCounter(d, c, cap)
    PROVE  RootSound'
  <1> DEFINE key == <<d, c>>
             old == counterFor(key, cap)
  <1>1. CASE epochRoot' \in updateEpochRoot(counters')
    <2>1. RootOf(epochRoot', DOMAIN counters', counters')
      BY <1>1 DEF updateEpochRoot, RootOf
    <2> QED BY <2>1 DEF RootSound
  <1>2. CASE counters' = Put(counters, key, old) /\ epochRoot' = epochRoot
    <2>1. PICK D \in SUBSET DOMAIN counters :
            /\ RootOf(epochRoot, D, counters)
            /\ \A k \in DOMAIN counters \ D : counters[k].count = 0
      BY DEF RootSound
    <2>2. /\ DOMAIN counters' = DOMAIN counters \cup {key}
          /\ \A k \in DOMAIN counters : counters'[k] = counters[k]
          /\ key \notin DOMAIN counters => counters'[key].count = 0
      BY <1>2 DEF Put, counterFor, Get
    <2>3. PICK order \in SetToSeqs(D) : epochRoot = [k \in DOMAIN order |-> counters[order[k]].count % Byte]
      BY <2>1 DEF RootOf
    <2>4. \A k \in DOMAIN order : order[k] \in D
      BY <2>3 DEF SetToSeqs
    <2> HIDE DEF key, old
    <2>5. [k \in DOMAIN order |-> counters[order[k]].count % Byte]
            = [k \in DOMAIN order |-> counters'[order[k]].count % Byte]
      BY <2>2, <2>4
    <2>6. RootOf(epochRoot', D, counters')
      BY <1>2, <2>3, <2>5 DEF RootOf
    <2>7. D \in SUBSET DOMAIN counters' /\ \A k \in DOMAIN counters' \ D : counters'[k].count = 0
      BY <2>1, <2>2
    <2> QED BY <2>6, <2>7 DEF RootSound
  <1> QED BY <1>1, <1>2 DEF CheckAndIncrementCounter

LEMMA RootStep == CountersAgree /\ RootSound /\ [CappingNext]_cappingVars => RootSound'
  <1> SUFFICES ASSUME CountersAgree, RootSound, [CappingNext]_cappingVars PROVE RootSound'
    OBVIOUS
  <1>1. ASSUME NEW d \in Devices, NEW c \in Campaigns, NEW cap \in Caps, Check(d, c, cap)
        PROVE  RootSound'
    BY <1>1, CheckRoot DEF Check
  <1>2. CASE UNCHANGED <<counters, epochRoot>>
    BY <1>2 DEF RootSound
  <1>3. \/ \E d \in Devices, c \in Campaigns, cap \in Caps : Check(d, c, cap)
        \/ UNCHANGED <<counters, epochRoot>>
    BY DEF CappingNext, Deduct, Token, TokenNext, IssueTokens, RedeemPrivacyToken,
           NextEpoch, cappingVars, freqVars
  <1> QED BY <1>1, <1>2, <1>3

\* What the root commits to, byte by byte.
LEMMA RootCounts ==
    ASSUME CountersAgree, RootSound
    PROVE  RootCommitsToCounts
  <1> SUFFICES ASSUME NEW b \in 1..(Byte - 1)
               PROVE  Cardinality({k \in DOMAIN epochRoot : epochRoot[k] = b})
                        = Cardinality({key \in DOMAIN counters : counters[key].count % Byte = b})
    BY DEF RootCommitsToCounts
  <1>1. PICK D \in SUBSET DOMAIN counters :
          /\ RootOf(epochRoot, D, counters)
          /\ \A k \in DOMAIN counters \ D : counters[k].count = 0
    BY DEF RootSound
  <1>2. PICK order \in SetToSeqs(D) : epochRoot = [k \in DOMAIN order |-> counters[order[k]].count % Byte]
    BY <1>1 DEF RootOf
  <1> DEFINE P == {key \in D : counters[key].count % Byte = b}
  <1>3. \A k \in DOMAIN order : order[k] \in D
    BY <1>2 DEF SetToSeqs
  <1>4. DOMAIN epochRoot = DOMAIN order /\ \A k \in DOMAIN order : epochRoot[k] = counters[order[k]].count % Byte
    BY <1>2
  <1>5. {k \in DOMAIN epochRoot : epochRoot[k] = b} = {k \in DOMAIN order : order[k] \in P}
    BY <1>3, <1>4
  <1>6. 0 % Byte # b
    BY FrequencyAssumption
  <1>7. {key \in DOMAIN counters : counters[key].count % Byte = b} = P
    BY <1>1, <1>6
  <1>8. IsFiniteSet(D)
    <2>1. IsFiniteSet(Keys)
      BY FrequencyAssumption, FS_Product DEF Keys
    <2>2. D \subseteq Keys
      BY DEF CountersAgree
    <2> QED BY <2>1, <2>2, FS_Subset
  <1> HIDE DEF P
  <1>9. P \in SUBSET D
    BY DEF P
  <1>10. Cardinality({k \in DOMAIN order : order[k] \in P}) = Cardinality(P)
    BY <1>8, <1>9, OrderTakesAll
  <1> QED BY <1>5, <1>7, <1>10

\* updateEpochRoot: for any devices, campaigns and caps and whatever order the
\* map is iterated in, the root has the low bytes of all counts but zeros.
THEOREM RootProven == CappingSpec => []RootCommitsToCounts
  <1>1. CappingInit => RootSound
    <2> SUFFICES ASSUME CappingInit PROVE RootSound
      OBVIOUS
    <2>1. counters = NoEntries /\ epochRoot = <<>>
      BY DEF CappingInit, FreqInit
    <2>2. DOMAIN counters = {}
      BY <2>1, NoEntriesIs
    <2>3. Cardinality({}) = 0
      BY FS_EmptySet
    <2>4. <<>> \in SetToSeqs({})
      BY <2>3 DEF SetToSeqs
    <2>5. epochRoot = [k \in DOMAIN <<>> |-> counters[<<>>[k]].count % Byte]
      BY <2>1
    <2>6. RootOf(epochRoot, {}, counters)
      BY <2>4, <2>5 DEF RootOf
    <2> QED BY <2>2, <2>6 DEF RootSound
  <1>2. CountersAgree /\ RootSound => RootCommitsToCounts
    BY RootCounts
  <1> QED BY <1>1, <1>2, AgreeInit, AgreeStep, RootStep, PTL DEF CappingSpec

-----------------------------------------------------------------------------
(* DataAvailability *)

Blob == [slice : Nat, expiry : Nat]

\* What is referred to is there, and committed to unless it was written to.
StoreSound ==
    /\ now \in Nat
    /\ heap \in Seq(Data)
    /\ blobs \in Seq(Blob)
    /\ \A k \in DOMAIN blobs : blobs[k].slice \in DOMAIN heap
    /\ \A ref \in refs :
         /\ ref.blobID \in DOMAIN blobs
         /\ blobs[ref.blobID].slice \notin written =>
              ref.commitment = createCommitment(heap[blobs[ref.blobID].slice])

\* StoreBlob adds a blob, of data that was there or that is added with it.
LEMMA StoreBlobSound ==
    ASSUME StoreSound, NEW h \in Seq(Data), NEW slice \in DOMAIN h,
           DOMAIN heap \subseteq DOMAIN h, \A k \in DOMAIN heap : h[k] = heap[k],
           StoreBlob(h, slice)
    PROVE  StoreSound'
  <1> DEFINE id == Len(blobs) + 1
             blob == [slice |-> slice, expiry |-> now + BlobExpiration]
             new == reference(id, h[slice])
  <1>1. /\ blobs' = Append(blobs, blob) /\ refs' = refs \cup {new}
        /\ heap' = h /\ UNCHANGED <<layer, now, written>>
    BY DEF StoreBlob
  <1>2. blobs \in Seq(Blob) /\ now \in Nat /\ BlobExpiration \in Nat
    BY DAAssumption DEF StoreSound
  <1>3. blob \in Blob /\ blob.slice = slice
    <2>1. slice \in Nat
      OBVIOUS
    <2> QED BY <1>2, <2>1 DEF Blob
  <1>4. new.blobID = id /\ new.commitment = createCommitment(h[slice])
    BY DEF reference
  <1> HIDE DEF blob, new
  <1>5. /\ blobs' \in Seq(Blob) /\ DOMAIN blobs' = DOMAIN blobs \cup {id}
        /\ blobs'[id] = blob /\ \A k \in DOMAIN blobs : blobs'[k] = blobs[k]
    BY <1>1, <1>2, <1>3
  <1> HIDE DEF id
  <1>6. ASSUME NEW k \in DOMAIN blobs' PROVE blobs'[k].slice \in DOMAIN heap'
    BY <1>1, <1>3, <1>5 DEF StoreSound
  <1>7. ASSUME NEW ref \in refs'
        PROVE  /\ ref.blobID \in DOMAIN blobs'
               /\ blobs'[ref.blobID].slice \notin written' =>
                    ref.commitment = createCommitment(heap'[blobs'[ref.blobID].slice])
    <2>1. CASE ref = new
      BY <1>1, <1>3, <1>4, <1>5, <2>1
    <2>2. CASE ref \in refs
      <3>1. /\ ref.blobID \in DOMAIN blobs /\ blobs[ref.blobID].slice \in DOMAIN heap
            /\ blobs[ref.blobID].slice \notin written =>
                 ref.commitment = createCommitment(heap[blobs[ref.blobID].slice])
        BY <2>2 DEF StoreSound
      <3>2. blobs'[ref.blobID] = blobs[ref.blobID]
        BY <1>5, <3>1
      <3>3. heap'[blobs[ref.blobID].slice] = heap[blobs[ref.blobID].slice]
        BY <1>1, <3>1
      <3> QED BY <1>1, <1>5, <3>1, <3>2, <3>3
    <2> QED BY <1>1, <2>1, <2>2
  <1> QED BY <1>1, <1>2, <1>5, <1>6, <1>7 DEF StoreSound

\* New data goes to a slice of its own.
LEMMA StoreOwnSound ==
    ASSUME StoreSound, NEW data \in Data, StoreBlob(Append(heap, data), Len(heap) + 1)
    PROVE  StoreSound'
  <1>1. heap \in Seq(Data)
    BY DEF StoreSound
  <1> DEFINE h == Append(heap, data)
             slice == Len(heap) + 1
  <1>2. /\ h \in Seq(Data) /\ slice \in DOMAIN h /\ DOMAIN heap \subseteq DOMAIN h
        /\ \A k \in DOMAIN heap : h[k] = heap[k]
    BY <1>1
  <1>3. StoreBlob(h, slice)
    OBVIOUS
  <1> HIDE DEF h, slice
  <1> QED BY <1>2, <1>3, StoreBlobSound

\* A slice that is written to is committed to by nothing.
LEMMA WriteSound ==
    ASSUME StoreSound, NEW slice \in DOMAIN heap, NEW data \in Data, Write(slice, data)
    PROVE  StoreSound'
  <1>1. heap' = [heap EXCEPT ![slice] = data] /\ written' = written \cup {slice}
        /\ UNCHANGED <<layer, blobs, refs, now, sealed>>
    BY DEF Write
  <1>2. heap \in Seq(Data)
    BY DEF StoreSound
  <1>3. heap' \in Seq(Data) /\ DOMAIN heap' = DOMAIN heap /\ \A k \in DOMAIN heap : k # slice => heap'[k] = heap[k]
    BY <1>1, <1>2
  <1>4. ASSUME NEW ref \in refs
        PROVE  /\ ref.blobID \in DOMAIN blobs
               /\ blobs[ref.blobID].slice \notin written' =>
                    ref.commitment = createCommitment(heap'[blobs[ref.blobID].slice])
    <2>1. /\ ref.blobID \in DOMAIN blobs /\ blobs[ref.blobID].slice \in DOMAIN heap
          /\ blobs[ref.blobID].slice \notin written =>
               ref.commitment = createCommitment(heap[blobs[ref.blobID].slice])
      BY DEF StoreSound
    <2> QED BY <1>1, <1>3, <2>1
  <1> QED BY <1>1, <1>3, <1>4 DEF StoreSound

LEMMA StoreStep == StoreSound /\ [DANext]_daVars => StoreSound'
  <1> SUFFICES ASSUME StoreSound, [DANext]_daVars PROVE StoreSound'
    OBVIOUS
  <1>1. ASSUME NEW p \in Plaintexts, StoreNew(<<p>>) PROVE StoreSound'
    <2>1. <<p>> \in Data
      BY DEF Data
    <2> QED BY <1>1, <2>1, StoreOwnSound DEF StoreNew
  <1>2. ASSUME NEW slice \in DOMAIN heap, StoreAgain(slice) PROVE StoreSound'
    <2>1. heap \in Seq(Data) /\ StoreBlob(heap, slice)
      BY <1>2 DEF StoreSound, StoreAgain
    <2> QED BY <2>1, StoreBlobSound
  <1>3. ASSUME NEW p \in Plaintexts, NEW recipients \in RecipientLists, NEW aad \in AADs,
               EncryptAndStore(p, recipients, aad)
        PROVE  StoreSound'
    <2> DEFINE id == Len(blobs) + 1
               data == serializeEnvelope(Seal(p, recipients, aad, seedOf(id)))
    <2>1. Sealable(recipients) /\ Len(blobs) < MaxBlobs /\ StoreBlob(Append(heap, data), Len(heap) + 1)
      BY <1>3 DEF EncryptAndStore, StoreBlob
    <2>2. id \in 1..MaxBlobs
      BY <2>1, DAAssumption DEF StoreSound
    <2>3. data \in Data
      BY <2>1, <2>2 DEF Data
    <2> HIDE DEF data
    <2> QED BY <2>1, <2>3, StoreOwnSound
  <1>4. ASSUME NEW slice \in DOMAIN heap, NEW p \in Plaintexts, Write(slice, <<p>>) PROVE StoreSound'
    <2>1. <<p>> \in Data
      BY DEF Data
    <2> QED BY <1>4, <2>1, WriteSound
  <1>5. CASE UNCHANGED <<heap, blobs, refs, written>> /\ now' \in {now, now + 1}
    BY <1>5 DEF StoreSound
  <1>6. CASE Tick
    BY <1>5, <1>6 DEF Tick
  <1>7. CASE UNCHANGED daVars
    BY <1>5, <1>7 DEF daVars
  <1> QED BY <1>1, <1>2, <1>3, <1>4, <1>6, <1>7 DEF DANext

\* RetrieveBlob: for any numbers of slices, blobs and writers, what nobody
\* wrote to is returned as it was committed to, and what somebody wrote to is
\* not returned once it expired.
THEOREM CommittedReads == DASpec => []ReadsAreCommitted
  <1>1. DAInit => StoreSound
    BY DEF DAInit, StoreSound
  <1>2. StoreSound => ReadsAreCommitted
    <2> SUFFICES ASSUME StoreSound, NEW ref \in refs
                 PROVE  LET blob == blobs[ref.blobID]
                            data == RetrieveBlob(ref)
                        IN /\ blob.slice \notin written => data # Failed
                           /\ data # Failed /\ (blob.slice \notin written \/ now >= blob.expiry)
                                => ref.commitment = createCommitment(data)
      BY DEF ReadsAreCommitted
    <2> DEFINE blob == blobs[ref.blobID]
               found == heap[blob.slice]
               data == RetrieveBlob(ref)
    <2>1. /\ ref.blobID \in DOMAIN blobs /\ blob.slice \in DOMAIN heap
          /\ blob.slice \notin written => ref.commitment = createCommitment(found)
      BY DEF StoreSound
    <2>2. found \in Data
      BY <2>1 DEF StoreSound
    <2>3. found # Failed
      BY <2>2, FailedAssumption
    <2>4. now \in Nat /\ blob.expiry \in Nat
      <3>1. now \in Nat /\ blob \in Blob
        BY <2>1 DEF StoreSound
      <3> QED BY <3>1 DEF Blob
    <2>5. data = IF now < blob.expiry \/ createCommitment(found) = ref.commitment THEN found ELSE Failed
      BY <2>1 DEF RetrieveBlob
    <2>6. now >= blob.expiry => ~(now < blob.expiry)
      BY <2>4
    <2> HIDE DEF data, found
    <2>7. blob.slice \notin written => data # Failed
      BY <2>1, <2>3, <2>5
    <2>8. data # Failed /\ (blob.slice \notin written \/ now >= blob.expiry)
            => ref.commitment = createCommitment(data)
      BY <2>1, <2>5, <2>6
    <2> QED BY <2>7, <2>8 DEF data
  <1> QED BY <1>1, <1>2, StoreStep, PTL DEF DASpec

-----------------------------------------------------------------------------
(* HPKE *)

\* Mixing in a key again takes it out, and no other key does.
LEMMA XorTwice ==
    ASSUME NEW x, NEW y, NEW z
    PROVE  Xor(Xor(x, y), z) = x <=> y = z
  <1>1. \A e : e \in Xor(Xor(x, y), z) <=> ((e \in x <=> e \in y) <=> e \in z)
    BY DEF Xor
  <1>2. ASSUME Xor(Xor(x, y), z) = x PROVE y = z
    <2>1. \A e : e \in y <=> e \in z
      BY <1>1, <1>2
    <2> QED BY <2>1
  <1>3. ASSUME y = z PROVE Xor(Xor(x, y), z) = x
    BY <1>1, <1>3
  <1> QED BY <1>2, <1>3

\* A derived key is of the two secrets.
LEMMA DerivedSame ==
    ASSUME NEW e, NEW r, NEW p
    PROVE  derivedKey(e, r) = derivedKey(p, e) <=> r = p
  <1>1. derivedKey(e, r) = {[kind |-> "derived", of |-> {e, r}]}
        /\ derivedKey(p, e) = {[kind |-> "derived", of |-> {p, e}]}
    BY DEF derivedKey
  <1>2. {e, r} = {p, e} <=> r = p
    OBVIOUS
  <1>3. [kind |-> "derived", of |-> {e, r}] = [kind |-> "derived", of |-> {p, e}] <=> {e, r} = {p, e}
    OBVIOUS
  <1>4. \A a, b : {a} = {b} <=> a = b
    OBVIOUS
  <1> QED BY <1>1, <1>2, <1>3, <1>4

\* Open of Seal, at every index and with every key.
LEMMA OpenSeal ==
    ASSUME NEW plaintext, NEW recipients, NEW aad, NEW seed, NEW private, NEW i
    PROVE  Open(Seal(plaintext, recipients, aad, seed), private, i) =
             IF i \in DOMAIN recipients /\ recipients[i] = private THEN plaintext ELSE Failed
  <1> DEFINE env == Seal(plaintext, recipients, aad, seed)
             ck == RandomKey(seed)
  <1>1. /\ DOMAIN env.encapsulations = DOMAIN recipients
        /\ \A j \in DOMAIN recipients :
             env.encapsulations[j] = encapsulateContentKey(ck, seed + j, recipients[j])
        /\ env.ciphertext.key = ck /\ env.ciphertext.plaintext = plaintext
        /\ env.ciphertext.aad = aad /\ env.aad = aad
    BY DEF Seal
  <1> HIDE DEF env, ck
  <1>2. CASE i \in DOMAIN recipients
    <2> DEFINE encap == env.encapsulations[i]
               key == Xor(encap.sharedSecret, Decapsulate(encap.encapsulatedKey, private))
    <2>1. /\ encap.encapsulatedKey = seed + i
          /\ encap.sharedSecret = Xor(ck, derivedKey(seed + i, recipients[i]))
      BY <1>1, <1>2 DEF encapsulateContentKey, Encapsulate
    <2>2. key = Xor(Xor(ck, derivedKey(seed + i, recipients[i])), derivedKey(private, seed + i))
      BY <2>1 DEF Decapsulate
    <2>3. key = ck <=> recipients[i] = private
      BY <2>2, XorTwice, DerivedSame
    <2>4. Open(env, private, i) = IF key = ck THEN plaintext ELSE Failed
      BY <1>1, <1>2 DEF Open
    <2> QED BY <1>2, <2>3, <2>4 DEF env
  <1>3. CASE i \notin DOMAIN recipients
    BY <1>1, <1>3 DEF Open, env
  <1> QED BY <1>2, <1>3

\* Every envelope was made by Seal.
AllSealed ==
    \A s \in sealed : \E aad, seed : s.envelope = Seal(s.plaintext, s.recipients, aad, seed)

\* Seal and Open: for any keys and lists of recipients, and at any index.
THEOREM OnlyRecipientsOpen == DASpec => []RecipientsOpen
  <1>1. DAInit => AllSealed
    BY DEF DAInit, AllSealed
  <1>2. AllSealed /\ [DANext]_daVars => AllSealed'
    <2> SUFFICES ASSUME AllSealed, [DANext]_daVars PROVE AllSealed'
      OBVIOUS
    <2>1. CASE UNCHANGED sealed
      BY <2>1 DEF AllSealed
    <2>2. ASSUME NEW p \in Plaintexts, NEW recipients \in RecipientLists, NEW aad \in AADs,
                 EncryptAndStore(p, recipients, aad)
          PROVE  AllSealed'
      <3> DEFINE env == Seal(p, recipients, aad, seedOf(Len(blobs) + 1))
                 new == [envelope |-> env, plaintext |-> p, recipients |-> recipients]
      <3>1. sealed' = sealed \cup {new}
        BY <2>2 DEF EncryptAndStore
      <3>2. new.envelope = Seal(new.plaintext, new.recipients, aad, seedOf(Len(blobs) + 1))
        OBVIOUS
      <3> HIDE DEF new
      <3> QED BY <3>1, <3>2 DEF AllSealed
    <2> QED BY <2>1, <2>2 DEF DANext, daVars, StoreNew, StoreAgain, Write, Tick
  <1>3. AllSealed => RecipientsOpen
    BY OpenSeal DEF AllSealed, RecipientsOpen
  <1> QED BY <1>1, <1>2, <1>3, PTL DEF DASpec
=============================================================================
