-------------------------- MODULE FrequencyManager ---------------------------
(***************************************************************************)
(* core/frequency.go: device-local impression counters under a cap, and     *)
(* single-use privacy tokens.  Every operation holds fm.mu throughout.      *)
(*                                                                          *)
(* A commitment is what it commits to; bytes are numbers below Byte.  A     *)
(* token is its random part, never drawn twice, and its byte 16, which a    *)
(* redemption may overwrite.  The key of a counter, deviceID:campaignID,    *)
(* is the pair.  A counter keeps the cap of its first check, and no epoch   *)
(* resets it.                                                               *)
(***************************************************************************)
EXTENDS Integers, Sequences, FiniteSets, SequencesExt, GoMaps

CONSTANTS
    Devices, Campaigns,
    Caps,           \* frequency caps callers ask for
    Byte,           \* 256
    None,           \* no bucket, no proof
    BucketSizes,    \* numbers of tokens to issue
    MaxTokens,      \* bound on the tokens issued
    MaxEpoch        \* bound on the clock

ASSUME FrequencyAssumption ==
    /\ Caps \subseteq Nat /\ BucketSizes \subseteq Nat
    /\ Byte \in Nat \ {0} /\ MaxTokens \in Nat /\ MaxEpoch \in Nat
    /\ IsFiniteSet(Devices) /\ IsFiniteSet(Campaigns)

VARIABLES
    counters,   \* FrequencyManager.counters
    epochRoot,  \* FrequencyManager.epochRoot: the bytes it commits to
    tokens,     \* FrequencyManager.tokens
    epoch,      \* getCurrentEpoch
    freqProof,  \* the last FrequencyProof returned
    issued,     \* the number of tokens issued
    redeemed    \* history: how often each token was redeemed

freqVars == <<counters, epochRoot, tokens, epoch, freqProof, issued, redeemed>>
tokenVars == <<tokens, issued, redeemed>>

FreqInit ==
    /\ counters = NoEntries
    /\ epochRoot = <<>>
    /\ tokens = [c \in Campaigns |-> None]
    /\ epoch = 0
    /\ freqProof = None
    /\ issued = 0
    /\ redeemed = [t \in 1..MaxTokens |-> 0]

-----------------------------------------------------------------------------

\* Two bytes of a count.
Short16(n) == n % (Byte * Byte)

generateFrequencyProof(counter) ==
    [type |-> "counter", freqRoot |-> epochRoot, epochID |-> counter.epochID,
     proof |-> <<Short16(counter.count), Short16(counter.cap), 0>>]

\* updateEpochRoot: the low bytes of the counts in the order of a map
\* iteration, which is any order.
updateEpochRoot(cs) ==
    {[k \in DOMAIN order |-> cs[order[k]].count % Byte] : order \in SetToSeqs(DOMAIN cs)}

\* Mutant of counterFor: the cap of the call replaces the counter's.
counterUnder(key, cap) ==
    IF key \in DOMAIN counters THEN [counters[key] EXCEPT !.cap = cap]
    ELSE [count |-> 0, cap |-> cap, epochID |-> epoch]

\* The counter a check works on: the one that is there, or a new one.
counterFor(key, cap) == Get(counters, key, [count |-> 0, cap |-> cap, epochID |-> epoch])

\* Mutant of CheckAndIncrementCounter: the root is made before the increment.
CheckAndIncrementCounterRootFirst(device, campaign, cap) ==
    LET key == <<device, campaign>>
        counter == counterFor(key, cap)
        counted == [counter EXCEPT !.count = @ + 1]
    IN /\ IF counter.count < counter.cap
            THEN /\ counters' = Put(counters, key, counted)
                 /\ freqProof' = generateFrequencyProof(counter)
                 /\ epochRoot' \in updateEpochRoot(Put(counters, key, counter))
            ELSE counters' = Put(counters, key, counter) /\ UNCHANGED <<freqProof, epochRoot>>
       /\ UNCHANGED <<tokenVars, epoch>>

\* CheckAndIncrementCounter: a first check enters the counter whether it is
\* allowed or not; the proof is made before the increment and the root after.
CheckAndIncrementCounter(device, campaign, cap) ==
    LET key == <<device, campaign>>
        counter == counterFor(key, cap)
        counted == [counter EXCEPT !.count = @ + 1]
    IN /\ IF counter.count < counter.cap
            THEN /\ counters' = Put(counters, key, counted)
                 /\ freqProof' = generateFrequencyProof(counter)
                 /\ epochRoot' \in updateEpochRoot(counters')
            ELSE counters' = Put(counters, key, counter) /\ UNCHANGED <<freqProof, epochRoot>>
       /\ UNCHANGED <<tokenVars, epoch>>

\* IssueTokens: a bucket of fresh tokens replaces the campaign's bucket,
\* whichever device that was issued to.  The slice that is returned is the
\* bucket's own: what the code does to it through RedeemPrivacyToken is in
\* markRedeemed, what a caller may write to it itself is not modelled.
IssueTokens(device, campaign, count) ==
    /\ issued + count <= MaxTokens
    /\ \E byte16 \in [1..count -> 0..(Byte - 1)] :
         tokens' = [tokens EXCEPT ![campaign] =
           [epochID |-> epoch,
            tokens |-> [k \in 1..count |->
                          [id |-> issued + k, byte16 |-> byte16[k], redeemed |-> FALSE]]]]
    /\ issued' = issued + count
    /\ UNCHANGED <<counters, epochRoot, epoch, freqProof, redeemed>>

\* Mutant of markRedeemed: a copy of the token is marked.
markCopy(bucket, k, own) ==
    [bucket EXCEPT !.tokens[k].byte16 = IF own THEN bucket.epochID % Byte ELSE @]

\* The token is marked, and generateTokenProof appends the epoch to its first
\* 16 bytes, over byte 16 of the caller's slice; when that is the slice
\* IssueTokens returned, it is the stored token's.
markRedeemed(bucket, k, own) ==
    [bucket EXCEPT !.tokens[k].redeemed = TRUE,
                   !.tokens[k].byte16 = IF own THEN bucket.epochID % Byte ELSE @]

\* RedeemPrivacyToken: the caller presents the slice it was issued (own) or
\* other bytes, with a redemption proof of some length.
RedeemPrivacyToken(campaign, id, byte16, own) ==
    LET bucket == tokens[campaign] IN
    /\ bucket # None
    /\ \E k \in DOMAIN bucket.tokens :
         /\ bucket.tokens[k].id = id /\ bucket.tokens[k].byte16 = byte16
         /\ ~ bucket.tokens[k].redeemed
         /\ tokens' = [tokens EXCEPT ![campaign] = markRedeemed(bucket, k, own)]
    /\ freqProof' = [type |-> "token", freqRoot |-> epochRoot, epochID |-> bucket.epochID,
                     proof |-> <<id, bucket.epochID % Byte>>]
    /\ redeemed' = [redeemed EXCEPT ![id] = @ + 1]
    /\ UNCHANGED <<counters, epochRoot, epoch, issued>>

NextEpoch ==
    /\ epoch < MaxEpoch
    /\ epoch' = epoch + 1
    /\ UNCHANGED <<counters, epochRoot, tokenVars, freqProof>>

TokenNext ==
    \/ \E d \in Devices, c \in Campaigns, n \in BucketSizes : IssueTokens(d, c, n)
    \/ \E c \in Campaigns, id \in 1..issued, b \in 0..(Byte - 1), own \in BOOLEAN :
         RedeemPrivacyToken(c, id, b, own)
    \/ NextEpoch

-----------------------------------------------------------------------------
(* Properties *)

\* The epoch root commits to the low bytes of all the counts, in some order,
\* but for counts of zero: the first check under a cap of zero is refused and
\* leaves a counter the root does not have.
RootCommitsToCounts ==
    \A b \in 1..(Byte - 1) :
      Cardinality({k \in DOMAIN epochRoot : epochRoot[k] = b})
        = Cardinality({key \in DOMAIN counters : counters[key].count % Byte = b})

\* However tokens are issued again, presented as copies or as the issued
\* slice, overwritten and presented once more, each is redeemed at most once,
\* and a token the manager still has is marked exactly when it was.
TokensRedeemedOnce ==
    /\ \A id \in 1..MaxTokens : redeemed[id] <= 1
    /\ \A c \in Campaigns : tokens[c] # None =>
         \A t \in Range(tokens[c].tokens) : t.redeemed <=> redeemed[t.id] = 1
=============================================================================
