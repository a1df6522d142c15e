---------------------------- MODULE Halo2Circuits ----------------------------
(***************************************************************************)
(* proof/halo2/circuits.go: the auction, budget and frequency circuits as   *)
(* functions from a witness to a proof and from a proof to a verdict.       *)
(*                                                                          *)
(* A digest is the three words Poseidon starts from: the inputs reduced     *)
(* modulo the field and padded with zeros, which is all a hash that does    *)
(* not collide tells apart.  Its bytes are written without leading zeros,   *)
(* so some digests are shorter than 32 bytes: ShortDigests.  Proving and    *)
(* verifying keys are read by neither Prove nor Verify and are left out, as *)
(* are the opening proofs, of which only the length, always 32, is checked. *)
(***************************************************************************)
EXTENDS Integers, Sequences, FiniteSets, FiniteSetsExt

CONSTANTS
    FieldModulus,   \* the modulus of the scalar field
    ShortDigests,   \* digests whose first byte is zero
    Word            \* 2^64

ASSUME CircuitsAssumption ==
    /\ FieldModulus \in Nat \ {0}
    /\ Word \in Nat \ {0} /\ Word % 2 = 0

\* int64 of an unsigned word.
Signed(x) == IF x < Word \div 2 THEN x ELSE x - Word

FieldAdd(a, b) == (a + b) % FieldModulus
FieldSub(a, b) == (a - b) % FieldModulus

Hash(inputs) == [i \in 1..3 |-> IF i <= Len(inputs) THEN inputs[i] % FieldModulus ELSE 0]

-----------------------------------------------------------------------------
(* AuctionCircuit: ac is the circuit, with its NumBids and Reserve *)

\* The winner beats the others and pays the second price, added up: a sum
\* that no Verify compares with anything.
computeQuotient(ac, w) ==
    LET others == DOMAIN w.bids \ {w.winnerIndex + 1}
        beaten == MapThenSumSet(LAMBDA k : FieldSub(w.winningBid, w.bids[k]), others)
        price == IF w.secondPrice < ac.reserve THEN ac.reserve ELSE w.secondPrice
    IN FieldAdd(beaten, FieldSub(w.clearingPrice, price))

AuctionProvable(ac, w) == w.winnerIndex < ac.numBids

AuctionProve(ac, w) ==
    [commitments |-> [k \in DOMAIN w.bids |-> Hash(<<w.bids[k]>>)]
                       \o <<Hash(<<w.winnerIndex, w.winningBid>>), Hash(<<w.clearingPrice>>)>>,
     quotient |-> Hash(<<computeQuotient(ac, w)>>),
     winnerBid |-> w.winningBid,
     clearingPrice |-> w.clearingPrice]

\* Mutant of AuctionVerify: the price is not compared.
AuctionVerifyAnyPrice(ac, clearingPrice, proof) ==
    /\ Len(proof.commitments) >= ac.numBids + 2
    /\ proof.quotient \notin ShortDigests

AuctionVerify(ac, clearingPrice, proof) ==
    /\ Len(proof.commitments) >= ac.numBids + 2
    /\ proof.clearingPrice = Signed(clearingPrice)
    /\ proof.quotient \notin ShortDigests

-----------------------------------------------------------------------------
(* BudgetCircuit *)

BudgetProvable(old, delta, new) == FieldSub(old, delta) = new /\ new >= 0

BudgetProve(old, delta, new) ==
    [commitments |-> <<Hash(<<old>>), Hash(<<delta>>), Hash(<<new>>)>>,
     delta |-> delta, newBudget |-> new]

BudgetVerify(delta, proof) ==
    /\ Len(proof.commitments) = 3
    /\ proof.delta = Signed(delta)

-----------------------------------------------------------------------------
(* FrequencyCircuit *)

FrequencyProvable(cap, before, after) == FieldAdd(before, 1) = after /\ after <= cap

FrequencyProve(before, after) ==
    [commitments |-> <<Hash(<<before>>), Hash(<<after>>)>>, counterAfter |-> after]

FrequencyVerify(cap, proof) ==
    /\ Len(proof.commitments) = 2
    /\ proof.counterAfter <= cap
=============================================================================
