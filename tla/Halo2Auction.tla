---------------------------- MODULE Halo2Auction -----------------------------
(***************************************************************************)
(* auction/halo2_auction.go, Halo2Auction: an Auction whose run also makes  *)
(* a Halo2 proof and answers only when the proof verifies.                  *)
(*                                                                          *)
(* RunAuctionWithHalo2 stores the base outcome before it proves anything:   *)
(* a run that fails later has still decided the auction.  The bids of the   *)
(* witness are simulated, whatever was submitted; padding is with zeros.    *)
(***************************************************************************)
EXTENDS Auction, Halo2Circuits

CONSTANTS
    NumBids,                        \* the bids of the circuit (100)
    FirstSimulated, SimulatedStep   \* the simulated bids (100, 50)

ASSUME Halo2AuctionAssumption ==
    /\ NumBids \in Nat /\ FirstSimulated \in Nat /\ SimulatedStep \in Nat
    /\ Modulus < FieldModulus /\ 2 * Modulus <= Word /\ 2 * Reserve < Word

VARIABLES
    proofs,     \* Halo2Auction.proofs, with what each was made from (history)
    announced   \* the outcomes RunAuctionWithHalo2 returned (history)

haloVars == <<vars, proofs, announced>>

HaloInit == Init /\ proofs = {} /\ announced = {}

circuit == [numBids |-> NumBids, reserve |-> Reserve]

\* prepareWitness: the winner is the last bid of the winning bidder, -1 when
\* there is none; the second price comes from the simulated bids.
prepareWitness(o) ==
    LET simulated == [k \in DOMAIN bids |-> FirstSimulated + (k - 1) * SimulatedStep]
        below == {simulated[k] : k \in DOMAIN bids} \cap 0..(o.winningBid - 1)
    IN [bids |-> [k \in 1..Max({NumBids, Len(bids)}) |->
                    IF k <= Len(bids) THEN simulated[k] ELSE 0],
        winnerIndex |-> Max({0} \cup {k \in DOMAIN bids : bids[k].bidder = o.winner}) - 1,
        winningBid |-> o.winningBid,
        secondPrice |-> Max(below \cup {Reserve}),
        clearingPrice |-> o.clearingPrice]

\* RunAuctionWithHalo2: run, prove, store the proof, verify, answer.
RunAuctionWithHalo2 ==
    LET witness == prepareWitness(outcome')
        proof == AuctionProve(circuit, witness)
        run == [outcome |-> outcome', proof |-> proof, counted |-> counted']
    IN /\ RunAuction
       /\ IF AuctionProvable(circuit, witness)
            THEN /\ proofs' = proofs \cup {proof}
                 /\ announced' = IF AuctionVerify(circuit, outcome'.clearingPrice, proof)
                                   THEN announced \cup {run} ELSE announced
            ELSE UNCHANGED <<proofs, announced>>

\* VerifyHalo2Proof of a stored proof.
VerifyHalo2Proof(proof, clearingPrice) ==
    proof \in proofs /\ AuctionVerify(circuit, clearingPrice, proof)

HaloNext ==
    \/ Next /\ UNCHANGED <<proofs, announced>>
    \/ RunAuctionWithHalo2

HaloSpec == HaloInit /\ [][HaloNext]_haloVars

-----------------------------------------------------------------------------
(* Properties *)

\* Whatever bids, runs and failed runs came before or after, an announced
\* outcome is a second-price outcome over the bids its run saw, and its
\* stored proof verifies for its clearing price and for no other.
AnnouncedIsProven ==
    \A run \in announced :
      /\ SecondPrice(run.outcome, SubSeq(bids, 1, run.counted))
      /\ \A price \in 0..(Modulus - 1) :
           VerifyHalo2Proof(run.proof, price) <=> price = run.outcome.clearingPrice
=============================================================================
