----------------------------- MODULE MCAuction -----------------------------
(* Instances of Auction with its Halo2 proofs and of Enclave for TLC.  The    *)
(* auction and the enclave share no state, so they are explored side by side  *)
(* and not in their product.  The circuit has room for fewer bids than are    *)
(* submitted, so that it is underfull, full and overfull; one quotient's      *)
(* digest is short; the bidders share the byte that headers keep.             *)
EXTENDS Halo2Auction, Enclave, TLC

AnyBidder == Permutations(Bidders)

OneShortDigest == {Hash(<<3>>)}
SameByte == [b \in Bidders |-> 0]

AuctionsInit == HaloInit /\ EnclaveInit
AuctionsNext ==
    \/ EnclaveInit /\ HaloNext /\ UNCHANGED sealed
    \/ HaloInit /\ EnclaveNext /\ UNCHANGED haloVars
AuctionsSpec == AuctionsInit /\ [][AuctionsNext]_<<haloVars, sealed>>
=============================================================================
