------------------------------- MODULE Enclave -------------------------------
(***************************************************************************)
(* tee/enclave.go: a second implementation of the auction of auction.go,    *)
(* run inside a trusted execution environment on bids only the enclave can  *)
(* decrypt.                                                                 *)
(*                                                                          *)
(* NewEnclave fails unless it has attested, so Attested holds.  decryptBid  *)
(* is a simulation: a bid of sixteen bytes and more gives a random value    *)
(* and a new bidder, whatever its bytes are, and a shorter one is skipped;  *)
(* so the decrypted bids are any list.  Measurements, quotes, sealing and   *)
(* the transcript are left out, and the metrics.                            *)
(***************************************************************************)
EXTENDS Auction

CONSTANTS
    Intn,           \* decryptBid draws values below this number (1000)
    MaxEncrypted    \* the most bids RunAuction accepts (1000)

ASSUME EnclaveAssumption == Intn \in Nat /\ MaxEncrypted \in Nat

VARIABLE
    sealed      \* the entry of Enclave.auctions for the auction, or None; with
                \* the decrypted bids (history)

\* The outcome when no bid reaches the reserve: ids.Empty and zeros.
NoWinner == [winner |-> None, winningBid |-> 0, clearingPrice |-> 0]

\* Mutant of enclavePass: a beaten highest bid is forgotten.
enclavePassForgets(best, bid) ==
    CASE bid.value < Reserve -> best
      [] bid.value >= Reserve /\ (best.highest = None \/ bid.value > best.highest.value) ->
           [best EXCEPT !.highest = bid]
      [] OTHER ->
           IF best.second = None \/ bid.value > best.second.value
             THEN [best EXCEPT !.second = bid] ELSE best

\* One pass over the decrypted bids: the highest and the second highest.
enclavePass(best, bid) ==
    CASE bid.value < Reserve -> best
      [] bid.value >= Reserve /\ (best.highest = None \/ bid.value > best.highest.value) ->
           [highest |-> bid, second |-> best.highest]
      [] OTHER ->
           IF best.second = None \/ bid.value > best.second.value
             THEN [best EXCEPT !.second = bid] ELSE best

\* The outcome after the pass over all decrypted bids.
runSecondPriceAuction(decrypted) ==
    LET best[k \in 0..Len(decrypted)] ==
            IF k = 0 THEN [highest |-> None, second |-> None]
            ELSE enclavePass(best[k - 1], decrypted[k])
        last == best[Len(decrypted)]
    IN  IF last.highest = None THEN NoWinner
        ELSE [winner |-> last.highest.bidder,
              winningBid |-> last.highest.value,
              clearingPrice |-> IF last.second = None THEN Reserve ELSE last.second.value]

\* NewEnclave.
EnclaveInit == sealed = None

\* What Enclave.decryptBid may give for n bids of sixteen bytes and more.
decryptions(n) == [1..n -> [bidder : Bidders, value : 0..(Intn - 1)]]

\* Enclave.RunAuction on bids of which n are long enough.  The auction is
\* stored, over an earlier one of the same identifier, with or without a
\* winner.
EnclaveRunAuction(n) ==
    /\ n <= MaxEncrypted
    /\ \E decrypted \in decryptions(n) :
         sealed' = [bids |-> decrypted, outcome |-> runSecondPriceAuction(decrypted)]

EnclaveNext == \E n \in 0..MaxBids : EnclaveRunAuction(n)

EnclaveSpec == EnclaveInit /\ [][EnclaveNext]_sealed

-----------------------------------------------------------------------------
(* Properties *)

\* Enclave.runSecondPriceAuction: the running maxima of the single pass give a
\* second-price outcome of the decrypted bids, and the empty outcome exactly
\* when no bid reaches the reserve.
EnclaveAgrees ==
    sealed # None =>
      LET valid == {k \in DOMAIN sealed.bids : sealed.bids[k].value >= Reserve}
      IN  IF valid = {} THEN sealed.outcome = NoWinner
          ELSE SecondPriceOf(sealed.outcome, [k \in valid |-> sealed.bids[k]])
=============================================================================
