------------------------------- MODULE Auction -------------------------------
(***************************************************************************)
(* auction/auction.go, a sealed-bid second-price auction.                   *)
(*                                                                          *)
(* RunAuction may be called at any time and any number of times: it does    *)
(* not look at EndTime and does not close the auction, and SubmitBid only   *)
(* looks at EndTime.  A commitment is the number its first eight bytes      *)
(* spell, or too short to be decrypted.  crypto.CreateCommitment, a hash,   *)
(* is the identity on the bytes it is given; ProofCorrect and PolicyRoot    *)
(* are left out, no property reads them.                                    *)
(***************************************************************************)
EXTENDS Integers, Sequences, FiniteSetsExt

CONSTANTS
    Bidders,
    Numbers,    \* commitments of eight bytes and more
    Short,      \* a commitment of one to seven bytes
    Empty,      \* a commitment of no bytes
    None,       \* no outcome, no header
    Reserve,    \* Auction.Reserve
    Modulus,    \* decryptBid reduces a commitment modulo this number (10000)
    FirstByte,  \* the first byte of a bidder's identifier; bidders may share it
    TwoBytes,   \* a header keeps amounts modulo this number (65536)
    MaxBids     \* bound on the number of bids

ASSUME AuctionAssumption ==
    /\ Numbers \subseteq Nat
    /\ Reserve \in Nat /\ Modulus \in Nat \ {0} /\ MaxBids \in Nat
    /\ FirstByte \in [Bidders -> Nat] /\ TwoBytes \in Nat \ {0}
    /\ {Short, Empty} \cap Numbers = {}

VARIABLES
    bids,       \* Auction.Bids
    outcome,    \* Auction.Outcome
    ended,      \* the clock is past Auction.EndTime
    counted,    \* history: how many bids the last RunAuction saw
    closed,     \* history: EndTime was past when RunAuction last ran
    header      \* the last header CreateAuctionHeader returned

vars == <<bids, outcome, ended, counted, closed, header>>

SealedBid == [bidder : Bidders, commitment : Numbers \cup {Short, Empty}]
DecryptedBid == [bidder : Bidders, value : Nat]
AuctionOutcome == [winner : Bidders, winningBid : Nat, clearingPrice : Nat]
AuctionHeader == [cmInputs : Seq(Numbers \cup {Short, Empty}),
                  cmWinner : [id : Nat, winningBid : Nat, clearingPrice : Nat]]

ASSUME NoneAssumption == None \notin DecryptedBid \cup AuctionOutcome

TypeOK ==
    /\ bids \in Seq(SealedBid)
    /\ outcome \in AuctionOutcome \cup {None}
    /\ ended \in BOOLEAN
    /\ counted \in 0..Len(bids)
    /\ closed \in BOOLEAN
    /\ header \in AuctionHeader \cup {None}

Init ==
    /\ bids = <<>>
    /\ outcome = None
    /\ ended = FALSE
    /\ counted = 0
    /\ closed = FALSE
    /\ header = None

-----------------------------------------------------------------------------

\* Mutant of SubmitBid: bids are taken after EndTime.
SubmitBidLate(bid, rangeProof) ==
    /\ Len(bids) < MaxBids
    /\ bids' = Append(bids, bid)
    /\ UNCHANGED <<outcome, ended, counted, closed, header>>

\* SubmitBid: until EndTime; verifyRangeProof, called when a range proof is
\* given, refuses an empty commitment.
SubmitBid(bid, rangeProof) ==
    /\ Len(bids) < MaxBids
    /\ ~ ended
    /\ rangeProof => bid.commitment # Empty
    /\ bids' = Append(bids, bid)
    /\ UNCHANGED <<outcome, ended, counted, closed, header>>

\* decryptBid, for the commitments it accepts.
decryptable(bid) == bid.commitment \in Numbers
decryptBid(bid) == [bidder |-> bid.bidder, value |-> bid.commitment % Modulus]

\* One round of the loop over the sealed bids: those that cannot be decrypted
\* are skipped, and those below the reserve.
keep(list, bid) ==
    IF decryptable(bid) /\ decryptBid(bid).value >= Reserve
      THEN Append(list, decryptBid(bid)) ELSE list

\* The list the loop makes, in the order the bids came.
validBids(sealed) ==
    LET list[k \in 0..Len(sealed)] ==
            IF k = 0 THEN <<>> ELSE keep(list[k - 1], sealed[k])
    IN  list[Len(sealed)]

\* Mutant of sortedBids: the sort compares the wrong way round.
ascendingBids(s) ==
    {[k \in DOMAIN s |-> s[p[k]]] :
       p \in {q \in [DOMAIN s -> DOMAIN s] :
                /\ \A j, k \in DOMAIN s : q[j] = q[k] => j = k
                /\ \A j, k \in DOMAIN s : j < k => s[q[j]].value <= s[q[k]].value}}

\* The ways sort.Slice may order bids by falling value: equal bids come in
\* any order, the sort being unstable.
sortedBids(s) ==
    {[k \in DOMAIN s |-> s[p[k]]] :
       p \in {q \in [DOMAIN s -> DOMAIN s] :
                /\ \A j, k \in DOMAIN s : q[j] = q[k] => j = k
                /\ \A j, k \in DOMAIN s : j < k => s[q[j]].value >= s[q[k]].value}}

\* RunAuction: the first of the sorted bids wins at the price of the second,
\* or at the reserve.  Without valid bids the auction stays as it is.
RunAuction ==
    /\ validBids(bids) # <<>>
    /\ \E sorted \in sortedBids(validBids(bids)) :
         outcome' = [winner |-> sorted[1].bidder,
                     winningBid |-> sorted[1].value,
                     clearingPrice |-> IF Len(sorted) > 1 THEN sorted[2].value ELSE Reserve]
    /\ counted' = Len(bids)
    /\ closed' = ended
    /\ UNCHANGED <<bids, ended, header>>

\* What a header has of the bids: their commitments, not the bidders.
cmInputs(sealed) == [k \in DOMAIN sealed |-> sealed[k].commitment]

\* What a header has of the outcome: one byte of the winner's identifier and
\* two bytes of each amount.
cmWinner(o) == [id |-> FirstByte[o.winner],
                winningBid |-> o.winningBid % TwoBytes,
                clearingPrice |-> o.clearingPrice % TwoBytes]

\* CreateAuctionHeader: commits to the bids there are now.
CreateAuctionHeader ==
    /\ outcome # None
    /\ header' = [cmInputs |-> cmInputs(bids), cmWinner |-> cmWinner(outcome)]
    /\ UNCHANGED <<bids, outcome, ended, counted, closed>>

\* The clock passes EndTime.
End ==
    /\ ~ ended
    /\ ended' = TRUE
    /\ UNCHANGED <<bids, outcome, counted, closed, header>>

Next ==
    \/ \E bid \in SealedBid, rangeProof \in BOOLEAN : SubmitBid(bid, rangeProof)
    \/ RunAuction
    \/ CreateAuctionHeader
    \/ End

Spec == Init /\ [][Next]_vars

-----------------------------------------------------------------------------
(* Properties *)

\* The reference: o is a correct outcome of a second-price auction over d, a
\* function from places to decrypted bids: the bid of some place k that no
\* other beats wins, and pays the highest of the reserve and the others.
SecondPriceOf(o, d) ==
    \E k \in DOMAIN d :
      /\ o.winner = d[k].bidder
      /\ o.winningBid = d[k].value
      /\ \A j \in DOMAIN d : d[j].value <= d[k].value
      /\ o.clearingPrice = Max({Reserve} \cup {d[j].value : j \in DOMAIN d \ {k}})

\* The same over sealed bids: of those that can be decrypted and reach the
\* reserve.
SecondPrice(o, s) ==
    LET valid == {k \in DOMAIN s : decryptable(s[k]) /\ decryptBid(s[k]).value >= Reserve}
    IN  SecondPriceOf(o, [k \in valid |-> decryptBid(s[k])])

\* RunAuction is a second-price auction over the bids it saw, whatever was
\* refused, undecryptable or below the reserve among them and however equal
\* bids are sorted; later bids do not change it.
OutcomeIsSecondPrice ==
    outcome # None => SecondPrice(outcome, SubSeq(bids, 1, counted))

\* CreateAuctionHeader: a header made after an auction that was run past its
\* EndTime commits to exactly the bids the outcome was computed from, and to
\* as much of that outcome as it has room for.
LateRunIsProven ==
    [][header' # header /\ closed =>
         /\ header'.cmInputs = cmInputs(bids)
         /\ header'.cmWinner = cmWinner(outcome)
         /\ SecondPrice(outcome, bids)]_vars
=============================================================================
