---------------------------- MODULE AUSDSettlement ----------------------------
(***************************************************************************)
(* pkg/settlement/ausd_settlement.go on top of EscrowRPC: auction wins      *)
(* become reservations of two seconds (others may reserve through the RPC   *)
(* with a time of their own), delivery proofs are collected per             *)
(* bucket (the quarter of an hour of the proof's own timestamp), and a      *)
(* reservation is settled by the proof that is not the first of its bucket  *)
(* or by BatchSettlement.                                                   *)
(*                                                                          *)
(* AUSDSettlement has no lock: its calls run one at a time, but the clock   *)
(* may move between two settlements of one batch.  A proof that             *)
(* validateDeliveryProof rejects changes nothing and is left out; of the    *)
(* others only the reservation and whether the viewability reaches 70       *)
(* matter.  The Merkle roots and the metrics are written and never read     *)
(* back by the settlement logic, and are left out.                          *)
(***************************************************************************)
EXTENDS EscrowRPC

CONSTANTS
    Buckets,        \* impression buckets
    Idle,           \* no BatchSettlement is running
    MaxProofs       \* bound on the proofs submitted for one reservation

ASSUME SettlementAssumption == Idle \notin Buckets /\ MaxProofs \in Nat

VARIABLES
    witnesses,      \* DeliveryOracle.witnesses
    batch,          \* the bucket BatchSettlement is working on, or Idle
    submitted,      \* history: the number of proofs accepted for a reservation
    delivered       \* history: reservations with a viewable proof accepted in time

settlementVars == <<witnesses, batch, submitted, delivered>>
vars == <<escrowVars, settlementVars>>

DeliveryProof == [reservation : Reservations, viewable : BOOLEAN]

TypeOK ==
    /\ EscrowTypeOK
    /\ witnesses \in [Buckets -> Seq(DeliveryProof)]
    /\ batch \in Buckets \cup {Idle}
    /\ submitted \in [Reservations -> 0..MaxProofs]
    /\ delivered \subseteq Reservations

Init ==
    /\ EscrowInit
    /\ witnesses = [b \in Buckets |-> <<>>]
    /\ batch = Idle
    /\ submitted = [r \in Reservations |-> 0]
    /\ delivered = {}

-----------------------------------------------------------------------------

\* getRequiredConfirmations
getRequiredConfirmations == 2

\* ProcessImpressionWin: a reservation that lives for two seconds.
ProcessImpressionWin(r, c, p, price) ==
    /\ batch = Idle
    /\ ReserveBudget(r, c, p, price, 2)
    /\ UNCHANGED settlementVars

\* settleImpression: SettleReceipt for a viewable proof; an error otherwise.
settleImpression(proof) ==
    IF proof.viewable /\ CanSettle(proof.reservation)
      THEN SettleReceipt(proof.reservation)
      ELSE UNCHANGED escrowVars

\* SubmitDeliveryProof: the proof joins its bucket; when the bucket then has
\* the required number of proofs, this one is settled at once.
SubmitDeliveryProof(proof, b) ==
    LET r == proof.reservation IN
    /\ batch = Idle
    /\ submitted[r] < MaxProofs
    /\ witnesses' = [witnesses EXCEPT ![b] = Append(@, proof)]
    /\ IF Len(witnesses'[b]) >= getRequiredConfirmations
         THEN settleImpression(proof)
         ELSE UNCHANGED escrowVars
    /\ submitted' = [submitted EXCEPT ![r] = @ + 1]
    /\ delivered' = delivered \cup IF proof.viewable /\ CanSettle(r) THEN {r} ELSE {}
    /\ UNCHANGED batch

\* Mutant of BatchSettle: only the latest proof of a bucket is settled.
BatchSettleLatest(b) ==
    /\ \A q \in Buckets \ {b} : batch = q => witnesses[q] = <<>>
    /\ witnesses[b] # <<>>
    /\ settleImpression(witnesses[b][Len(witnesses[b])])
    /\ witnesses' = [witnesses EXCEPT ![b] = <<>>]
    /\ batch' = b
    /\ UNCHANGED <<submitted, delivered>>

\* BatchSettlement goes through the buckets in any order and through the
\* proofs of a bucket in the order they came; each is dropped whether
\* settling it succeeds or not.
BatchSettle(b) ==
    /\ \A q \in Buckets \ {b} : batch = q => witnesses[q] = <<>>
    /\ witnesses[b] # <<>>
    /\ settleImpression(Head(witnesses[b]))
    /\ witnesses' = [witnesses EXCEPT ![b] = Tail(@)]
    /\ batch' = b
    /\ UNCHANGED <<submitted, delivered>>

BatchEnd ==
    /\ batch # Idle
    /\ \A b \in Buckets : witnesses[b] = <<>>
    /\ batch' = Idle
    /\ UNCHANGED <<escrowVars, witnesses, submitted, delivered>>

Next ==
    \/ batch = Idle /\ AdvertiserCalls /\ UNCHANGED settlementVars
    \/ batch = Idle /\ ReserveCalls /\ UNCHANGED settlementVars
    \/ \E r \in Reservations, c \in Campaigns, p \in Publishers, price \in Amounts :
         ProcessImpressionWin(r, c, p, price)
    \/ \E proof \in DeliveryProof, b \in Buckets : SubmitDeliveryProof(proof, b)
    \/ \E b \in Buckets : BatchSettle(b)
    \/ BatchEnd
    \/ Tick /\ UNCHANGED settlementVars

Spec == Init /\ [][Next]_vars

-----------------------------------------------------------------------------
(* Properties *)

\* However often a delivery is reported, in which buckets, and whether by
\* SubmitDeliveryProof or by a batch, it moves money once: reserved, spent and
\* owed amounts stay what the reservations say.
DeliveryPaidOnce ==
    /\ EveryCoinHasAReservation
    /\ PublishersPaidInFull

\* A viewable proof of the delivery for r waits in a bucket.
ProofWaits(r) ==
    \E b \in Buckets : \E k \in 1..Len(witnesses[b]) :
      witnesses[b][k].reservation = r /\ witnesses[b][k].viewable

\* A delivery reported in time by a viewable proof is lost to nothing but the
\* clock: until its reservation expires it is settled, or a proof of it waits.
DeliveryLostOnlyByExpiry ==
    \A r \in delivered :
      \/ Settled(r)
      \/ now > reservations[r].expires
      \/ ProofWaits(r)

\* What the settlement is for (ausd_settlement.go: "eliminating delivered but
\* not paid risk"): a delivery reported in time is settled, or a proof of it
\* waits and can still be settled.  Violated: no line schedules
\* BatchSettlement, and a proof that waits for longer than its reservation
\* lives is dropped unpaid.
DeliveredIsPaid ==
    \A r \in delivered : Settled(r) \/ (CanSettle(r) /\ ProofWaits(r))
=============================================================================
