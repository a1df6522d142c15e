-------------------------- MODULE DataAvailability ---------------------------
(***************************************************************************)
(* da/storage.go: blobs by reference, cached until they expire, and blobs   *)
(* sealed with HPKE first.                                                  *)
(*                                                                          *)
(* A blob keeps the caller's slice, and RetrieveBlob returns it: whoever    *)
(* has the slice can change what is stored.  heap holds the slices.  The    *)
(* layers differ only in fields no retrieval reads; all of them look the    *)
(* blob up again in the same map.  Every operation is one critical section; *)
(* writing to a slice takes no lock.  The map commits and the counters      *)
(* stored and retrieved only feed GetMetrics and are left out.              *)
(***************************************************************************)
EXTENDS HPKE, FiniteSets, SequencesExt

CONSTANTS
    Layers,
    Plaintexts, AADs,
    RecipientLists, \* recipients EncryptAndStore is called with
    MaxBlobSize,    \* in words of the serialised form
    BlobExpiration, \* life of a blob in the cache
    MaxBlobs, MaxTime   \* bounds

ASSUME DAAssumption ==
    /\ RecipientLists \subseteq Seq(PrivateKeys \cup {BadKey})
    /\ {MaxBlobSize, BlobExpiration, MaxBlobs, MaxTime} \subseteq Nat

VARIABLES
    layer,      \* DataAvailability.layer
    heap,       \* the contents of the slices
    blobs,      \* DataAvailability.blobs
    refs,       \* references StoreBlob returned
    now,
    sealed,     \* history: envelopes with what they were made from
    written     \* history: the slices that were written to

daVars == <<layer, heap, blobs, refs, now, sealed, written>>

DAInit ==
    /\ layer \in Layers
    /\ heap = <<>> /\ blobs = <<>> /\ refs = {}
    /\ now = 0
    /\ sealed = {} /\ written = {}

-----------------------------------------------------------------------------

\* Hashes of the data, alone and with a namespace.
createCommitment(data) == [of |-> data, namespace |-> ""]
createNMTRoot(data) == [of |-> data, namespace |-> "adx_v1"]

\* Mutant of reference: Celestia's root is taken for the commitment.
referenceOfRoot(id, data) ==
    [blobID |-> id, layer |-> layer,
     commitment |-> IF layer = "celestia" THEN createNMTRoot(data) ELSE createCommitment(data)]

\* storeEIP4844, storeCelestia, storeIPFS, storeLocal.
reference(id, data) == [blobID |-> id, layer |-> layer, commitment |-> createCommitment(data)]

\* StoreBlob of a slice in the heap h.
StoreBlob(h, slice) ==
    LET id == Len(blobs) + 1 IN
    /\ Len(blobs) < MaxBlobs
    /\ Len(h[slice]) <= MaxBlobSize
    /\ blobs' = Append(blobs, [slice |-> slice, expiry |-> now + BlobExpiration])
    /\ refs' = refs \cup {reference(id, h[slice])}
    /\ heap' = h
    /\ UNCHANGED <<layer, now, written>>

\* A caller stores new data, or a slice it has stored before.
StoreNew(data) == StoreBlob(Append(heap, data), Len(heap) + 1) /\ UNCHANGED sealed
StoreAgain(slice) == StoreBlob(heap, slice) /\ UNCHANGED sealed

\* serializeEnvelope: parts end to end, without their lengths.
serializeEnvelope(envelope) ==
    <<Len(envelope.encapsulations)>>
      \o FlattenSeq([i \in DOMAIN envelope.encapsulations |->
                       <<envelope.encapsulations[i].encapsulatedKey,
                         envelope.encapsulations[i].sharedSecret>>])
      \o <<envelope.ciphertext, envelope.aad>>

\* What slices hold: plaintexts, and envelopes of one seed per blob, larger
\* than any list of recipients.
seedOf(id) == 10 * id

Data ==
    {<<p>> : p \in Plaintexts}
      \cup {serializeEnvelope(Seal(p, recipients, aad, seedOf(id))) :
               p \in Plaintexts, recipients \in {r \in RecipientLists : Sealable(r)},
               aad \in AADs, id \in 1..MaxBlobs}

ASSUME FailedAssumption == Failed \notin Data

\* EncryptAndStore: an envelope for the recipients, in a slice of its own.
EncryptAndStore(plaintext, recipients, aad) ==
    LET envelope == Seal(plaintext, recipients, aad, seedOf(Len(blobs) + 1)) IN
    /\ Sealable(recipients)
    /\ StoreBlob(Append(heap, serializeEnvelope(envelope)), Len(heap) + 1)
    /\ sealed' = sealed \cup {[envelope |-> envelope, plaintext |-> plaintext,
                               recipients |-> recipients]}

\* What RetrieveBlob gives: from the cache as it is; later from the layer, and
\* checked.
RetrieveBlob(ref) ==
    LET blob == blobs[ref.blobID]
        data == heap[blob.slice]
    IN IF ref.blobID \in DOMAIN blobs
          /\ (now < blob.expiry \/ createCommitment(data) = ref.commitment)
       THEN data ELSE Failed

\* Whoever has a slice writes to it, with no lock.
Write(slice, data) ==
    /\ heap[slice] # data
    /\ heap' = [heap EXCEPT ![slice] = data]
    /\ written' = written \cup {slice}
    /\ UNCHANGED <<layer, blobs, refs, now, sealed>>

Tick ==
    /\ now < MaxTime
    /\ now' = now + 1
    /\ UNCHANGED <<layer, heap, blobs, refs, sealed, written>>

DANext ==
    \/ \E p \in Plaintexts : StoreNew(<<p>>)
    \/ \E slice \in DOMAIN heap : StoreAgain(slice)
    \/ \E p \in Plaintexts, recipients \in RecipientLists, aad \in AADs :
         EncryptAndStore(p, recipients, aad)
    \/ \E slice \in DOMAIN heap, p \in Plaintexts : Write(slice, <<p>>)
    \/ Tick

DASpec == DAInit /\ [][DANext]_daVars

-----------------------------------------------------------------------------
(* Properties *)

\* Data nobody wrote to is returned as it was committed to, from the cache
\* and after it expired, through every layer; data somebody did write to is
\* never returned once the blob expired, unless it is the same again.
ReadsAreCommitted ==
    \A ref \in refs :
      LET blob == blobs[ref.blobID]
          data == RetrieveBlob(ref)
      IN /\ blob.slice \notin written => data # Failed
         /\ data # Failed /\ (blob.slice \notin written \/ now >= blob.expiry)
              => ref.commitment = createCommitment(data)

\* Each recipient opens an envelope at its own index, whatever the other
\* recipients are and whatever else was sealed for it, and nobody opens one
\* at the index of another.
RecipientsOpen ==
    \A s \in sealed, private \in PrivateKeys, i \in 1..3 :
      Open(s.envelope, private, i) =
        IF i \in DOMAIN s.recipients /\ s.recipients[i] = private THEN s.plaintext ELSE Failed
=============================================================================
