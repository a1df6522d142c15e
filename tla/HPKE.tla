-------------------------------- MODULE HPKE ---------------------------------
(***************************************************************************)
(* crypto/hpke.go: an envelope one content key opens, the key wrapped once  *)
(* for every recipient.                                                     *)
(*                                                                          *)
(* X25519 of a private and a public key is the pair of the two secrets,     *)
(* in no order; what HKDF derives from it and random keys are independent   *)
(* words, and a string of 32 bytes is the set of the words XORed in it, so  *)
(* that XOR is the symmetric difference.  The AEAD opens what it sealed     *)
(* under the same key and the same additional data, and nothing else.       *)
(***************************************************************************)
EXTENDS Integers, Sequences

CONSTANTS
    PrivateKeys,    \* of the recipients
    BadKey,         \* a public key that is not of 32 bytes
    Failed          \* an error

Xor(x, y) == (x \ y) \cup (y \ x)

RandomKey(n) == {[kind |-> "random", of |-> {n}]}

\* X25519 and HKDF: the secrets of both sides make the key.
derivedKey(private, otherPrivate) == {[kind |-> "derived", of |-> {private, otherPrivate}]}

\* A public key is named by its private key.
Encapsulate(ephemeral, recipient) ==
    [encapsulatedKey |-> ephemeral, sharedSecret |-> derivedKey(ephemeral, recipient)]

Decapsulate(encapsulatedKey, private) == derivedKey(private, encapsulatedKey)

\* Mutant of encapsulateContentKey: the secret is not mixed with the key.
encapsulateContentKeyBare(contentKey, ephemeral, recipient) ==
    [encapsulatedKey |-> ephemeral, sharedSecret |-> contentKey]

encapsulateContentKey(contentKey, ephemeral, recipient) ==
    LET encap == Encapsulate(ephemeral, recipient)
    IN [encap EXCEPT !.sharedSecret = Xor(contentKey, @)]

\* Seal accepts one or more recipients, each with a key of 32 bytes.
Sealable(recipients) == recipients # <<>> /\ BadKey \notin {recipients[i] : i \in DOMAIN recipients}

\* Seal: the randomness is seed, the content key, and seed + i, the ephemeral
\* secret for recipient i.
Seal(plaintext, recipients, aad, seed) ==
    LET contentKey == RandomKey(seed)
    IN [encapsulations |-> [i \in DOMAIN recipients |->
                              encapsulateContentKey(contentKey, seed + i, recipients[i])],
        ciphertext |-> [key |-> contentKey, plaintext |-> plaintext, aad |-> aad],
        aad |-> aad]

\* Open with a private key and the index of a recipient, from 1.
Open(envelope, private, index) ==
    LET encap == envelope.encapsulations[index]
        contentKey == Xor(encap.sharedSecret, Decapsulate(encap.encapsulatedKey, private))
        sealed == envelope.ciphertext
    IN IF index \in DOMAIN envelope.encapsulations
          /\ sealed.key = contentKey /\ sealed.aad = envelope.aad
       THEN sealed.plaintext ELSE Failed
=============================================================================
