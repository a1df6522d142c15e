-------------------------- MODULE MCEscrowManager --------------------------
(* Instances of EscrowManager for TLC. *)
EXTENDS EscrowManager, TLC

Interchangeable ==
    Permutations(Campaigns) \cup Permutations(Reservations) \cup Permutations(Publishers)
=============================================================================
