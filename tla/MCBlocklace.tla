----------------------------- MODULE MCBlocklace -----------------------------
(***************************************************************************)
(* Instances of Blocklace for TLC.  Identifiers, miners and the concurrent  *)
(* calls of a miner are interchangeable; the symmetry set is used by the    *)
(* safety runs only.                                                        *)
(***************************************************************************)
EXTENDS Blocklace, TLC

Interchangeable ==
    Permutations(Ids) \cup Permutations(Honest)
      \cup Permutations(Callers) \cup Permutations(Handlers)
=============================================================================
