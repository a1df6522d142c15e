------------------------------ MODULE MCChainVM ------------------------------
(* Instances of AUSDSettlement and AdSlots for TLC.  The two services share no *)
(* state, so they are explored side by side and not in their product: one runs *)
(* while the other has not been called yet.  Of the ad slots there is one,     *)
(* because slots share nothing, with calls before, in and after its window.    *)
EXTENDS AUSDSettlement, AdSlots, TLC

MCDeals == {-5, 5}
MCWindows == {[start |-> 1, end |-> 2]}
MCLiquidities == {-1, 2}

ChainVMInit == Init /\ SlotsInit
ChainVMNext ==
    \/ SlotsInit /\ Next /\ UNCHANGED slotsVars
    \/ Init /\ SlotsNext /\ UNCHANGED vars
ChainVMSpec == ChainVMInit /\ [][ChainVMNext]_<<vars, slotsVars>>

Interchangeable ==
    Permutations(Reservations) \cup Permutations(Buckets) \cup Permutations(Publishers)
=============================================================================
