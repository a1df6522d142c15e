----------------------------- MODULE MCManagers ------------------------------
(* Instances of FrequencyCapping, BudgetManager and DataAvailability for TLC.  *)
(* Counters, tokens, both kinds of budgets and the blobs are kept apart by the *)
(* code, so a behaviour exercises one of the five.  Bytes have two values, so  *)
(* that counts wrap; one amount has the top bit of its word set.               *)
EXTENDS FrequencyCapping, BudgetManager, DataAvailability, TLC

CONSTANTS alice, bob

VARIABLE subject    \* what the behaviour is about

AnyDevice == Permutations(Devices)

NoShortDigests == {}
Lists == {<<>>, <<alice>>, <<alice, bob>>, <<bob, alice>>, <<bob, alice, bob>>, <<alice, BadKey>>}

MCInit ==
    /\ CappingInit /\ Init /\ DAInit
    /\ subject \in {"counters", "tokens", "proven budgets", "budgets", "blobs"}
    /\ subject # "blobs" => layer = "local"

MCNext ==
    /\ UNCHANGED subject
    /\ \/ /\ subject \in {"counters", "tokens", "proven budgets"}
          /\ CappingNext
          /\ UNCHANGED <<vars, daVars>>
          /\ subject # "counters" => UNCHANGED <<counters, haloFreqVars>>
          /\ subject # "tokens" => UNCHANGED tokenVars
          /\ subject # "proven budgets" => UNCHANGED budgetVars
       \/ subject = "budgets" /\ Next /\ UNCHANGED <<cappingVars, daVars>>
       \/ subject = "blobs" /\ DANext /\ UNCHANGED <<cappingVars, vars>>

MCSpec == MCInit /\ [][MCNext]_<<cappingVars, vars, daVars, subject>>
=============================================================================
