-------------------------- MODULE FrequencyCapping ---------------------------
(***************************************************************************)
(* The two frequency managers side by side: FrequencyManager and            *)
(* Halo2FrequencyManager are given the same checks, so that their answers   *)
(* can be compared; tokens, epochs and budgets go their own way.            *)
(***************************************************************************)
EXTENDS FrequencyManager, Halo2Managers

ASSUME CapsAssumption == \A cap \in Caps : cap < FieldModulus

VARIABLE
    asked       \* history: the caps each device and campaign was checked under, in order

cappingVars == <<freqVars, budgetVars, haloFreqVars, asked>>

CappingInit == FreqInit /\ HaloInit /\ asked = [k \in Devices \X Campaigns |-> <<>>]

\* Both managers are asked; a cap that was asked for before is not noted again.
Check(device, campaign, cap) ==
    LET key == <<device, campaign>> IN
    /\ CheckAndIncrementCounter(device, campaign, cap)
    /\ CheckAndIncrementWithProof(key, campaign, cap)
    /\ asked' = [asked EXCEPT ![key] = IF cap \in Range(@) THEN @ ELSE Append(@, cap)]

Deduct(a, amount) == DeductBudgetWithProof(a, amount) /\ UNCHANGED <<freqVars, asked>>

Token == TokenNext /\ UNCHANGED <<budgetVars, haloFreqVars, asked>>

CappingNext ==
    \/ \E d \in Devices, c \in Campaigns, cap \in Caps : Check(d, c, cap)
    \/ \E a \in HaloAdvertisers, amount \in Amounts : Deduct(a, amount)
    \/ Token

CappingSpec == CappingInit /\ [][CappingNext]_cappingVars

-----------------------------------------------------------------------------

\* Both managers cap impressions: the first at the cap of the first check,
\* the second at the largest cap asked for; under a cap that does not change
\* they have allowed the same impressions, across all epochs.
ManagersAgree ==
    \A key \in Devices \X Campaigns :
      /\ key \in DOMAIN counters <=> key \in DOMAIN haloCounters
      /\ key \in DOMAIN counters =>
           LET caps == asked[key] IN
           /\ counters[key].count <= Head(caps)
           /\ haloCounters[key] <= Max(Range(caps))
           /\ Len(caps) = 1 => counters[key].count = haloCounters[key]
=============================================================================
