---------------------------- MODULE Halo2Managers ----------------------------
(***************************************************************************)
(* auction/halo2_auction.go, Halo2BudgetManager and Halo2FrequencyManager:  *)
(* budgets and impression counters whose every change comes with a proof.   *)
(* Every operation holds the manager's mutex throughout.                    *)
(*                                                                          *)
(* Amounts are unsigned words that are read as signed ones: an amount with  *)
(* the top bit set raises the budget.  Budgets are big integers, and the    *)
(* NewBudget a proof reports is their low word.  proofs keeps, per account, *)
(* the proofs that were returned, in order.                                 *)
(***************************************************************************)
EXTENDS Halo2Circuits, SequencesExt, GoMaps

CONSTANTS
    HaloAdvertisers,
    Amounts,        \* amounts to deduct
    DefaultBudget,  \* the budget of an advertiser seen for the first time (10000)
    MaxDeductions   \* bound on the deductions of an advertiser

ASSUME Halo2ManagersAssumption ==
    /\ Amounts \subseteq 0..(Word - 1)
    /\ DefaultBudget \in Nat /\ MaxDeductions \in Nat
    /\ DefaultBudget + MaxDeductions * Word < FieldModulus

VARIABLES
    haloBudgets,    \* Halo2BudgetManager.budgets
    budgetProofs,   \* the proofs DeductBudgetWithProof returned
    circuits,       \* the caps Halo2FrequencyManager has a circuit for
    haloCounters,   \* Halo2FrequencyManager.counters
    haloCaps,       \* Halo2FrequencyManager.caps
    counterProofs   \* the proofs CheckAndIncrementWithProof returned

budgetVars == <<haloBudgets, budgetProofs>>
haloFreqVars == <<circuits, haloCounters, haloCaps, counterProofs>>

HaloInit ==
    /\ haloBudgets = NoEntries
    /\ budgetProofs = [a \in HaloAdvertisers |-> <<>>]
    /\ circuits = {}
    /\ haloCounters = NoEntries
    /\ haloCaps = NoEntries
    /\ counterProofs = NoEntries

-----------------------------------------------------------------------------
(* Halo2BudgetManager *)

\* Mutant of budgetProof: the commitment to the new budget is the one to delta.
budgetProofWrongCommit(amount, new, proof) ==
    [delta |-> amount, newBudget |-> new % Word, proof |-> proof,
     oldCommit |-> proof.commitments[1], newCommit |-> proof.commitments[2]]

budgetProof(amount, new, proof) ==
    [delta |-> amount, newBudget |-> new % Word, proof |-> proof,
     oldCommit |-> proof.commitments[1], newCommit |-> proof.commitments[3]]

\* DeductBudgetWithProof: the first call enters the default budget, and
\* leaves it there when the deduction is refused.
DeductBudgetWithProof(a, amount) ==
    LET current == Get(haloBudgets, a, DefaultBudget)
        delta == Signed(amount)
        new == current - delta
    IN /\ Len(budgetProofs[a]) < MaxDeductions
       /\ IF new >= 0 /\ BudgetProvable(current, delta, new)
            THEN /\ haloBudgets' = Put(haloBudgets, a, new)
                 /\ budgetProofs' = [budgetProofs EXCEPT ![a] =
                      Append(@, budgetProof(amount, new, BudgetProve(current, delta, new)))]
            ELSE /\ haloBudgets' = Put(haloBudgets, a, current)
                 /\ UNCHANGED budgetProofs
       /\ UNCHANGED haloFreqVars

VerifyBudgetProof(p) == BudgetVerify(p.delta, p.proof)

-----------------------------------------------------------------------------
(* Halo2FrequencyManager *)

\* Mutant of withCircuit: one circuit is kept, for the last cap.
onlyCircuit(cap) == {cap}

\* The circuits once there is one for cap.
withCircuit(cap) == circuits \cup {cap}

\* CheckAndIncrementWithProof: one circuit per cap, made when the cap is first
\* asked for; one counter per device and campaign, under the cap of the call.
CheckAndIncrementWithProof(key, campaign, cap) ==
    LET counter == Get(haloCounters, key, 0)
        known == Get(counterProofs, key, <<>>)
    IN /\ circuits' = withCircuit(cap)
       /\ IF counter < cap /\ FrequencyProvable(cap, counter, counter + 1)
            THEN /\ haloCounters' = Put(haloCounters, key, counter + 1)
                 /\ haloCaps' = Put(haloCaps, campaign, cap)
                 /\ counterProofs' = Put(counterProofs, key,
                      Append(known, [cap |-> cap, newCounter |-> counter + 1,
                                     proof |-> FrequencyProve(counter, counter + 1)]))
            ELSE /\ haloCounters' = Put(haloCounters, key, counter)
                 /\ UNCHANGED <<haloCaps, counterProofs>>
       /\ UNCHANGED budgetVars

VerifyFrequencyProof(p) == p.cap \in circuits /\ FrequencyVerify(p.cap, p.proof)

-----------------------------------------------------------------------------
(* Properties *)

\* The proofs of an advertiser verify and form one chain from the default
\* budget to the budget there is, each from where the one before ended, the
\* deltas adding up to the difference; one that reports another budget than it
\* commits to does so only past a word.
BudgetIsProven(a) == LET ps == budgetProofs[a] IN
    /\ haloBudgets[a] >= 0
    /\ haloBudgets[a] = DefaultBudget - SumFunctionOnSet([k \in DOMAIN ps |-> Signed(ps[k].delta)], DOMAIN ps)
    /\ Hash(<<haloBudgets[a]>>) = IF ps = <<>> THEN Hash(<<DefaultBudget>>) ELSE Last(ps).newCommit
    /\ \A k \in DOMAIN ps :
         /\ VerifyBudgetProof(ps[k])
         /\ ps[k].oldCommit = IF k = 1 THEN Hash(<<DefaultBudget>>) ELSE ps[k-1].newCommit
         /\ ps[k].newCommit = Hash(<<ps[k].newBudget>>) \/ ps[k].proof.newBudget >= Word

\* Every impression that was counted has its own proof, made under a cap it
\* was below, and it still verifies after other caps were asked for.
CounterIsProven(key) == LET ps == counterProofs[key] IN
    /\ Len(ps) = haloCounters[key]
    /\ \A k \in DOMAIN ps :
         /\ VerifyFrequencyProof(ps[k])
         /\ ps[k].newCounter = k
         /\ ps[k].proof.commitments = <<Hash(<<k - 1>>), Hash(<<k>>)>>

\* Halo2BudgetManager and Halo2FrequencyManager: however deductions, caps and
\* refusals mix, the state of an account is what its chain of proofs shows.
StateIsProven ==
    /\ \A a \in DOMAIN haloBudgets : BudgetIsProven(a)
    /\ \A key \in DOMAIN counterProofs : CounterIsProven(key)
=============================================================================
