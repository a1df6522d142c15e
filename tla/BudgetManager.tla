---------------------------- MODULE BudgetManager ----------------------------
(***************************************************************************)
(* settlement/budget.go: the budgets of advertisers, what was deducted and  *)
(* not yet settled, and the settlement receipts.  Every method holds the    *)
(* manager's mutex, so each is one step.  Amounts are uint64 in the code    *)
(* and numbers below MaxUint here; only the pending counter can wrap.       *)
(*                                                                          *)
(* A commitment is an injective function of what it commits to.  The budget *)
(* header repeats the commitments of the proof it is made from.             *)
(***************************************************************************)
EXTENDS Integers, Sequences, Functions

CONSTANTS
    Advertisers, Publishers,
    MaxUint,        \* uint64 values are 0..MaxUint-1
    NoBudget,       \* an advertiser without an entry in budgets
    NoProof,        \* no deduction since the budget was set
    MaxReceipts,    \* bound on the number of receipts
    MaxCharged      \* bound on what one advertiser is charged altogether

Uint == 0..(MaxUint - 1)

ASSUME BudgetAssumption ==
    /\ MaxUint \in Nat \ {0}
    /\ MaxReceipts \in Nat
    /\ MaxCharged \in Nat

VARIABLES
    budgets,    \* BudgetManager.budgets
    pending,    \* BudgetManager.pending (0 when there is no entry)
    receipts,   \* BudgetManager.receipts
    proof,      \* history: the last BudgetProof since the budget was set
    charged     \* history: all that was ever deducted from an advertiser

vars == <<budgets, pending, receipts, proof, charged>>

Commitment == [total : Uint, spent : Uint, remaining : Uint]
Budget == [total : Uint, spent : Uint, remaining : Uint, commitment : Commitment]
Receipt == [advertiser : Advertisers, publisher : Publishers, amount : Uint]
BudgetProof == [prev : Commitment, new : Commitment, delta : Uint]

ASSUME NoBudgetAssumption == NoBudget \notin Budget /\ NoProof \notin BudgetProof

TypeOK ==
    /\ budgets \in [Advertisers -> Budget \cup {NoBudget}]
    /\ pending \in [Advertisers -> Uint]
    /\ receipts \in Seq(Receipt)
    /\ proof \in [Advertisers -> BudgetProof \cup {NoProof}]
    /\ charged \in [Advertisers -> Nat]

Init ==
    /\ budgets = [a \in Advertisers |-> NoBudget]
    /\ pending = [a \in Advertisers |-> 0]
    /\ receipts = <<>>
    /\ proof = [a \in Advertisers |-> NoProof]
    /\ charged = [a \in Advertisers |-> 0]

-----------------------------------------------------------------------------

\* createBudgetCommitment
createBudgetCommitment(total, spent, remaining) ==
    [total |-> total, spent |-> spent, remaining |-> remaining]

budgetOf(total, spent, remaining) ==
    [total |-> total, spent |-> spent, remaining |-> remaining,
     commitment |-> createBudgetCommitment(total, spent, remaining)]

\* Mutant of SetBudget: what is pending is dropped.
SetBudgetDropsPending(a, amount) ==
    /\ budgets' = [budgets EXCEPT ![a] = budgetOf(amount, 0, amount)]
    /\ proof' = [proof EXCEPT ![a] = NoProof]
    /\ pending' = [pending EXCEPT ![a] = 0]
    /\ UNCHANGED <<receipts, charged>>

\* Mutant of SetBudget: the budget is topped up and what was spent is kept.
SetBudgetTopUp(a, amount) ==
    /\ budgets' = [budgets EXCEPT ![a] =
         IF @ = NoBudget THEN budgetOf(amount, 0, amount) ELSE budgetOf(amount, @.spent, amount)]
    /\ proof' = [proof EXCEPT ![a] = NoProof]
    /\ UNCHANGED <<pending, receipts, charged>>

\* SetBudget: a new budget replaces the old one; what is pending stays.
SetBudget(a, amount) ==
    /\ budgets' = [budgets EXCEPT ![a] = budgetOf(amount, 0, amount)]
    /\ proof' = [proof EXCEPT ![a] = NoProof]
    /\ UNCHANGED <<pending, receipts, charged>>

\* Mutant of DeductBudget: the proof ends at the commitment it started from.
DeductBudgetStaleProof(a, amount) ==
    /\ budgets[a] # NoBudget
    /\ budgets[a].remaining >= amount
    /\ charged[a] + amount <= MaxCharged
    /\ budgets' = [budgets EXCEPT ![a] =
         budgetOf(@.total, (@.spent + amount) % MaxUint, @.remaining - amount)]
    /\ proof' = [proof EXCEPT ![a] =
         [prev |-> budgets[a].commitment, new |-> budgets[a].commitment, delta |-> amount]]
    /\ pending' = [pending EXCEPT ![a] = (@ + amount) % MaxUint]
    /\ charged' = [charged EXCEPT ![a] = @ + amount]
    /\ UNCHANGED receipts

\* DeductBudget: move the amount from remaining to spent, prove the change
\* and remember the amount as pending.
DeductBudget(a, amount) ==
    /\ budgets[a] # NoBudget
    /\ budgets[a].remaining >= amount
    /\ charged[a] + amount <= MaxCharged
    /\ LET new == budgetOf(budgets[a].total, (budgets[a].spent + amount) % MaxUint,
                           budgets[a].remaining - amount)
       IN /\ budgets' = [budgets EXCEPT ![a] = new]
          /\ proof' = [proof EXCEPT ![a] =
               [prev |-> budgets[a].commitment, new |-> new.commitment, delta |-> amount]]
    /\ pending' = [pending EXCEPT ![a] = (@ + amount) % MaxUint]
    /\ charged' = [charged EXCEPT ![a] = @ + amount]
    /\ UNCHANGED receipts

\* CreateSettlement: everything pending goes into one receipt for one publisher.
CreateSettlement(a, p) ==
    /\ pending[a] # 0
    /\ Len(receipts) < MaxReceipts
    /\ receipts' = Append(receipts, [advertiser |-> a, publisher |-> p, amount |-> pending[a]])
    /\ pending' = [pending EXCEPT ![a] = 0]
    /\ UNCHANGED <<budgets, proof, charged>>

Next ==
    \/ \E a \in Advertisers, amount \in Uint : SetBudget(a, amount)
    \/ \E a \in Advertisers, amount \in Uint : DeductBudget(a, amount)
    \/ \E a \in Advertisers, p \in Publishers : CreateSettlement(a, p)

Spec == Init /\ [][Next]_vars

-----------------------------------------------------------------------------
(* Properties *)

\* Nothing is spent that is not in the budget: remaining and spent add up to
\* the total without either wrapping, and the commitment is to just that.
BudgetConserved ==
    \A a \in Advertisers : budgets[a] # NoBudget =>
      LET b == budgets[a] IN
      /\ b.total = b.spent + b.remaining
      /\ b.commitment = createBudgetCommitment(b.total, b.spent, b.remaining)

\* The last proof of an advertiser shows what generateBudgetProof promises:
\* the new remaining budget is the previous one less the amount, not negative,
\* and it ends at the budget as it is, so that proofs chain.
ProofsChain ==
    \A a \in Advertisers : proof[a] # NoProof =>
      /\ budgets[a] # NoBudget
      /\ proof[a].new = budgets[a].commitment
      /\ proof[a].new.remaining = proof[a].prev.remaining - proof[a].delta
      /\ proof[a].new.total = proof[a].prev.total

\* What the receipts of an advertiser add up to.
Receipted(a) ==
    SumFunctionOnSet([k \in DOMAIN receipts |-> IF receipts[k].advertiser = a
                                                THEN receipts[k].amount ELSE 0],
                     DOMAIN receipts)

\* Every amount deducted is pending or in exactly one receipt, also when the
\* budget is set anew in between; up to the wrap of the pending counter.
DeductionsSettledOnce ==
    \A a \in Advertisers : (Receipted(a) + pending[a]) % MaxUint = charged[a] % MaxUint
=============================================================================
