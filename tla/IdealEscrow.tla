----------------------------- MODULE IdealEscrow -----------------------------
(***************************************************************************)
(* What an escrow promises, whichever of its implementations runs it: the   *)
(* contract of contracts/EscrowManager.sol or the handlers of               *)
(* pkg/chainvm/escrow_rpc.go.  Money is in the purse of a campaign, held    *)
(* for one reservation or owed to a payee.  What is held goes, once and     *)
(* whole, to the payee it is held for or back into the purse it came from.  *)
(* No totals are kept, and there is no clock: when a step may be taken is   *)
(* the business of the implementation.                                      *)
(***************************************************************************)
EXTENDS Integers

CONSTANTS Campaigns, Reservations, Payees,
          Nothing   \* a reservation that holds no money

VARIABLES
    purse,  \* what each campaign has paid in and can still promise
    hold,   \* what each reservation holds, of whose money and for whom
    paid,   \* the reservations that were paid
    owed    \* what each payee has earned and has not taken out

vars == <<purse, hold, paid, owed>>

Init ==
    /\ purse = [c \in Campaigns |-> 0]
    /\ hold = [r \in Reservations |-> Nothing]
    /\ paid = {}
    /\ owed = [p \in Payees |-> 0]

\* A campaign pays in; it takes out, or sets aside, part of its purse.
Fund(c) ==
    /\ purse'[c] > purse[c]
    /\ purse' = [purse EXCEPT ![c] = purse'[c]]
    /\ UNCHANGED <<hold, paid, owed>>

TakeOut(c) ==
    /\ 0 <= purse'[c] /\ purse'[c] < purse[c]
    /\ purse' = [purse EXCEPT ![c] = purse'[c]]
    /\ UNCHANGED <<hold, paid, owed>>

\* Money moves from a purse into a reservation that holds nothing and was
\* never paid.
Promise(r, c, p) ==
    /\ hold[r] = Nothing /\ hold'[r] # Nothing
    /\ r \notin paid
    /\ hold' = [hold EXCEPT ![r] = [of |-> c, for |-> p, amount |-> hold'[r].amount]]
    /\ 0 < hold'[r].amount /\ hold'[r].amount <= purse[c]
    /\ purse' = [purse EXCEPT ![c] = @ - hold'[r].amount]
    /\ UNCHANGED <<paid, owed>>

Pay(r) ==
    /\ hold[r] # Nothing
    /\ owed' = [owed EXCEPT ![hold[r].for] = @ + hold[r].amount]
    /\ hold' = [hold EXCEPT ![r] = Nothing]
    /\ paid' = paid \cup {r}
    /\ UNCHANGED purse

GiveBack(r) ==
    /\ hold[r] # Nothing
    /\ purse' = [purse EXCEPT ![hold[r].of] = @ + hold[r].amount]
    /\ hold' = [hold EXCEPT ![r] = Nothing]
    /\ UNCHANGED <<paid, owed>>

PayOut(p) ==
    /\ owed[p] > 0
    /\ owed' = [owed EXCEPT ![p] = 0]
    /\ UNCHANGED <<purse, hold, paid>>

Next ==
    \/ \E c \in Campaigns : Fund(c) \/ TakeOut(c)
    \/ \E r \in Reservations, c \in Campaigns, p \in Payees : Promise(r, c, p)
    \/ \E r \in Reservations : Pay(r) \/ GiveBack(r)
    \/ \E p \in Payees : PayOut(p)

Spec == Init /\ [][Next]_vars
=============================================================================
