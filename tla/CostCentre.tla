------------------------------ MODULE CostCentre ------------------------------
(***************************************************************************)
(* What a cost centre is supposed to be: an account per cost centre from   *)
(* which a commitment is drawn in one indivisible step, and only when the  *)
(* account can cover it.  "No level of approval can spend money the cost   *)
(* centre does not have."  Module Ledger reaches the same effect with a    *)
(* read, a decision and an INSERT that are separate steps; the theorem     *)
(* LedgerIsACostCentre of LedgerProofs says when the two agree.            *)
(***************************************************************************)
EXTENDS Integers

CONSTANTS
    Centre,      \* cost centres
    Amount,      \* totals a trip can cost
    Budget       \* the quarterly budget of each centre

VARIABLE balance   \* what is left of each budget

(* cost_centers.quarterly_budget_usd, with nothing committed yet. *)
Init == balance = Budget

(* One commitment, drawn only from a balance that covers it. *)
Draw(cc, a) ==
    /\ a <= balance[cc]
    /\ balance' = [balance EXCEPT ![cc] = @ - a]

Next == \E cc \in Centre, a \in Amount : Draw(cc, a)

Spec == Init /\ [][Next]_balance

(* Nobody spends money that is not there. *)
NeverOverdrawn == \A cc \in Centre : balance[cc] >= 0
===============================================================================
