------------------------------- MODULE MCLedger -------------------------------
(***************************************************************************)
(* Instances of Ledger for TLC: two tasks compete for one cost centre.     *)
(* Each total fits the budget of 4, 2 + 2 fits exactly and 3 + 2 does not. *)
(***************************************************************************)
EXTENDS Ledger

MCBudget == [cc \in Centre |-> 4]
MCAmount == {2, 3}

(* The behaviours in which a centre's money is in one pair of hands. *)
SerialSpec == Init /\ [][Next /\ Serial']_vars
===============================================================================
