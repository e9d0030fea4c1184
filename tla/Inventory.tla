------------------------------- MODULE Inventory -------------------------------
(***************************************************************************)
(* What the searches of the travel inventory and the shortlists made from  *)
(* them have in common: rows in some order, cut off after so many.         *)
(***************************************************************************)
EXTENDS Integers, FiniteSets

CONSTANTS
    None,             \* an argument that is not given
    SoldOut,          \* in the place of a price: no seat, or a night without a room
    ShortlistSize     \* SHORTLIST_SIZE, 6 in the code of both desks

ASSUME SoldOutAssumption == SoldOut \notin Nat

(* The first n rows of S: any set of n that no other row comes before. *)
FirstRows(S, n, Before(_, _)) ==
    {R \in SUBSET S :
        /\ Cardinality(R) = n \/ (R = S /\ Cardinality(S) < n)
        /\ \A h \in R, g \in S \ R : ~Before(g, h)}

Least(S) == CHOOSE x \in S : \A y \in S : x <= y
===============================================================================
