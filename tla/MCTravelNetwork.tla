---------------------------- MODULE MCTravelNetwork ----------------------------
(***************************************************************************)
(* An instance of TravelNetwork for TLC.  One trip meets every failure,    *)
(* with stays within the cap, over it, and beyond the budget.              *)
(***************************************************************************)
EXTENDS TravelNetwork, TLC

CONSTANTS lavish, dear, cheap, cc

MCStay == {lavish, dear, cheap}
MCOverCap == {lavish, dear}
MCUsd == (lavish :> 5) @@ (dear :> 3) @@ (cheap :> 2)
MCCentre == {cc}
MCBudget == (cc :> 4)
MCCentreOf == [t \in Trip |-> cc]
================================================================================
