------------------------------ MODULE MCConcierge ------------------------------
(***************************************************************************)
(* Instances of Concierge for TLC: a stay over the cap, one within it, and *)
(* two trips whose pauses, answers and restarts interleave.                *)
(***************************************************************************)
EXTENDS Concierge, TLC

CONSTANTS dear, cheap

MCStay == {dear, cheap}
MCOverCap == {dear}
MCUsd == (dear :> 5) @@ (cheap :> 3)
================================================================================
