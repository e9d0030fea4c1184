----------------------------- MODULE MCToolServer -----------------------------
(***************************************************************************)
(* ToolServer for TLC: Skyline's two searches and a budget position (two   *)
(* queries in one handler) over fewer connections than handlers.           *)
(***************************************************************************)
EXTENDS ToolServer

CONSTANTS skyline, ledger

MCUse == {skyline, ledger}
MCCalls == [u \in MCUse |-> IF u = skyline THEN 2 ELSE 1]
MCQueries == [u \in MCUse |-> IF u = skyline THEN 1 ELSE 2]
===============================================================================
