------------------------------ MODULE MCExchange ------------------------------
(***************************************************************************)
(* Instances of Exchange for TLC: two calls of the Concierge under way at  *)
(* once, and two people running the command line at once.                  *)
(***************************************************************************)
EXTENDS Exchange

CONSTANTS concierge, skyline, sentinel, cli1, cli2, c1, c2

MCCall == {c1, c2}
MCEntry == [call : MCCall, event : {"asked", "answered", "received", "completed", "failed"}]

(* One process, one file. *)
MCProcess == {concierge, skyline, sentinel}
MCFileOf == [p \in MCProcess |-> p]
MCCallerOf == [c \in MCCall |-> concierge]
MCAgentOf == [c \in MCCall |-> IF c = c1 THEN skyline ELSE sentinel]
MCSilent == {sentinel}

(* Every run of `atlastrip plan` asks as "traveller". *)
CLIProcess == {cli1, cli2, concierge}
CLIFile == {"traveller", "concierge"}
CLIFileOf == [p \in CLIProcess |-> IF p = concierge THEN "concierge" ELSE "traveller"]
CLICallerOf == [c \in MCCall |-> IF c = c1 THEN cli1 ELSE cli2]
CLIAgentOf == [c \in MCCall |-> concierge]
CLISilent == {}
===============================================================================
