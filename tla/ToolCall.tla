------------------------------- MODULE ToolCall -------------------------------
(***************************************************************************)
(* What a user of the inventory server may rely on, and no more.  One use  *)
(* ends with an answer or with an error.  An answer means that every       *)
(* statement behind it ran, once, and that nothing more of it will.  An    *)
(* error means nothing: any number of them ran, and more may still run.    *)
(* This is what module Ledger assumes of record_commitment.                *)
(***************************************************************************)
EXTENDS Naturals

CONSTANTS
    Use,          \* uses of a client session
    Statements    \* how many SQL statements each of them is for

VARIABLES
    outcome,   \* how each use ended: "open" before it does
    ran        \* the statements it has run in Postgres

Init ==
    /\ outcome = [u \in Use |-> "open"]
    /\ ran = [u \in Use |-> 0]

Run(u) ==
    /\ outcome[u] # "answered"
    /\ ran[u] < Statements[u]
    /\ ran' = [ran EXCEPT ![u] = @ + 1]
    /\ UNCHANGED outcome

Answer(u) ==
    /\ outcome[u] = "open"
    /\ ran[u] = Statements[u]
    /\ outcome' = [outcome EXCEPT ![u] = "answered"]
    /\ UNCHANGED ran

Raise(u) ==
    /\ outcome[u] = "open"
    /\ outcome' = [outcome EXCEPT ![u] = "raised"]
    /\ UNCHANGED ran

Next == \E u \in Use : Run(u) \/ Answer(u) \/ Raise(u)

Spec == Init /\ [][Next]_<<outcome, ran>>
===============================================================================
