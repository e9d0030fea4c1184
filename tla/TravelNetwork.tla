----------------------------- MODULE TravelNetwork -----------------------------
(***************************************************************************)
(* The Concierge and the Ledger joined by A2A calls (network.authorise_    *)
(* spend over a2a_client.ask), with the people at both ends: travellers    *)
(* who open trips, approvers who answer pauses, anyone who cancels.        *)
(*                                                                         *)
(* A call is one message to Ledger and the stream of events it sends back. *)
(* The caller waits for the end of the stream, but either side can be gone *)
(* before that: the Concierge's call times out or its process restarts     *)
(* while Ledger works on, and Ledger restarts, or its task is cancelled,   *)
(* while the Concierge waits.                                              *)
(* Ledger's task of a trip is opened by authorise and continued by confirm,*)
(* so it is identified with the trip.                                      *)
(***************************************************************************)
EXTENDS Integers, FiniteSets

CONSTANTS
    Trip, Stay, OverCap, Usd, None, MaxRestarts,   \* see Concierge
    Centre, Budget, MaxCrashes,                    \* see Ledger
    CentreOf       \* the cost centre of each trip's traveller

ASSUME CentreOfAssumption == CentreOf \in [Trip -> Centre]
ASSUME StayAssumption == OverCap \subseteq Stay /\ Usd \in [Stay -> Nat]
ASSUME BudgetAssumption == Budget \in [Centre -> Nat]
ASSUME BoundsAssumption ==
    MaxRestarts \in Nat /\ MaxCrashes \in Nat /\ IsFiniteSet(Trip)

VARIABLES
    task, live, node, trip, asked, reported, told, said, restarts,
    state, step, request, run, remaining, verdict, published,
    calls, rows, spent, issued, received, runs, crashes

concierge == <<task, live, node, trip, asked, reported, told, said, restarts>>
ledger == <<state, step, request, run, remaining, verdict, published, calls,
            rows, spent, issued, received, runs, crashes>>
vars == <<concierge, ledger>>

(* Ledger starts at most two runs per trip: authorise and confirm. *)
L == INSTANCE Ledger
       WITH Task <- Trip, Amount <- {Usd[s] : s \in Stay}, NoToken <- None,
            NoRequest <- None, MaxMessages <- 2 * Cardinality(Trip)

C == INSTANCE Concierge WITH Token <- L!Code

ASSUME NoneAssumption ==
    None \notin Stay \cup L!Code \cup L!Request \cup C!Ruling \cup C!Verdict
               \cup C!TripState \cup C!Error \cup C!Message

Init == C!Init /\ L!Init

-------------------------------------------------------------------------------
(* Mutant of Message: the Concierge works the code out for itself. *)
Message_OwnToken(t) ==
    LET q == C!SpendRequest(t) IN
    [trip |-> t, cc |-> CentreOf[t], usd |-> q.usd, requires |-> q.requires,
     token |-> [trip |-> t, cc |-> CentreOf[t], usd |-> q.usd]]

(* The message: a spend request against the traveller's cost centre. *)
Message(t) ==
    LET q == C!SpendRequest(t) IN
    [trip |-> t, cc |-> CentreOf[t], usd |-> q.usd,
     requires |-> q.requires, token |-> q.token]

(* The call goes out and Ledger's run starts: on a new task from authorise,*)
(* on the task it had paused from confirm.  Or it dies over its record.    *)
Ask(t) ==
    /\ C!AskLedger(t)
    /\ L!Receive(t, Message(t)) \/ L!ReceiveUnrecorded(t)

(* The data artifact of the run the call started. *)
Artifact(t) ==
    [decision |-> verdict[t], usd |-> request[t].usd,
     token |-> IF verdict[t] = "needs_approval"
                 THEN L!authorization_code(request[t]) ELSE None]

(* Mutant of Answer: the verdict of the task is taken, whichever message   *)
(* it was the answer to.                                                   *)
Answer_Stale(t) ==
    /\ asked[t] /\ step[t] = "idle"
    /\ verdict[t] # "none"
    /\ C!node_authorise(t, Artifact(t)) \/ C!node_confirm(t, Artifact(t))
    /\ UNCHANGED ledger

(* The stream ends, and the reply has data: the verdict is acted on,       *)
(* whatever state the task is in.                                          *)
Answer(t) ==
    /\ asked[t] /\ step[t] = "idle"
    /\ published[t]
    /\ C!node_authorise(t, Artifact(t)) \/ C!node_confirm(t, Artifact(t))
    /\ UNCHANGED ledger

(* The stream ends without data. *)
Silence(t) ==
    /\ asked[t] /\ step[t] = "idle"
    /\ ~published[t]
    /\ C!LedgerSilent(t)
    /\ UNCHANGED ledger

(* What the Concierge does alone, a call that times out included. *)
ConciergeStep(t) ==
    \/ live[t] /\ C!Plan(t) /\ UNCHANGED ledger
    \/ Ask(t)
    \/ Answer(t)
    \/ Silence(t)

(* What Ledger does alone, whether or not anybody still listens. *)
LedgerStep(t) == L!Advance(t) /\ UNCHANGED concierge

Books ==
    /\ \E k \in calls : L!record_commitment(k) \/ L!LoseCall(k)
    /\ UNCHANGED concierge

Disturb ==
    \/ C!Disturb /\ UNCHANGED ledger
    \/ (L!Crash \/ \E t \in Trip : L!Cancel(t)) /\ UNCHANGED concierge

Next ==
    \/ \E t \in Trip : ConciergeStep(t)
    \/ \E t \in Trip : LedgerStep(t)
    \/ Books
    \/ Disturb

Spec == Init /\ [][Next]_vars

(* The awaits of both agents end, as in the two components. *)
FairSpec ==
    Spec /\ \A t \in Trip : WF_vars(ConciergeStep(t)) /\ WF_vars(LedgerStep(t))

-------------------------------------------------------------------------------
(* Everything the books hold or are about to hold for a trip. *)
Charges(t) == {k \in rows \cup calls : k.code.trip = t}

(* A confirmed trip is in the books, once, at the total it ships with and  *)
(* against the traveller's own cost centre.                                *)
ConfirmedIsBooked ==
    \A t \in Trip : C!Confirmed(t) =>
        /\ Charges(t) \subseteq rows
        /\ {k.code : k \in Charges(t)} =
             {[trip |-> t, cc |-> CentreOf[t], usd |-> Usd[trip[t].stay]]}

(* However calls time out, processes restart and people cancel, no trip is *)
(* charged twice.                                                          *)
ChargedAtMostOnce == \A t \in Trip : Cardinality(Charges(t)) <= 1

(* "Declining the approval leaves the ledger untouched", and so does a     *)
(* pause that nobody answers: while either task waits for a human, and     *)
(* ever after a refusal, the books hold nothing for the trip.              *)
UntouchedWithoutYes ==
    \A t \in Trip :
        Charges(t) # {} =>
            /\ task[t] # "input_required"
            /\ state[t] # "input_required"
            /\ said[t] # "decline"

(* "No money moves before a human says yes", from end to end: what Ledger  *)
(* was told needs an approval is charged only after the approver answered  *)
(* the Concierge's own pause.                                              *)
YesBeforeMoney ==
    \A t \in Trip : Charges(t) # {} /\ request[t].requires =>
        said[t] \in {"approve", "unclear"}

(* What module Concierge takes for granted of Ledger, Ledger delivers: the *)
(* network behaves as the Concierge with open peers does.                  *)
LedgerKeepsItsPromise == C!Spec

(* What module Ledger takes for granted of its callers, the Concierge      *)
(* keeps: it sends no token that Ledger has not handed out.  So every      *)
(* theorem of LedgerProofs holds of the network.                           *)
ConciergeIsALedgerCaller == L!Spec

(* Trips come to rest, also when Ledger is lost while they wait for it. *)
TripsComeToRest == C!TripsComeToRest
================================================================================
