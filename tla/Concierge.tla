------------------------------- MODULE Concierge -------------------------------
(***************************************************************************)
(* The Concierge agent: the LangGraph state machine that plans a trip, and *)
(* the executor that runs it inside one A2A task, suspends it for a human  *)
(* and resumes it on a later message.                                      *)
(*                                                                         *)
(* The LangGraph thread of a task (its trip state and next node) lives in  *)
(* the memory of the process; the A2A task is in Postgres.  A restart      *)
(* keeps the second and loses the first.                                   *)
(*                                                                         *)
(* The peers are open here: the replies of Hearth, Sentinel and Ledger are *)
(* parameters of the actions.  Hearth may answer with any stay, also when   *)
(* it was told to enforce the cap; the sets Rulings and LedgerReplies say  *)
(* what Sentinel and Ledger promise.  Module TravelNetwork puts the real   *)
(* Ledger in.                                                              *)
(***************************************************************************)
EXTENDS Integers

CONSTANTS
    Trip,      \* trips, one A2A task and one LangGraph thread each
    Stay,      \* stays Hearth can propose
    OverCap,   \* the stays whose nightly rate breaks the lodging cap
    Usd,       \* total of the trip with that stay: flights, lodging, ground
    Token,     \* approval tokens Ledger hands out
    None,      \* a field of the trip state that has not been set
    MaxRestarts  \* bound: restarts of the process

ASSUME OverCapAssumption == OverCap \subseteq Stay
ASSUME UsdAssumption == Usd \in [Stay -> Nat]
ASSUME MaxRestartsAssumption == MaxRestarts \in Nat

(* ComplianceVerdict: what it was about, whether it found a violation,     *)
(* whether one of them is a breached lodging cap the Concierge can read    *)
(* out of the finding, and whether a manager has to sign off.              *)
Ruling == [stay : Stay, compliant : BOOLEAN, cap : BOOLEAN, approval : BOOLEAN]

(* BudgetVerdict. *)
Verdict == [decision : {"approved", "rejected", "needs_approval"},
            usd : Nat, token : Token \cup {None}]

(* What a human can send on a paused task: a clear answer, or anything     *)
(* else (a question, a refusal in other words than the five listed).       *)
Message == {"approve", "decline", "unclear"}

Error == {"sourcing", "screening", "no stay", "no verdict", "declined"}

TripState ==
    [stay : Stay \cup {None}, ruling : Ruling \cup {None},
     renegotiated : BOOLEAN, budget : Verdict \cup {None},
     token : Token \cup {None}, error : Error \cup {None},
     journal : Nat,
     status : {"confirmed", "rejected", "awaiting_approval", None}]

ASSUME NoneAssumption ==
    None \notin Stay \cup Token \cup Ruling \cup Verdict \cup TripState
               \cup Error \cup Message

VARIABLES
    task,      \* the persisted TaskState of the trip's task
    live,      \* whether a run of execute is under way
    node,      \* the thread's next node
    trip,      \* the thread's TripState, None when there is no thread
    asked,     \* whether the run awaits Ledger's reply
    reported,  \* the journal batches this run takes as already reported
    told,      \* the journal batches the caller has been told
    said,      \* the message a human answered the pause with
    restarts   \* restarts so far

vars == <<task, live, node, trip, asked, reported, told, said, restarts>>

Node == {"intake", "source", "screen", "renegotiate", "authorise",
         "await_approval", "confirm", "assemble", "end"}
Terminal == {"completed", "failed", "canceled"}

TypeOK ==
    /\ task \in [Trip -> Terminal \cup {"none", "working", "input_required"}]
    /\ live \in [Trip -> BOOLEAN]
    /\ node \in [Trip -> Node]
    /\ trip \in [Trip -> TripState \cup {None}]
    /\ asked \in [Trip -> BOOLEAN]
    /\ reported \in [Trip -> Nat]
    /\ told \in [Trip -> Nat]
    /\ said \in [Trip -> Message \cup {None}]
    /\ restarts \in Nat
    /\ \A t \in Trip : live[t] => trip[t] # None /\ task[t] = "working"

Init ==
    /\ task = [t \in Trip |-> "none"]
    /\ live = [t \in Trip |-> FALSE]
    /\ node = [t \in Trip |-> "intake"]
    /\ trip = [t \in Trip |-> None]
    /\ asked = [t \in Trip |-> FALSE]
    /\ reported = [t \in Trip |-> 0]
    /\ told = [t \in Trip |-> 0]
    /\ said = [t \in Trip |-> None]
    /\ restarts = 0

NewTrip == [stay |-> None, ruling |-> None, renegotiated |-> FALSE,
            budget |-> None, token |-> None, error |-> None,
            journal |-> 0, status |-> None]

-------------------------------------------------------------------------------
(* A traveller's message opens a task and a thread. *)
Start(t) ==
    /\ task[t] = "none"
    /\ task' = [task EXCEPT ![t] = "working"]
    /\ live' = [live EXCEPT ![t] = TRUE]
    /\ node' = [node EXCEPT ![t] = "intake"]
    /\ trip' = [trip EXCEPT ![t] = NewTrip]
    /\ reported' = [reported EXCEPT ![t] = 0]
    /\ UNCHANGED <<asked, told, said, restarts>>

(* The message cannot be recorded: the exception leaves execute after the  *)
(* task has started work and before there is a thread.                     *)
StartUnrecorded(t) ==
    /\ task[t] = "none"
    /\ task' = [task EXCEPT ![t] = "working"]
    /\ UNCHANGED <<live, node, trip, asked, reported, told, said, restarts>>

At(t, n) == live[t] /\ node[t] = n

(* The end of a node: its update is merged into the state, its journal     *)
(* lines (one batch, or none) are appended and streamed to the caller from *)
(* where reporting stands, and the router picks the next node.             *)
Leave(t, update, lines, next) ==
    LET journal == trip[t].journal + lines IN
    /\ trip' = [trip EXCEPT ![t] = [update EXCEPT !.journal = journal]]
    /\ node' = [node EXCEPT ![t] = next]
    /\ told' = [told EXCEPT ![t] = @ + (journal - reported[t])]
    /\ reported' = [reported EXCEPT ![t] = journal]
    /\ asked' = [asked EXCEPT ![t] = FALSE]
    /\ UNCHANGED <<task, live, said, restarts>>

node_intake(t) ==
    /\ At(t, "intake")
    /\ Leave(t, trip[t], 1, "source")

(* Both replies of the gather are in and completed; s is Hearth's. *)
node_source(t, s) ==
    /\ At(t, "source")
    /\ Leave(t, [trip[t] EXCEPT !.stay = s], 1, "screen")

SourceFails(t) ==
    /\ At(t, "source")
    /\ Leave(t, [trip[t] EXCEPT !.error = "sourcing"], 1, "end")

(* Mutants of after_screen: never, and again and again. *)
after_screen_Never(tr) == "authorise"
after_screen_Again(tr) ==
    IF ~tr.ruling.compliant /\ tr.ruling.cap THEN "renegotiate" ELSE "authorise"

(* Renegotiate once, if what broke is something Hearth can fix. *)
after_screen(tr) ==
    IF ~tr.ruling.compliant /\ ~tr.renegotiated /\ tr.ruling.cap
      THEN "renegotiate" ELSE "authorise"

node_screen(t, r) ==
    /\ At(t, "screen")
    /\ LET update == [trip[t] EXCEPT !.ruling = r]
       IN  Leave(t, update, 1, after_screen(update))

ScreenFails(t) ==
    /\ At(t, "screen")
    /\ Leave(t, [trip[t] EXCEPT !.error = "screening"], 0, "end")

(* Mutant of node_renegotiate: the new stay goes straight to Ledger. *)
node_renegotiate_Unscreened(t, s) ==
    /\ At(t, "renegotiate")
    /\ Leave(t, [trip[t] EXCEPT !.stay = s, !.renegotiated = TRUE], 1, "authorise")

(* The stay is sourced again with the cap enforced, and screened again. *)
node_renegotiate(t, s) ==
    /\ At(t, "renegotiate")
    /\ Leave(t, [trip[t] EXCEPT !.stay = s, !.renegotiated = TRUE], 1, "screen")

RenegotiateFails(t) ==
    /\ At(t, "renegotiate")
    /\ Leave(t, [trip[t] EXCEPT !.error = "no stay", !.renegotiated = TRUE],
             0, "end")

-------------------------------------------------------------------------------
(* _spend_request, with the token node_confirm adds (None before that). *)
SpendRequest(t) ==
    [trip |-> t, usd |-> Usd[trip[t].stay],
     requires |-> trip[t].ruling.approval, token |-> trip[t].token]

(* authorise and confirm send the request and await Ledger's reply. *)
AskLedger(t) ==
    /\ At(t, "authorise") \/ At(t, "confirm")
    /\ ~asked[t]
    /\ asked' = [asked EXCEPT ![t] = TRUE]
    /\ UNCHANGED <<task, live, node, trip, reported, told, said, restarts>>

(* Mutant of after_authorise: nobody is asked. *)
after_authorise_NoPause(tr) == "assemble"

after_authorise(tr) ==
    IF tr.budget.decision = "needs_approval" THEN "await_approval" ELSE "assemble"

node_authorise(t, v) ==
    /\ At(t, "authorise") /\ asked[t]
    /\ LET update == [trip[t] EXCEPT !.budget = v]
       IN  Leave(t, update, 1, after_authorise(update))

node_confirm(t, v) ==
    /\ At(t, "confirm") /\ asked[t]
    /\ Leave(t, [trip[t] EXCEPT !.budget = v], 1, "assemble")

(* The reply carries no verdict: Ledger failed or rejected the task. *)
LedgerSilent(t) ==
    /\ At(t, "authorise") \/ At(t, "confirm")
    /\ asked[t]
    /\ Leave(t, [trip[t] EXCEPT !.error = "no verdict"], 0, "end")

(* interrupt: the graph suspends and the task waits for its human. *)
Pause(t) ==
    /\ At(t, "await_approval")
    /\ task' = [task EXCEPT ![t] = "input_required"]
    /\ live' = [live EXCEPT ![t] = FALSE]
    /\ UNCHANGED <<node, trip, asked, reported, told, said, restarts>>

(* Mutant of _read_decision: whatever comes back is the approval. *)
_read_decision_Any(m) == TRUE

(* Yes unless the message holds one of the five decline words. *)
_read_decision(m) == m # "decline"

(* How much of the journal _run takes as reported when it starts. *)
existing_Nothing(t) == 0   \* mutant: the whole trip is replayed
existing(t) == trip[t].journal

(* A message on an open task resumes the thread at the interrupt, and      *)
(* reporting goes on from what the checkpoint holds.  The SDK runs the     *)
(* messages of a task one after another: one that was sent while the run   *)
(* was still planning waits for the pause and is taken for its answer.     *)
Resume(t, m) ==
    /\ task[t] = "input_required" /\ trip[t] # None
    /\ said' = [said EXCEPT ![t] = m]
    /\ task' = [task EXCEPT ![t] = "working"]
    /\ live' = [live EXCEPT ![t] = TRUE]
    /\ LET approved == _read_decision(m)
           journal == trip[t].journal + 1 IN
       /\ trip' = [trip EXCEPT
              ![t].token = IF approved THEN trip[t].budget.token ELSE @,
              ![t].error = IF approved THEN @ ELSE "declined",
              ![t].journal = journal]
       /\ node' = [node EXCEPT ![t] = IF approved THEN "confirm" ELSE "end"]
       /\ reported' = [reported EXCEPT ![t] = journal]
       /\ told' = [told EXCEPT ![t] = @ + (journal - existing(t))]
    /\ UNCHANGED <<asked, restarts>>

(* The same message when a restart has lost the thread, or when there has  *)
(* never been one: LangGraph finds nothing to resume, and the run fails    *)
(* the task.                                                               *)
ResumeLost(t) ==
    /\ task[t] \in {"working", "input_required"} /\ trip[t] = None
    /\ task' = [task EXCEPT ![t] = "failed"]
    /\ UNCHANGED <<live, node, trip, asked, reported, told, said, restarts>>

(* build_itinerary: the status follows from the budget verdict. *)
ItineraryStatus(tr) ==
    CASE tr.budget.decision = "approved" -> "confirmed"
      [] tr.budget.decision = "needs_approval" -> "awaiting_approval"
      [] OTHER -> "rejected"

node_assemble(t) ==
    /\ At(t, "assemble")
    /\ Leave(t, [trip[t] EXCEPT !.status = ItineraryStatus(trip[t])], 1, "end")

(* The graph has ended: an error fails the task, else the itinerary is     *)
(* published and the task completes.                                       *)
Finish(t) ==
    /\ At(t, "end")
    /\ task' = [task EXCEPT
           ![t] = IF trip[t].error # None THEN "failed" ELSE "completed"]
    /\ live' = [live EXCEPT ![t] = FALSE]
    /\ UNCHANGED <<node, trip, asked, reported, told, said, restarts>>

(* A run inside the try of execute, where an await or a record can raise.  *)
CanRaise(t) == live[t] /\ node[t] \notin {"assemble", "end"}

(* Mutant of Raise: the exception ends the run and leaves the task open. *)
Raise_Uncaught(t) ==
    /\ CanRaise(t)
    /\ live' = [live EXCEPT ![t] = FALSE]
    /\ asked' = [asked EXCEPT ![t] = FALSE]
    /\ UNCHANGED <<task, node, trip, reported, told, said, restarts>>

(* Mutant of Raise: a call that broke off is made again. *)
Raise_Retries(t) ==
    /\ CanRaise(t)
    /\ asked' = [asked EXCEPT ![t] = FALSE]
    /\ UNCHANGED <<task, live, node, trip, reported, told, said, restarts>>

(* A node raises: a peer that is down, a stream that breaks off, the call  *)
(* timeout, a request that cannot be parsed, an unknown traveller.  Or the *)
(* graph has suspended and the pause cannot be recorded: then the task is  *)
(* failed as well, on the heels of its input-required.                     *)
Raise(t) ==
    /\ CanRaise(t)
    /\ task' = [task EXCEPT ![t] = "failed"]
    /\ live' = [live EXCEPT ![t] = FALSE]
    /\ asked' = [asked EXCEPT ![t] = FALSE]
    /\ UNCHANGED <<node, trip, reported, told, said, restarts>>

(* cancel publishes the state; the SDK stops the run. *)
Cancel(t) ==
    /\ task[t] \in {"working", "input_required"}
    /\ task' = [task EXCEPT ![t] = "canceled"]
    /\ live' = [live EXCEPT ![t] = FALSE]
    /\ asked' = [asked EXCEPT ![t] = FALSE]
    /\ UNCHANGED <<node, trip, reported, told, said, restarts>>

(* MemorySaver goes with the process; the tasks stay as they were. *)
Restart ==
    /\ restarts < MaxRestarts
    /\ \E t \in Trip : trip[t] # None
    /\ restarts' = restarts + 1
    /\ live' = [t \in Trip |-> FALSE]
    /\ trip' = [t \in Trip |-> None]
    /\ asked' = [t \in Trip |-> FALSE]
    /\ UNCHANGED <<task, node, reported, told, said>>

-------------------------------------------------------------------------------
(* Sentinel: an over-cap stay is a violation with the cap in its detail,   *)
(* every violation needs a manager, and warnings can need one as well.     *)
Rulings(s) ==
    {r \in Ruling : /\ r.stay = s
                    /\ r.cap = (s \in OverCap)
                    /\ r.cap => ~r.compliant
                    /\ ~r.compliant => r.approval}

(* Ledger: it pauses exactly the requests that need an approval and come   *)
(* without their token, and rejects what the budget does not cover.        *)
LedgerReplies(q) ==
    {v \in [decision : {"approved", "rejected", "needs_approval"},
            usd : {q.usd}, token : Token \cup {None}] :
        /\ v.decision = "approved" => ~q.requires \/ q.token # None
        /\ v.decision = "needs_approval" => q.requires /\ q.token = None
        /\ (v.token = None) = (v.decision # "needs_approval")}

(* Everything a live run does up to Ledger's replies. *)
Plan(t) ==
    \/ node_intake(t)
    \/ \E s \in Stay : node_source(t, s)
    \/ SourceFails(t)
    \/ \E r \in Rulings(trip[t].stay) : node_screen(t, r)
    \/ ScreenFails(t)
    \/ \E s \in Stay : node_renegotiate(t, s)
    \/ RenegotiateFails(t)
    \/ Pause(t)
    \/ node_assemble(t)
    \/ Finish(t)
    \/ Raise(t)

(* Ledger's replies, from its promise. *)
Settle(t) ==
    \/ AskLedger(t)
    \/ /\ asked[t]
       /\ \E v \in LedgerReplies(SpendRequest(t)) :
              node_authorise(t, v) \/ node_confirm(t, v)
    \/ LedgerSilent(t)

(* What people and the machine do to a trip. *)
Disturb ==
    \/ \E t \in Trip : Start(t) \/ StartUnrecorded(t)
    \/ \E t \in Trip, m \in Message : Resume(t, m)
    \/ \E t \in Trip : ResumeLost(t) \/ Cancel(t)
    \/ Restart

Next ==
    \/ \E t \in Trip : live[t] /\ (Plan(t) \/ Settle(t))
    \/ Disturb

Spec == Init /\ [][Next]_vars

(* A live run goes on: every await ends, if only with the timeout. *)
FairSpec ==
    Spec /\ \A t \in Trip : WF_vars(live[t] /\ (Plan(t) \/ Settle(t)))

-------------------------------------------------------------------------------
Confirmed(t) ==
    /\ task[t] = "completed" /\ trip[t] # None
    /\ trip[t].status = "confirmed"

(* The itinerary that is confirmed is the one that was ruled on and paid   *)
(* for: Sentinel screened the stay that ships, not the one it replaced,    *)
(* and Ledger approved exactly its total.                                  *)
ConfirmedAsRuledAndFunded ==
    \A t \in Trip : Confirmed(t) =>
        /\ trip[t].ruling.stay = trip[t].stay
        /\ trip[t].budget.decision = "approved"
        /\ trip[t].budget.usd = Usd[trip[t].stay]

(* A trip whose ruling needs a manager is confirmed only after a human     *)
(* answered the pause, and not with a refusal.                             *)
ConfirmedAfterApproval ==
    \A t \in Trip : Confirmed(t) /\ trip[t].ruling.approval =>
        said[t] \in {"approve", "unclear"}

(* A stay over the cap is never waved through: it ships only when Hearth   *)
(* has been asked again and a human has let it pass.                       *)
OverCapIsNegotiated ==
    \A t \in Trip : Confirmed(t) /\ trip[t].stay \in OverCap =>
        trip[t].renegotiated /\ said[t] \in {"approve", "unclear"}

(* Where a trip rests, something can be done about it: a completed one is  *)
(* decided, none goes out "awaiting approval"; one that waits for a human  *)
(* waits at the interrupt with the token that settles it in hand, unless a *)
(* restart has lost its thread.                                            *)
RestIsDecidedOrAnswerable ==
    \A t \in Trip : trip[t] # None =>
        /\ task[t] = "completed" => trip[t].status \in {"confirmed", "rejected"}
        /\ task[t] = "input_required" =>
              /\ node[t] = "await_approval"
              /\ trip[t].budget.decision = "needs_approval"
              /\ trip[t].budget.token \in Token

(* The caller hears every journal line once, over pause and resume too.    *)
JournalToldOnce == \A t \in Trip : trip[t] # None => told[t] = trip[t].journal

(* "The renegotiation happens exactly once": Hearth is not asked a second  *)
(* time to keep to the cap, even when its second answer breaks it again.   *)
RenegotiatedOnce ==
    [][\A t \in Trip :
         At(t, "renegotiate") /\ node'[t] = "screen" => ~trip[t].renegotiated]_vars

(* Every run comes to rest: its task is completed, failed, cancelled or    *)
(* waits for a human, unless a restart takes that very run away.  A task   *)
(* can stay "working" with no run behind it in two ways, that restart and  *)
(* a first message that could not be recorded; neither is excused here for *)
(* any other run.                                                          *)
TripsComeToRest ==
    \A t \in Trip, n \in 0 .. MaxRestarts :
        live[t] /\ restarts = n ~> task[t] # "working" \/ restarts > n

-------------------------------------------------------------------------------
(* "Work out whether the human said yes": only a yes is taken for one.     *)
OnlyYesIsYes ==
    \A t \in Trip : At(t, "confirm") => said[t] = "approve"
================================================================================
