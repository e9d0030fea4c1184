-------------------------------- MODULE Ledger --------------------------------
(***************************************************************************)
(* The Ledger agent: the only agent of the network that changes anything.  *)
(*                                                                         *)
(* Each A2A message on a task starts one run of LedgerExecutor.execute.    *)
(* A run reads the budget position (one MCP call), decides, perhaps sends  *)
(* record_commitment (a second MCP call), and publishes its verdict.  Runs *)
(* of different tasks interleave at every await.  A run can fail, time     *)
(* out, be cancelled, or disappear with the process; an INSERT it has sent *)
(* can still land after that.                                              *)
(*                                                                         *)
(* External, taken from how the code uses it: the A2A SDK keeps tasks in   *)
(* Postgres, runs the messages of one task one at a time, refuses messages *)
(* on a terminal task, and stops a run whose task is cancelled.            *)
(***************************************************************************)
EXTENDS Integers

CONSTANTS
    Task,          \* A2A task ids
    Trip,          \* trip references
    Centre,        \* cost centres
    Amount,        \* totals a request can ask for
    Budget,        \* quarterly_budget_usd of each centre
    NoToken,       \* manager_approval_token when there is none
    NoRequest,     \* request of a task that has not had one
    MaxMessages,   \* bound: messages sent to the agent
    MaxCrashes     \* bound: restarts of the agent

ASSUME AmountAssumption == Amount \subseteq Nat
ASSUME BudgetAssumption == Budget \in [Centre -> Nat]
ASSUME MaxMessagesAssumption == MaxMessages \in Nat
ASSUME MaxCrashesAssumption == MaxCrashes \in Nat

(* An authorisation code determines trip, cost centre and amount: the hash *)
(* is modelled as injective, and the model values stand for its arguments. *)
Code == [trip : Trip, cc : Centre, usd : Amount]

ASSUME NoTokenAssumption == NoToken \notin Code

(* The fields of SpendRequest that a decision depends on; usd is total_usd. *)
Request == [trip : Trip, cc : Centre, usd : Amount,
            requires : BOOLEAN,           \* requires_manager_approval
            token : Code \cup {NoToken}]  \* manager_approval_token

ASSUME NoRequestAssumption == NoRequest \notin Request

authorization_code(r) == [trip |-> r.trip, cc |-> r.cc, usd |-> r.usd]

VARIABLES
    state,      \* the persisted TaskState of each task
    step,       \* where the task's run of execute is: "idle" when none is live
    request,    \* the spend request the current or last run works on
    run,        \* the number of that run
    remaining,  \* remaining_before, as the run read it
    verdict,    \* the decision of that run: "none" before it is taken
    published,  \* whether the last message has been answered with an artifact
    calls,      \* record_commitment calls sent whose INSERT has not happened
    rows,       \* budget_ledger: one row per INSERT
    spent,      \* SUM(amount_usd) of the rows of each centre
    issued,     \* codes that have gone out in a verdict so far
    received,   \* spend requests received so far
    runs,       \* number of messages received
    crashes     \* number of restarts

desk  == <<state, step, request, run, remaining, verdict, published>>
books == <<calls, rows, spent>>
past  == <<issued, received, runs, crashes>>
vars  == <<desk, books, past>>

Call == [id : Nat, code : Code]
Terminal == {"completed", "failed", "rejected", "canceled"}

TypeOK ==
    /\ state \in [Task -> Terminal \cup {"none", "submitted", "working", "input_required"}]
    /\ step \in [Task -> {"idle", "position", "decide", "committing", "publish",
                          "conclude"}]
    /\ request \in [Task -> Request \cup {NoRequest}]
    /\ \A t \in Task : step[t] # "idle" => request[t] \in Request
    /\ run \in [Task -> Nat]
    /\ remaining \in [Task -> Int]
    /\ verdict \in [Task -> {"none", "rejected", "needs_approval", "approved"}]
    /\ published \in [Task -> BOOLEAN]
    /\ calls \subseteq Call
    /\ rows \subseteq Call
    /\ spent \in [Centre -> Nat]
    /\ issued \subseteq Code
    /\ received \subseteq Request
    /\ runs \in Nat
    /\ crashes \in Nat

Init ==
    /\ state = [t \in Task |-> "none"]
    /\ step = [t \in Task |-> "idle"]
    /\ request = [t \in Task |-> NoRequest]
    /\ run = [t \in Task |-> 0]
    /\ remaining = [t \in Task |-> 0]
    /\ verdict = [t \in Task |-> "none"]
    /\ published = [t \in Task |-> FALSE]
    /\ calls = {}
    /\ rows = {}
    /\ spent = [cc \in Centre |-> 0]
    /\ issued = {}
    /\ received = {}
    /\ runs = 0
    /\ crashes = 0

-------------------------------------------------------------------------------
(* Mutant of Receive: the run of a resumed task goes on with the request   *)
(* the task was opened with and never binds the one it was sent.           *)
Receive_OldRequest(t, r) ==
    /\ step[t] = "idle"
    /\ state[t] \notin Terminal
    /\ runs < MaxMessages
    /\ runs' = runs + 1
    /\ run' = [run EXCEPT ![t] = runs + 1]
    /\ received' = received \cup {r}
    /\ state' = [state EXCEPT ![t] = "working"]
    /\ step' = [step EXCEPT ![t] = "position"]
    /\ verdict' = [verdict EXCEPT ![t] = "none"]
    /\ published' = [published EXCEPT ![t] = FALSE]
    /\ UNCHANGED <<request, remaining, books, issued, crashes>>

(* A message reaches the agent: a new task is accepted, an existing one is *)
(* resumed, and either way the task is working and a run has started.      *)
Receive(t, r) ==
    /\ step[t] = "idle"
    /\ state[t] \notin Terminal
    /\ runs < MaxMessages
    /\ runs' = runs + 1
    /\ run' = [run EXCEPT ![t] = runs + 1]
    /\ request' = [request EXCEPT ![t] = r]
    /\ received' = received \cup {r}
    /\ state' = [state EXCEPT ![t] = "working"]
    /\ step' = [step EXCEPT ![t] = "position"]
    /\ verdict' = [verdict EXCEPT ![t] = "none"]
    /\ published' = [published EXCEPT ![t] = FALSE]
    /\ UNCHANGED <<remaining, books, issued, crashes>>

(* A message whose payload is not a spend request: the task is rejected,   *)
(* also when it was a paused one.                                          *)
ReceiveUnusable(t) ==
    /\ step[t] = "idle"
    /\ state[t] \notin Terminal
    /\ runs < MaxMessages
    /\ runs' = runs + 1
    /\ state' = [state EXCEPT ![t] = "rejected"]
    /\ published' = [published EXCEPT ![t] = FALSE]
    /\ UNCHANGED <<step, request, run, remaining, verdict, books,
                   issued, received, crashes>>

(* The record of the message cannot be written: the exception ends the run *)
(* before it has begun, and the task stays open with nobody at work on it. *)
ReceiveUnrecorded(t) ==
    /\ step[t] = "idle"
    /\ state[t] \notin Terminal
    /\ runs < MaxMessages
    /\ runs' = runs + 1
    /\ state' = [state EXCEPT ![t] = IF @ = "none" THEN "submitted" ELSE @]
    /\ published' = [published EXCEPT ![t] = FALSE]
    /\ UNCHANGED <<step, request, run, remaining, verdict, books,
                   issued, received, crashes>>

(* Mutant of budget_position: the allowance, without what is committed.    *)
budget_position_Allowance(t) ==
    /\ step[t] = "position"
    /\ remaining' = [remaining EXCEPT ![t] = Budget[request[t].cc]]
    /\ step' = [step EXCEPT ![t] = "decide"]
    /\ UNCHANGED <<state, request, run, verdict, published, books, past>>

(* get_cost_center_budget: budget less the sum of the rows at this moment. *)
budget_position(t) ==
    /\ step[t] = "position"
    /\ remaining' = [remaining EXCEPT
                        ![t] = Budget[request[t].cc] - spent[request[t].cc]]
    /\ step' = [step EXCEPT ![t] = "decide"]
    /\ UNCHANGED <<state, request, run, verdict, published, books, past>>

(* Mutant of Covered: one unit too generous. *)
Covered_OffByOne(t) == request[t].usd <= remaining[t] + 1

(* service.assess, first branch: the position read does not cover it. *)
Covered(t) == request[t].usd <= remaining[t]

AssessRejected(t) ==
    /\ step[t] = "decide"
    /\ ~Covered(t)
    /\ verdict' = [verdict EXCEPT ![t] = "rejected"]
    /\ step' = [step EXCEPT ![t] = "publish"]
    /\ UNCHANGED <<state, request, run, remaining, published, books, past>>

(* Mutant of MustAsk: any token counts as the approval. *)
MustAsk_AnyToken(r) == r.requires /\ r.token = NoToken

(* requires_manager_approval and not approval_given. *)
MustAsk(r) == r.requires /\ r.token # authorization_code(r)

(* The second branch: a manager has to sign off and has not. *)
AssessNeedsApproval(t) ==
    /\ step[t] = "decide"
    /\ Covered(t)
    /\ MustAsk(request[t])
    /\ verdict' = [verdict EXCEPT ![t] = "needs_approval"]
    /\ step' = [step EXCEPT ![t] = "publish"]
    /\ UNCHANGED <<state, request, run, remaining, published, books, past>>

(* Mutant of SendCommit: the approval is not looked at. *)
SendCommit_Unasked(t) ==
    /\ step[t] = "decide"
    /\ Covered(t)
    /\ calls' = calls \cup
            {[id |-> run[t], code |-> authorization_code(request[t])]}
    /\ step' = [step EXCEPT ![t] = "committing"]
    /\ UNCHANGED <<state, request, run, remaining, verdict, published,
                   rows, spent, past>>

(* _commit: record_commitment is sent, and the run awaits its answer. *)
SendCommit(t) ==
    /\ step[t] = "decide"
    /\ Covered(t)
    /\ ~MustAsk(request[t])
    /\ calls' = calls \cup
            {[id |-> run[t], code |-> authorization_code(request[t])]}
    /\ step' = [step EXCEPT ![t] = "committing"]
    /\ UNCHANGED <<state, request, run, remaining, verdict, published,
                   rows, spent, past>>

(* record_commitment in the MCP server: the INSERT, with no check at all. *)
record_commitment(k) ==
    /\ k \in calls
    /\ calls' = calls \ {k}
    /\ rows' = rows \cup {k}
    /\ spent' = [spent EXCEPT ![k.code.cc] = @ + k.code.usd]
    /\ UNCHANGED <<desk, past>>

(* The call dies on the way, or the INSERT fails. *)
LoseCall(k) ==
    /\ k \in calls
    /\ calls' = calls \ {k}
    /\ UNCHANGED <<desk, rows, spent, past>>

MyCall(t) == [id |-> run[t], code |-> authorization_code(request[t])]

(* Mutant of AssessApproved: the verdict does not wait for the answer. *)
AssessApproved_Unawaited(t) ==
    /\ step[t] = "committing"
    /\ verdict' = [verdict EXCEPT ![t] = "approved"]
    /\ step' = [step EXCEPT ![t] = "publish"]
    /\ UNCHANGED <<state, request, run, remaining, published, books, past>>

(* The answer to record_commitment arrives. *)
AssessApproved(t) ==
    /\ step[t] = "committing"
    /\ MyCall(t) \in rows
    /\ verdict' = [verdict EXCEPT ![t] = "approved"]
    /\ step' = [step EXCEPT ![t] = "publish"]
    /\ UNCHANGED <<state, request, run, remaining, published, books, past>>

(* Mutant of AssessFails: the error is not turned into a failed task. *)
AssessFails_Uncaught(t) ==
    /\ step[t] \in {"position", "committing"}
    /\ step' = [step EXCEPT ![t] = "idle"]
    /\ UNCHANGED <<state, request, run, remaining, verdict, published, books, past>>

(* assess raises: a lookup that finds no cost centre, an MCP error, or the *)
(* HTTP timeout, which says nothing about what the server went on to do.   *)
AssessFails(t) ==
    /\ step[t] \in {"position", "committing"}
    /\ state' = [state EXCEPT ![t] = "failed"]
    /\ step' = [step EXCEPT ![t] = "idle"]
    /\ UNCHANGED <<request, run, remaining, verdict, published, books, past>>

(* The explanation is back (or was given up), and the verdict goes out:    *)
(* the code as the pending token of a pause, or as the authorization_code  *)
(* of an approval.                                                         *)
Publish(t) ==
    /\ step[t] = "publish"
    /\ published' = [published EXCEPT ![t] = TRUE]
    /\ issued' = IF verdict[t] = "rejected" THEN issued
                 ELSE issued \cup {authorization_code(request[t])}
    /\ step' = [step EXCEPT ![t] = "conclude"]
    /\ UNCHANGED <<state, request, run, remaining, verdict, books,
                   received, runs, crashes>>

(* Mutant of Conclude: every verdict completes the task. *)
Conclude_NeverPauses(t) ==
    /\ step[t] = "conclude"
    /\ state' = [state EXCEPT ![t] = "completed"]
    /\ step' = [step EXCEPT ![t] = "idle"]
    /\ UNCHANGED <<request, run, remaining, verdict, published, books, past>>

(* The artifact is followed by the status the task rests in.  A record     *)
(* that fails after it changes nothing.                                    *)
Conclude(t) ==
    /\ step[t] = "conclude"
    /\ state' = [state EXCEPT
           ![t] = IF verdict[t] = "needs_approval" THEN "input_required"
                                                  ELSE "completed"]
    /\ step' = [step EXCEPT ![t] = "idle"]
    /\ UNCHANGED <<request, run, remaining, verdict, published, books, past>>

(* LedgerExecutor.cancel, with the SDK stopping a run that is under way. *)
Cancel(t) ==
    /\ state[t] \in {"submitted", "working", "input_required"}
    /\ state' = [state EXCEPT ![t] = "canceled"]
    /\ step' = [step EXCEPT ![t] = "idle"]
    /\ UNCHANGED <<request, run, remaining, verdict, published, books, past>>

(* The agent's process restarts: runs are gone, tasks are in Postgres, and *)
(* calls already sent are in the MCP server.                               *)
Crash ==
    /\ crashes < MaxCrashes
    /\ \E t \in Task : step[t] # "idle"
    /\ crashes' = crashes + 1
    /\ step' = [t \in Task |-> "idle"]
    /\ UNCHANGED <<state, request, run, remaining, verdict, published, books,
                   issued, received, runs>>

-------------------------------------------------------------------------------
(* Callers hold only the codes Ledger has handed out. *)
Sendable == {r \in Request : r.token \in issued \cup {NoToken}}

(* What a live run does next by itself. *)
Advance(t) ==
    \/ budget_position(t)
    \/ AssessRejected(t)
    \/ AssessNeedsApproval(t)
    \/ SendCommit(t)
    \/ AssessApproved(t)
    \/ AssessFails(t)
    \/ Publish(t)
    \/ Conclude(t)

Next ==
    \/ \E t \in Task : \E r \in Sendable : Receive(t, r)
    \/ \E t \in Task : ReceiveUnusable(t) \/ ReceiveUnrecorded(t)
    \/ \E t \in Task : Advance(t)
    \/ \E t \in Task : Cancel(t)
    \/ \E k \in calls : record_commitment(k)
    \/ \E k \in calls : LoseCall(k)
    \/ Crash

Spec == Init /\ [][Next]_vars

(* Every await of a run ends: with the answer, an error, or the timeout. *)
FairSpec == Spec /\ \A t \in Task : WF_vars(Advance(t))
-------------------------------------------------------------------------------
(* Some request justified spending under this code: one that needed no     *)
(* approval, or one that presented the very code Ledger had handed out,    *)
(* with a pause or with an earlier approval of the same money.             *)
Sanctioned(c) ==
    \E r \in received :
        /\ authorization_code(r) = c
        /\ ~r.requires \/ (r.token = c /\ c \in issued)

(* "No money moves before a human says yes", and "if the trip is re-costed,  *)
(* the old approval should not carry over": whatever was resent, resumed,  *)
(* crashed or raced, each row, and each INSERT still on its way, is for    *)
(* exactly a trip, centre and total that needed no approval or that Ledger *)
(* itself had given its caller the code of.                                *)
MoneyIsSanctioned == \A k \in rows \cup calls : Sanctioned(k.code)

(* What Ledger says is what the books hold: an approved run has its own    *)
(* row, no two runs share one, and a run that was rejected or paused for   *)
(* approval has neither a row nor an INSERT on its way, not even after the *)
(* task is cancelled or the process has restarted.                         *)
VerdictMatchesBooks ==
    /\ \A t \in Task :
        /\ verdict[t] = "approved" => MyCall(t) \in rows
        /\ verdict[t] \in {"rejected", "needs_approval"} =>
              \A k \in rows \cup calls : k.id # run[t]
    /\ \A k, l \in rows \cup calls : k.id = l.id => k = l
    /\ rows \cap calls = {}

(* A paused task can be settled: its caller was told the code that settles *)
(* it, and a completed one has a final verdict.                            *)
SettledAsSaid ==
    \A t \in Task :
        /\ state[t] = "input_required" =>
              /\ verdict[t] = "needs_approval"
              /\ authorization_code(request[t]) \in issued
        /\ state[t] = "completed" => verdict[t] \in {"approved", "rejected"}

(* "No level of approval can spend money the cost centre does not have."   *)
NoOverdraft == \A cc \in Centre : spent[cc] <= Budget[cc]

(* Every run is answered: the task it works on stops working, unless a     *)
(* restart takes that very run away.  A message whose record cannot be     *)
(* written has no run, and its task can stay open for good.                *)
EveryMessageAnswered ==
    \A t \in Task, c \in 0 .. MaxCrashes :
        step[t] # "idle" /\ crashes = c
            ~> state[t] \notin {"submitted", "working"} \/ crashes > c

-------------------------------------------------------------------------------
(* The money of a centre is in one pair of hands: a run that has read the  *)
(* position and not yet decided, or an INSERT on its way, but never two of *)
(* these.  Nothing in the code enforces it.                                *)
Deciding(t, cc) == step[t] = "decide" /\ request[t].cc = cc

Serial ==
    \A cc \in Centre :
        /\ \A t, u \in Task : Deciding(t, cc) /\ Deciding(u, cc) => t = u
        /\ \A k, l \in calls : k.code.cc = cc /\ l.code.cc = cc => k = l
        /\ \A t \in Task, k \in calls : ~(Deciding(t, cc) /\ k.code.cc = cc)

Account == INSTANCE CostCentre
             WITH balance <- [cc \in Centre |-> Budget[cc] - spent[cc]]

(* Every INSERT draws from a balance that covers it: the detailed desk     *)
(* behaves as the abstract account of module CostCentre.                   *)
IsACostCentre == Account!Spec
===============================================================================
