----------------------------- MODULE LedgerProofs -----------------------------
(***************************************************************************)
(* Proofs about the Ledger agent for every set of tasks, trips, centres,   *)
(* amounts and budgets, and every bound.                                   *)
(*                                                                         *)
(*   LedgerTypeCorrect     the type invariant                              *)
(*   LedgerSettles         a paused task can be settled (SettledAsSaid)    *)
(*   LedgerSanctioned      money moves only with a sanction                *)
(*   LedgerVerdicts        verdicts agree with the books                   *)
(*   LedgerIsACostCentre   serial use implements CostCentre                *)
(*   LedgerNoOverdraft     serial use never overdraws a centre             *)
(***************************************************************************)
EXTENDS Ledger, TLAPS

USE AmountAssumption, BudgetAssumption, MaxMessagesAssumption,
    MaxCrashesAssumption, NoTokenAssumption, NoRequestAssumption

-------------------------------------------------------------------------------
(* Type correctness: every variable of the desk keeps its type, and a live *)
(* run always has a request to work on.                                    *)
LEMMA TypeStep == TypeOK /\ [Next]_vars => TypeOK'
<1> SUFFICES ASSUME TypeOK, [Next]_vars PROVE TypeOK'
  OBVIOUS
<1> USE DEF TypeOK, Terminal
<1>1. ASSUME NEW t \in Task, NEW r \in Sendable, Receive(t, r) PROVE TypeOK'
  <2>1. r \in Request
    BY DEF Sendable
  <2> QED BY <1>1, <2>1 DEF Receive, books
<1>2. ASSUME NEW t \in Task, ReceiveUnusable(t) PROVE TypeOK'
  BY <1>2 DEF ReceiveUnusable, books
<1>2a. ASSUME NEW t \in Task, ReceiveUnrecorded(t) PROVE TypeOK'
  BY <1>2a DEF ReceiveUnrecorded, books
<1>3. ASSUME NEW t \in Task, budget_position(t) PROVE TypeOK'
  <2>1. request[t].cc \in Centre
    BY <1>3 DEF budget_position, Request
  <2>2. Budget[request[t].cc] - spent[request[t].cc] \in Int
    BY <2>1
  <2> QED BY <1>3, <2>2 DEF budget_position, books, past
<1>4. ASSUME NEW t \in Task, AssessRejected(t) PROVE TypeOK'
  BY <1>4 DEF AssessRejected, books, past
<1>5. ASSUME NEW t \in Task, AssessNeedsApproval(t) PROVE TypeOK'
  BY <1>5 DEF AssessNeedsApproval, books, past
<1>6. ASSUME NEW t \in Task, SendCommit(t) PROVE TypeOK'
  <2>1. [id |-> run[t], code |-> authorization_code(request[t])] \in Call
    BY <1>6 DEF SendCommit, Call, Code, Request, authorization_code
  <2> QED BY <1>6, <2>1 DEF SendCommit, past
<1>7. ASSUME NEW t \in Task, AssessApproved(t) PROVE TypeOK'
  BY <1>7 DEF AssessApproved, books, past
<1>8. ASSUME NEW t \in Task, AssessFails(t) PROVE TypeOK'
  BY <1>8 DEF AssessFails, books, past
<1>9. ASSUME NEW t \in Task, Publish(t) PROVE TypeOK'
  <2>1. authorization_code(request[t]) \in Code
    BY <1>9 DEF Publish, Code, Request, authorization_code
  <2>2. issued' \subseteq Code
    BY <1>9, <2>1 DEF Publish
  <2> QED BY <1>9, <2>2 DEF Publish, books
<1>9a. ASSUME NEW t \in Task, Conclude(t) PROVE TypeOK'
  BY <1>9a DEF Conclude, books, past
<1>10. ASSUME NEW t \in Task, Cancel(t) PROVE TypeOK'
  BY <1>10 DEF Cancel, books, past
<1>11. ASSUME NEW k \in calls, record_commitment(k) PROVE TypeOK'
  <2>1. k.code.cc \in Centre /\ k.code.usd \in Nat
    BY DEF Call, Code
  <2>2. spent' \in [Centre -> Nat]
    BY <1>11, <2>1 DEF record_commitment
  <2> QED BY <1>11, <2>2 DEF record_commitment, desk, past
<1>12. ASSUME NEW k \in calls, LoseCall(k) PROVE TypeOK'
  BY <1>12 DEF LoseCall, desk, past
<1>13. CASE Crash
  BY <1>13 DEF Crash, books
<1>14. CASE UNCHANGED vars
  BY <1>14 DEF vars, desk, books, past
<1> QED
  BY <1>1, <1>2, <1>2a, <1>3, <1>4, <1>5, <1>6, <1>7, <1>8, <1>9, <1>9a,
     <1>10, <1>11, <1>12, <1>13, <1>14 DEF Next, Advance

LEMMA TypeInit == Init => TypeOK
  BY DEF Init, TypeOK, Terminal

THEOREM LedgerTypeCorrect == Spec => []TypeOK
<1>1. QED
  BY TypeInit, TypeStep, PTL DEF Spec

-------------------------------------------------------------------------------
(* Where a run stands, against the state and verdict of its task, and what *)
(* an artifact that is out has told: the part of the inductive invariant   *)
(* that later steps lean on.                                               *)
Control ==
    \A t \in Task :
        /\ step[t] # "idle" => state[t] = "working"
        /\ step[t] \in {"position", "decide", "committing"} =>
              verdict[t] = "none"
        /\ step[t] \in {"publish", "conclude"} => verdict[t] # "none"
        /\ step[t] = "conclude" => published[t]
        /\ published[t] =>
              /\ step[t] \in {"conclude", "idle"} /\ verdict[t] # "none"
              /\ verdict[t] = "needs_approval" =>
                    authorization_code(request[t]) \in issued

SettledInv == TypeOK /\ Control /\ SettledAsSaid

LEMMA SettledStep == SettledInv /\ [Next]_vars => SettledInv'
<1> SUFFICES ASSUME SettledInv, [Next]_vars PROVE (Control /\ SettledAsSaid)'
  BY TypeStep DEF SettledInv
<1> USE DEF SettledInv, TypeOK, Control, SettledAsSaid, Terminal
<1>1. ASSUME NEW t \in Task, NEW r \in Sendable, Receive(t, r)
      PROVE  (Control /\ SettledAsSaid)'
  BY <1>1 DEF Receive, books
<1>2. ASSUME NEW t \in Task, ReceiveUnusable(t) \/ ReceiveUnrecorded(t)
      PROVE  (Control /\ SettledAsSaid)'
  BY <1>2 DEF ReceiveUnusable, ReceiveUnrecorded, books
<1>3. ASSUME NEW t \in Task, Advance(t) PROVE (Control /\ SettledAsSaid)'
  <2>1. CASE budget_position(t)
    BY <2>1 DEF budget_position, books, past
  <2>2. CASE AssessRejected(t)
    BY <2>2 DEF AssessRejected, books, past
  <2>3. CASE AssessNeedsApproval(t)
    BY <2>3 DEF AssessNeedsApproval, books, past
  <2>4. CASE SendCommit(t)
    BY <2>4 DEF SendCommit, past
  <2>5. CASE AssessApproved(t)
    BY <2>5 DEF AssessApproved, books, past
  <2>6. CASE AssessFails(t)
    BY <2>6 DEF AssessFails, books, past
  <2>7. CASE Publish(t)
    BY <2>7 DEF Publish, books
  <2>8. CASE Conclude(t)
    BY <2>8 DEF Conclude, books, past
  <2> QED BY <1>3, <2>1, <2>2, <2>3, <2>4, <2>5, <2>6, <2>7, <2>8 DEF Advance
<1>4. ASSUME NEW t \in Task, Cancel(t) PROVE (Control /\ SettledAsSaid)'
  BY <1>4 DEF Cancel, books, past
<1>5. ASSUME NEW k \in calls, record_commitment(k)
      PROVE  (Control /\ SettledAsSaid)'
  BY <1>5 DEF record_commitment, desk, past
<1>6. ASSUME NEW k \in calls, LoseCall(k) PROVE (Control /\ SettledAsSaid)'
  BY <1>6 DEF LoseCall, desk, past
<1>7. CASE Crash
  BY <1>7 DEF Crash, books
<1>8. CASE UNCHANGED vars
  BY <1>8 DEF vars, desk, books, past
<1> QED
  BY <1>1, <1>2, <1>3, <1>4, <1>5, <1>6, <1>7, <1>8 DEF Next

LEMMA SettledInit == Init => SettledInv
  BY TypeInit DEF Init, SettledInv, Control, SettledAsSaid, TypeOK

(* A paused task can be settled: its run ended with a needs_approval       *)
(* verdict and its code was handed out.  LedgerExecutor.execute, the       *)
(* artifact and then the branch on verdict.decision.                       *)
THEOREM LedgerSettles == Spec => []SettledAsSaid
<1>1. SettledInv => SettledAsSaid
  BY DEF SettledInv
<1> QED BY SettledInit, SettledStep, <1>1, PTL DEF Spec

-------------------------------------------------------------------------------
(* The request of a live run is one that was received, and tokens come     *)
(* from Ledger: with that, every commitment sent had its sanction.         *)
SanctionInv ==
    /\ TypeOK
    /\ \A t \in Task : step[t] # "idle" => request[t] \in received
    /\ \A r \in received : r.token \in issued \cup {NoToken}
    /\ MoneyIsSanctioned

(* What is sanctioned stays sanctioned: requests are never unsent. *)
LEMMA SanctionStays ==
  ASSUME received \subseteq received', issued \subseteq issued',
         NEW c, Sanctioned(c)
  PROVE  Sanctioned(c)'
  BY DEF Sanctioned, authorization_code

LEMMA SanctionStep == SanctionInv /\ [Next]_vars => SanctionInv'
<1> SUFFICES ASSUME SanctionInv, [Next]_vars PROVE SanctionInv'
  OBVIOUS
<1>0. TypeOK'
  BY TypeStep DEF SanctionInv
<1> USE DEF SanctionInv
<1>1. ASSUME UNCHANGED <<received, issued, rows, calls>>,
             \A t \in Task : step'[t] # "idle" =>
                 step[t] # "idle" /\ request'[t] = request[t]
      PROVE  SanctionInv'
  BY <1>0, <1>1 DEF MoneyIsSanctioned, Sanctioned, authorization_code
<1>2. ASSUME NEW t \in Task, NEW r \in Sendable, Receive(t, r)
      PROVE  SanctionInv'
  <2>1. received \subseteq received' /\ issued' = issued
    BY <1>2 DEF Receive
  <2>2. MoneyIsSanctioned'
    BY <1>2, <2>1, SanctionStays DEF Receive, books, MoneyIsSanctioned
  <2>3. \A q \in received' : q.token \in issued' \cup {NoToken}
    BY <1>2 DEF Receive, Sendable
  <2>4. \A u \in Task : step'[u] # "idle" => request'[u] \in received'
    BY <1>2 DEF Receive, TypeOK
  <2> QED BY <1>0, <2>2, <2>3, <2>4
<1>3. ASSUME NEW t \in Task, ReceiveUnusable(t) \/ ReceiveUnrecorded(t)
      PROVE  SanctionInv'
  BY <1>3, <1>1 DEF ReceiveUnusable, ReceiveUnrecorded, books
<1>4. ASSUME NEW t \in Task, Advance(t) PROVE SanctionInv'
  <2>1. CASE budget_position(t)
    BY <2>1, <1>1 DEF budget_position, books, past, TypeOK
  <2>2. CASE AssessRejected(t)
    BY <2>2, <1>1 DEF AssessRejected, books, past, TypeOK
  <2>3. CASE AssessNeedsApproval(t)
    BY <2>3, <1>1 DEF AssessNeedsApproval, books, past, TypeOK
  <2>4. CASE SendCommit(t)
    <3> DEFINE k == [id |-> run[t], code |-> authorization_code(request[t])]
    <3>1. request[t] \in received /\ request[t] \in Request
      BY <2>4 DEF SendCommit, TypeOK
    <3>2. ~request[t].requires \/ request[t].token = authorization_code(request[t])
      BY <2>4 DEF SendCommit, MustAsk
    <3>3. authorization_code(request[t]) # NoToken
      BY <3>1 DEF authorization_code, Request, Code
    <3>4. Sanctioned(k.code)
      BY <3>1, <3>2, <3>3 DEF Sanctioned
    <3>5. calls' = calls \cup {k} /\ UNCHANGED <<rows, received, issued>>
      BY <2>4 DEF SendCommit, past
    <3>6. MoneyIsSanctioned'
      BY <3>4, <3>5, SanctionStays DEF MoneyIsSanctioned
    <3>7. \A u \in Task : step'[u] # "idle" => request'[u] \in received'
      BY <2>4 DEF SendCommit, past, TypeOK
    <3> QED BY <1>0, <3>5, <3>6, <3>7
  <2>5. CASE AssessApproved(t)
    BY <2>5, <1>1 DEF AssessApproved, books, past, TypeOK
  <2>6. CASE AssessFails(t)
    BY <2>6, <1>1 DEF AssessFails, books, past, TypeOK
  <2>7. CASE Publish(t)
    <3>1. issued \subseteq issued' /\ received' = received
      BY <2>7 DEF Publish
    <3>2. MoneyIsSanctioned'
      BY <2>7, <3>1, SanctionStays DEF Publish, books, MoneyIsSanctioned
    <3>3. \A u \in Task : step'[u] # "idle" => request'[u] \in received'
      BY <2>7 DEF Publish, TypeOK
    <3> QED BY <1>0, <3>1, <3>2, <3>3
  <2>8. CASE Conclude(t)
    BY <2>8, <1>1 DEF Conclude, books, past, TypeOK
  <2> QED BY <1>4, <2>1, <2>2, <2>3, <2>4, <2>5, <2>6, <2>7, <2>8 DEF Advance
<1>5. ASSUME NEW t \in Task, Cancel(t) PROVE SanctionInv'
  BY <1>5, <1>1 DEF Cancel, books, past, TypeOK
<1>6. ASSUME NEW k \in calls, record_commitment(k) PROVE SanctionInv'
  <2>1. rows' \cup calls' = rows \cup calls /\ UNCHANGED <<received, issued>>
    BY <1>6 DEF record_commitment, past
  <2>2. MoneyIsSanctioned'
    BY <2>1, SanctionStays DEF MoneyIsSanctioned
  <2> QED BY <1>0, <1>6, <2>2 DEF record_commitment, desk, past
<1>7. ASSUME NEW k \in calls, LoseCall(k) PROVE SanctionInv'
  <2>1. rows' \cup calls' \subseteq rows \cup calls /\ UNCHANGED <<received, issued>>
    BY <1>7 DEF LoseCall, past
  <2>2. MoneyIsSanctioned'
    BY <2>1, SanctionStays DEF MoneyIsSanctioned
  <2> QED BY <1>0, <1>7, <2>2 DEF LoseCall, desk, past
<1>8. CASE Crash
  BY <1>8, <1>1 DEF Crash, books
<1>9. CASE UNCHANGED vars
  BY <1>9, <1>1 DEF vars, desk, books, past
<1> QED
  BY <1>2, <1>3, <1>4, <1>5, <1>6, <1>7, <1>8, <1>9 DEF Next

LEMMA SanctionInit == Init => SanctionInv
  BY TypeInit DEF Init, SanctionInv, MoneyIsSanctioned

(* No row and no INSERT under way is without a request that either needed  *)
(* no approval or presented the code Ledger had handed out for exactly its *)
(* trip, centre and total (service.assess, authorization_code).            *)
THEOREM LedgerSanctioned == Spec => []MoneyIsSanctioned
<1>1. SanctionInv => MoneyIsSanctioned
  BY DEF SanctionInv
<1> QED BY SanctionInit, SanctionStep, <1>1, PTL DEF Spec

-------------------------------------------------------------------------------
(* Run numbers tell runs apart: no two tasks share one, no call is older   *)
(* than its run, and a run that has not decided has sent nothing.          *)
RunsApart ==
    /\ \A t \in Task : run[t] <= runs
    /\ \A t \in Task : step[t] # "idle" => run[t] # 0
    /\ \A t, u \in Task : run[t] = run[u] /\ run[t] # 0 => t = u
    /\ \A k \in rows \cup calls : k.id # 0 /\ k.id <= runs
    /\ \A t \in Task : step[t] \in {"position", "decide"} =>
          \A k \in rows \cup calls : k.id # run[t]

VerdictInv == TypeOK /\ Control /\ RunsApart /\ VerdictMatchesBooks

LEMMA VerdictStep ==
  SettledInv /\ VerdictInv /\ [Next]_vars => VerdictInv'
<1> SUFFICES ASSUME SettledInv, VerdictInv, [Next]_vars
             PROVE  (RunsApart /\ VerdictMatchesBooks)'
  BY SettledStep DEF SettledInv, VerdictInv
<1> DEFINE Goal == (RunsApart /\ VerdictMatchesBooks)'
<1> USE DEF VerdictInv, RunsApart, VerdictMatchesBooks, MyCall,
            authorization_code
<1>1. ASSUME NEW t \in Task, NEW r \in Sendable, Receive(t, r) PROVE Goal
  <2>1. rows' \cup calls' = rows \cup calls /\ UNCHANGED <<rows, calls>>
    BY <1>1 DEF Receive, books
  <2>2. runs \in Nat /\ runs' = runs + 1 /\ run' = [run EXCEPT ![t] = runs + 1]
    BY <1>1 DEF Receive, TypeOK
  <2>3. RunsApart'
    BY <1>1, <2>1, <2>2 DEF Receive, TypeOK, Call
  <2>4. \A u \in Task : u # t =>
          /\ verdict'[u] = verdict[u]
          /\ request'[u] = request[u]
          /\ run'[u] = run[u]
    BY <1>1 DEF Receive, TypeOK
  <2>5. verdict'[t] = "none"
    BY <1>1 DEF Receive, TypeOK
  <2> QED BY <2>1, <2>3, <2>4, <2>5
<1>2. ASSUME NEW t \in Task, ReceiveUnusable(t) \/ ReceiveUnrecorded(t)
      PROVE  Goal
  BY <1>2 DEF ReceiveUnusable, ReceiveUnrecorded, books, TypeOK, Call
<1>3. ASSUME NEW t \in Task, Advance(t) PROVE Goal
  <2>1. CASE budget_position(t)
    BY <2>1 DEF budget_position, books, past, TypeOK
  <2>2. CASE AssessRejected(t)
    BY <2>2 DEF AssessRejected, books, past, TypeOK
  <2>3. CASE AssessNeedsApproval(t)
    BY <2>3 DEF AssessNeedsApproval, books, past, TypeOK
  <2>4. CASE SendCommit(t)
    <3> DEFINE k == [id |-> run[t], code |-> authorization_code(request[t])]
    <3>1. /\ calls' = calls \cup {k}
          /\ step' = [step EXCEPT ![t] = "committing"]
          /\ UNCHANGED <<request, run, verdict, rows, runs>>
      BY <2>4 DEF SendCommit, past
    <3>2. /\ \A l \in rows \cup calls : l.id # k.id
          /\ k.id # 0 /\ k.id <= runs
          /\ verdict[t] = "none"
      BY <2>4 DEF SendCommit, Control
    <3>3. \A u \in Task : u # t => run[u] # k.id
      BY <3>2
    <3>4. RunsApart'
      BY <3>1, <3>2, <3>3 DEF TypeOK
    <3>5. \A a, b \in rows' \cup calls' : a.id = b.id => a = b
      BY <3>1, <3>2
    <3>6. rows' \cap calls' = {}
      BY <3>1, <3>2
    <3> QED BY <3>1, <3>2, <3>3, <3>4, <3>5, <3>6
  <2>5. CASE AssessApproved(t)
    BY <2>5 DEF AssessApproved, books, past, TypeOK
  <2>6. CASE AssessFails(t)
    BY <2>6 DEF AssessFails, books, past, TypeOK
  <2>7. CASE Publish(t)
    BY <2>7 DEF Publish, books, TypeOK
  <2>8. CASE Conclude(t)
    BY <2>8 DEF Conclude, books, past, TypeOK
  <2> QED BY <1>3, <2>1, <2>2, <2>3, <2>4, <2>5, <2>6, <2>7, <2>8 DEF Advance
<1>4. ASSUME NEW t \in Task, Cancel(t) PROVE Goal
  BY <1>4 DEF Cancel, books, past, TypeOK
<1>5. ASSUME NEW k \in calls, record_commitment(k) PROVE Goal
  <2>1. /\ rows' \cup calls' = rows \cup calls
        /\ rows \subseteq rows'
        /\ rows' \cap calls' = {}
    BY <1>5 DEF record_commitment
  <2> QED BY <1>5, <2>1 DEF record_commitment, desk, past
<1>6. ASSUME NEW k \in calls, LoseCall(k) PROVE Goal
  BY <1>6 DEF LoseCall, desk, past
<1>7. CASE Crash
  BY <1>7 DEF Crash, books
<1>8. CASE UNCHANGED vars
  BY <1>8 DEF vars, desk, books, past
<1> QED
  BY <1>1, <1>2, <1>3, <1>4, <1>5, <1>6, <1>7, <1>8 DEF Next

LEMMA VerdictInit == Init => VerdictInv
  BY SettledInit DEF Init, SettledInv, VerdictInv, RunsApart,
     VerdictMatchesBooks

(* An approved run has its own row; a rejected or paused one has neither a *)
(* row nor an INSERT under way; no row is written twice (service.assess    *)
(* and record_commitment, across cancel, timeout and restart).             *)
THEOREM LedgerVerdicts == Spec => []VerdictMatchesBooks
<1>1. VerdictInv => VerdictMatchesBooks
  BY DEF VerdictInv
<1> QED
  BY SettledInit, SettledStep, VerdictInit, VerdictStep, <1>1, PTL DEF Spec

-------------------------------------------------------------------------------
(* While a centre's money is in one pair of hands, whoever holds it knows  *)
(* the balance: the position a run has read is still the position, and an  *)
(* INSERT on its way still fits.                                           *)
HolderKnows ==
    /\ \A t \in Task : step[t] = "decide" =>
          remaining[t] = Budget[request[t].cc] - spent[request[t].cc]
    /\ \A k \in calls : k.code.usd <= Budget[k.code.cc] - spent[k.code.cc]

SerialInv == TypeOK /\ HolderKnows /\ NoOverdraft

LEMMA SerialStep == SerialInv /\ Serial /\ [Next]_vars => SerialInv'
<1> SUFFICES ASSUME SerialInv, Serial, [Next]_vars
             PROVE  (HolderKnows /\ NoOverdraft)'
  BY TypeStep DEF SerialInv
<1> USE DEF SerialInv
<1>1. ASSUME UNCHANGED <<spent, remaining>>, calls' \subseteq calls,
             \A t \in Task : step'[t] = "decide" =>
                 step[t] = "decide" /\ request'[t] = request[t]
      PROVE  (HolderKnows /\ NoOverdraft)'
  BY <1>1 DEF HolderKnows, NoOverdraft
<1>2. ASSUME NEW t \in Task, NEW r \in Sendable, Receive(t, r)
      PROVE  (HolderKnows /\ NoOverdraft)'
  BY <1>2, <1>1 DEF Receive, books, TypeOK
<1>3. ASSUME NEW t \in Task, ReceiveUnusable(t) \/ ReceiveUnrecorded(t)
      PROVE  (HolderKnows /\ NoOverdraft)'
  BY <1>3, <1>1 DEF ReceiveUnusable, ReceiveUnrecorded, books
<1>4. ASSUME NEW t \in Task, Advance(t) PROVE (HolderKnows /\ NoOverdraft)'
  <2>1. CASE budget_position(t)
    BY <2>1 DEF budget_position, books, TypeOK, HolderKnows, NoOverdraft
  <2>2. CASE AssessRejected(t)
    BY <2>2, <1>1 DEF AssessRejected, books, TypeOK
  <2>3. CASE AssessNeedsApproval(t)
    BY <2>3, <1>1 DEF AssessNeedsApproval, books, TypeOK
  <2>4. CASE SendCommit(t)
    <3> DEFINE k == [id |-> run[t], code |-> authorization_code(request[t])]
    <3>1. k.code.usd <= Budget[k.code.cc] - spent[k.code.cc]
      BY <2>4 DEF SendCommit, Covered, HolderKnows, authorization_code
    <3>2. /\ calls' = calls \cup {k}
          /\ step' = [step EXCEPT ![t] = "committing"]
          /\ UNCHANGED <<request, remaining, spent>>
      BY <2>4 DEF SendCommit
    <3> QED BY <3>1, <3>2 DEF HolderKnows, NoOverdraft, TypeOK
  <2>5. CASE AssessApproved(t)
    BY <2>5, <1>1 DEF AssessApproved, books, TypeOK
  <2>6. CASE AssessFails(t)
    BY <2>6, <1>1 DEF AssessFails, books, TypeOK
  <2>7. CASE Publish(t)
    BY <2>7, <1>1 DEF Publish, books, TypeOK
  <2>8. CASE Conclude(t)
    BY <2>8, <1>1 DEF Conclude, books, TypeOK
  <2> QED BY <1>4, <2>1, <2>2, <2>3, <2>4, <2>5, <2>6, <2>7, <2>8 DEF Advance
<1>5. ASSUME NEW t \in Task, Cancel(t) PROVE (HolderKnows /\ NoOverdraft)'
  BY <1>5, <1>1 DEF Cancel, books, TypeOK
<1>6. ASSUME NEW k \in calls, record_commitment(k)
      PROVE  (HolderKnows /\ NoOverdraft)'
  <2> DEFINE cc == k.code.cc
  <2>1. cc \in Centre /\ k.code.usd \in Nat
    BY DEF TypeOK, Call, Code
  <2>2. spent' = [spent EXCEPT ![cc] = @ + k.code.usd] /\ calls' = calls \ {k}
    BY <1>6 DEF record_commitment
  <2>3. UNCHANGED <<step, request, remaining>>
    BY <1>6 DEF record_commitment, desk
  <2>4. ASSUME NEW t \in Task, step[t] = "decide" PROVE request[t].cc # cc
    BY <2>1, <2>4 DEF Serial, Deciding
  <2>5. ASSUME NEW l \in calls, l # k PROVE l.code.cc # cc
    BY <2>1, <2>5 DEF Serial
  <2>6. NoOverdraft'
    BY <2>1, <2>2 DEF NoOverdraft, HolderKnows, TypeOK
  <2>7. \A t \in Task : step[t] = "decide" => request[t].cc \in Centre
    BY DEF TypeOK, Request
  <2>8. \A l \in calls : l.code.cc \in Centre
    BY DEF TypeOK, Call, Code
  <2>9. HolderKnows'
    BY <2>1, <2>2, <2>3, <2>4, <2>5, <2>7, <2>8 DEF HolderKnows, TypeOK
  <2> QED BY <2>6, <2>9
<1>7. ASSUME NEW k \in calls, LoseCall(k) PROVE (HolderKnows /\ NoOverdraft)'
  BY <1>7, <1>1 DEF LoseCall, desk
<1>8. CASE Crash
  BY <1>8, <1>1 DEF Crash, books
<1>9. CASE UNCHANGED vars
  BY <1>9, <1>1 DEF vars, desk, books
<1> QED
  BY <1>2, <1>3, <1>4, <1>5, <1>6, <1>7, <1>8, <1>9 DEF Next

LEMMA SerialInit == Init => SerialInv
  BY TypeInit DEF Init, SerialInv, HolderKnows, NoOverdraft

(* As long as each centre's money is in one pair of hands, the sum of the  *)
(* commitments stays within the budget (service.assess, the comparison     *)
(* with remaining_before, followed by _commit).                            *)
THEOREM LedgerNoOverdraft == Spec /\ []Serial => []NoOverdraft
<1>1. SerialInv => NoOverdraft
  BY DEF SerialInv
<1> QED BY SerialInit, SerialStep, <1>1, PTL DEF Spec

(* Under the same condition the read, the decision and the INSERT together *)
(* have the effect of one indivisible draw on the account of CostCentre.   *)
THEOREM LedgerIsACostCentre == Spec /\ []Serial => IsACostCentre
<1> DEFINE bal == [cc \in Centre |-> Budget[cc] - spent[cc]]
<1>1. Init => Account!Init
  BY DEF Init, Account!Init
<1>2. SerialInv /\ [Next]_vars => [Account!Next]_bal
  <2> SUFFICES ASSUME SerialInv, [Next]_vars, spent' # spent
               PROVE  Account!Next
    BY DEF Account!Next
  <2>1. PICK k \in calls : record_commitment(k)
    BY DEF Next, Advance, vars, desk, books, past, Receive, ReceiveUnusable,
       ReceiveUnrecorded, budget_position, AssessRejected, AssessNeedsApproval,
       SendCommit, AssessApproved, AssessFails, Publish, Conclude, Cancel,
       LoseCall, Crash
  <2> DEFINE cc == k.code.cc
  <2>2. cc \in Centre /\ k.code.usd \in Amount
    BY DEF SerialInv, TypeOK, Call, Code
  <2>3. spent' = [spent EXCEPT ![cc] = @ + k.code.usd]
    BY <2>1 DEF record_commitment
  <2>4. k.code.usd <= bal[cc]
    BY <2>2 DEF SerialInv, HolderKnows
  <2>5. bal' = [bal EXCEPT ![cc] = @ - k.code.usd]
    <3>1. k.code.usd \in Nat /\ spent \in [Centre -> Nat]
      BY <2>2 DEF SerialInv, TypeOK
    <3>2. \A c \in Centre : spent'[c] = IF c = cc THEN spent[c] + k.code.usd
                                                 ELSE spent[c]
      BY <2>2, <2>3, <3>1
    <3>3. \A c \in Centre : Budget[c] - spent'[c] =
              IF c = cc THEN (Budget[c] - spent[c]) - k.code.usd
                        ELSE Budget[c] - spent[c]
      BY <3>1, <3>2
    <3> QED BY <3>3, <2>2
  <2>6. Account!Draw(cc, k.code.usd)
    BY <2>4, <2>5 DEF Account!Draw
  <2> QED BY <2>2, <2>6 DEF Account!Next
<1> QED
  BY SerialInit, SerialStep, <1>1, <1>2, PTL
     DEF Spec, IsACostCentre, Account!Spec
===============================================================================
