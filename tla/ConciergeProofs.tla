---------------------------- MODULE ConciergeProofs ----------------------------
(***************************************************************************)
(* The Concierge's promises, proved for every number of trips and restarts, *)
(* every set of stays and every reply of the peers: what is confirmed is    *)
(* what was ruled on, funded and let pass, the cap is negotiated once, and  *)
(* what a caller is told is told once.                                      *)
(*                                                                         *)
(* The argument is an inductive invariant of each thread: what the trip    *)
(* state holds when the thread stands at a node.  The properties look at   *)
(* the last node only, where a thread without an error has all of it.      *)
(***************************************************************************)
EXTENDS Concierge, TLAPS

(* A thread at the end of the graph that carries no error. *)
Clean(n, tr) == n = "end" /\ tr.error = None

Ruled(n, tr) ==
    n \in {"renegotiate", "authorise", "await_approval", "confirm", "assemble"}
    \/ Clean(n, tr)

Asking(n, tr) ==
    n \in {"authorise", "await_approval", "confirm", "assemble"} \/ Clean(n, tr)

Settled(n, tr) == n = "assemble" \/ Clean(n, tr)

LetPass(m) == m \in {"approve", "unclear"}

(* What a thread at node n with trip state tr has behind it; m is the      *)
(* message its pause was answered with.                                    *)
ThreadInv(n, tr, m) ==
    /\ tr.error # None => n = "end"
    /\ n = "screen" => tr.stay \in Stay
    /\ n \in {"intake", "source", "screen", "renegotiate", "authorise"} =>
          tr.token = None
    /\ Ruled(n, tr) => tr.stay \in Stay /\ tr.ruling \in Rulings(tr.stay)
    /\ n = "renegotiate" => ~tr.renegotiated
    /\ Asking(n, tr) /\ tr.ruling.cap => tr.renegotiated
    /\ n = "await_approval" =>
          /\ tr.budget \in Verdict
          /\ tr.budget.decision = "needs_approval"
          /\ tr.budget.token \in Token
    /\ n = "confirm" => tr.token \in Token /\ LetPass(m)
    /\ Settled(n, tr) =>
          /\ tr.budget \in Verdict
          /\ tr.budget.usd = Usd[tr.stay]
          /\ tr.budget.decision # "needs_approval"
          /\ tr.budget.decision = "approved" => ~tr.ruling.approval \/ LetPass(m)
    /\ Clean(n, tr) => tr.status = ItineraryStatus(tr)

(* How the persisted task k, the run (under way if l) and the reporting of *)
(* a thread go together.                                                   *)
TaskInv(k, l, n, tr, rep, tld) ==
    /\ k # "none"
    /\ k = "completed" => Clean(n, tr)
    /\ k = "input_required" => n = "await_approval"
    /\ tld = tr.journal
    /\ l => rep = tr.journal

TripInv(t) ==
    /\ task[t] = "none" => told[t] = 0
    /\ trip[t] # None =>
          /\ ThreadInv(node[t], trip[t], said[t])
          /\ TaskInv(task[t], live[t], node[t], trip[t], reported[t], told[t])

IInv == TypeOK /\ \A t \in Trip : TripInv(t)

-------------------------------------------------------------------------------
LEMMA InitIInv == Init => IInv
<1> SUFFICES ASSUME Init PROVE IInv
  OBVIOUS
<1>1. TypeOK
  BY MaxRestartsAssumption DEF Init, TypeOK, Node, Terminal
<1>2. \A t \in Trip : TripInv(t)
  BY DEF Init, TripInv
<1> QED BY <1>1, <1>2 DEF IInv

(* The fields of a trip state, and that no trip state is None. *)
LEMMA TripFields ==
  ASSUME TypeOK, NEW t \in Trip, trip[t] # None
  PROVE  trip[t] \in TripState
BY DEF TypeOK

LEMMA LiveThread ==
  ASSUME IInv, NEW t \in Trip, live[t]
  PROVE  /\ trip[t] \in TripState /\ trip[t] # None /\ task[t] = "working"
         /\ node[t] \in Node /\ said[t] \in Message \cup {None}
         /\ reported[t] = trip[t].journal /\ told[t] = trip[t].journal
         /\ ThreadInv(node[t], trip[t], said[t])
<1>1. trip[t] # None /\ task[t] = "working"
  BY DEF IInv, TypeOK
<1>2. trip[t] \in TripState
  BY <1>1, TripFields DEF IInv
<1>3. node[t] \in Node /\ said[t] \in Message \cup {None}
  BY DEF IInv, TypeOK
<1>4. TripInv(t)
  BY DEF IInv
<1> QED BY <1>1, <1>2, <1>3, <1>4 DEF TripInv, TaskInv

(* ThreadInv says nothing of the journal. *)
LEMMA JournalAside ==
  ASSUME NEW n, NEW tr \in TripState, NEW m, NEW j \in Nat, ThreadInv(n, tr, m)
  PROVE  ThreadInv(n, [tr EXCEPT !.journal = j], m)
<1> DEFINE new == [tr EXCEPT !.journal = j]
<1>1. /\ new.stay = tr.stay /\ new.ruling = tr.ruling /\ new.token = tr.token
      /\ new.renegotiated = tr.renegotiated /\ new.budget = tr.budget
      /\ new.error = tr.error /\ new.status = tr.status
  BY DEF TripState
<1> HIDE DEF new
<1>2. ThreadInv(n, new, m)
  BY <1>1 DEF ThreadInv, Clean, Ruled, Asking, Settled, ItineraryStatus
<1> QED BY <1>2 DEF new

(* A node that leaves its thread as the next node expects it preserves the *)
(* invariant: the caller has then been told the whole journal again.       *)
LEMMA LeavePreserves ==
  ASSUME IInv, NEW t \in Trip, live[t], NEW lines \in Nat, NEW next \in Node,
         NEW update \in TripState,
         ThreadInv(next, update, said[t]), Leave(t, update, lines, next)
  PROVE  IInv'
<1> DEFINE journal == trip[t].journal + lines
           new == [update EXCEPT !.journal = journal]
<1>1. /\ trip[t] \in TripState /\ task[t] = "working"
      /\ reported[t] = trip[t].journal /\ told[t] = trip[t].journal
  BY LiveThread
<1>2. journal \in Nat
  BY <1>1 DEF TripState
<1>3. new \in TripState /\ new.journal = journal
  BY <1>2 DEF TripState
<1>4. new # None
  BY <1>3, NoneAssumption
<1>5. ThreadInv(next, new, said[t])
  BY <1>2, JournalAside
<1>6. /\ trip' = [trip EXCEPT ![t] = new]
      /\ node' = [node EXCEPT ![t] = next]
      /\ told' = [told EXCEPT ![t] = told[t] + (journal - reported[t])]
      /\ reported' = [reported EXCEPT ![t] = journal]
      /\ asked' = [asked EXCEPT ![t] = FALSE]
      /\ UNCHANGED <<task, live, said, restarts>>
  BY DEF Leave
<1> HIDE DEF new
<1>7. told[t] + (journal - reported[t]) = journal
  BY <1>1, <1>2 DEF TripState
<1> HIDE DEF journal
<1>8. TypeOK'
  BY <1>2, <1>3, <1>4, <1>6, <1>7 DEF IInv, TypeOK
<1>9. ASSUME NEW u \in Trip PROVE TripInv(u)'
  <2>1. CASE u = t
    <3>1. /\ trip'[t] = new /\ node'[t] = next /\ told'[t] = journal
          /\ reported'[t] = journal /\ task'[t] = "working" /\ said'[t] = said[t]
      BY <1>1, <1>6, <1>7 DEF IInv, TypeOK
    <3>2. TaskInv("working", live'[t], next, new, journal, journal)
      BY <1>3 DEF TaskInv
    <3> QED BY <1>5, <2>1, <3>1, <3>2 DEF TripInv
  <2>2. CASE u # t
    <3>1. /\ trip'[u] = trip[u] /\ node'[u] = node[u] /\ told'[u] = told[u]
          /\ reported'[u] = reported[u] /\ task'[u] = task[u]
          /\ said'[u] = said[u] /\ live'[u] = live[u]
      BY <1>6, <2>2 DEF IInv, TypeOK
    <3> QED BY <3>1 DEF IInv, TripInv
  <2> QED BY <2>1, <2>2
<1> QED BY <1>8, <1>9 DEF IInv

-------------------------------------------------------------------------------
(* Each node leaves its thread as the next one expects it. *)

LEMMA IntakePreserves ==
  ASSUME IInv, NEW t \in Trip, node_intake(t) PROVE IInv'
<1>1. live[t] /\ node[t] = "intake" /\ Leave(t, trip[t], 1, "source")
  BY DEF node_intake, At
<1>2. /\ trip[t] \in TripState /\ ThreadInv("intake", trip[t], said[t])
  BY <1>1, LiveThread
<1>3. ThreadInv("source", trip[t], said[t])
  BY <1>2 DEF ThreadInv, Clean, Ruled, Asking, Settled
<1> QED BY <1>1, <1>2, <1>3, LeavePreserves DEF Node

LEMMA SourcePreserves ==
  ASSUME IInv, NEW t \in Trip, NEW s \in Stay, node_source(t, s) PROVE IInv'
<1> DEFINE update == [trip[t] EXCEPT !.stay = s]
<1>1. live[t] /\ node[t] = "source" /\ Leave(t, update, 1, "screen")
  BY DEF node_source, At
<1>2. /\ trip[t] \in TripState /\ ThreadInv("source", trip[t], said[t])
  BY <1>1, LiveThread
<1>3. /\ update \in TripState /\ update.stay = s
      /\ update.error = trip[t].error /\ update.token = trip[t].token
  BY <1>2 DEF TripState
<1>4. ThreadInv("screen", update, said[t])
  BY <1>2, <1>3 DEF ThreadInv, Clean, Ruled, Asking, Settled
<1> QED BY <1>1, <1>3, <1>4, LeavePreserves DEF Node

(* An error leads to the end, and asks nothing of the rest of the state. *)
LEMMA ErrorPreserves ==
  ASSUME IInv, NEW t \in Trip, live[t], NEW lines \in Nat,
         NEW update \in TripState, update.error \in Error,
         Leave(t, update, lines, "end")
  PROVE  IInv'
<1>1. update.error # None
  BY NoneAssumption
<1>2. ThreadInv("end", update, said[t])
  BY <1>1 DEF ThreadInv, Clean, Ruled, Asking, Settled
<1> QED BY <1>2, LeavePreserves DEF Node

LEMMA FailuresPreserve ==
  ASSUME IInv, NEW t \in Trip,
         SourceFails(t) \/ ScreenFails(t) \/ RenegotiateFails(t) \/ LedgerSilent(t)
  PROVE  IInv'
<1>1. live[t]
  BY DEF SourceFails, ScreenFails, RenegotiateFails, LedgerSilent, At
<1>2. trip[t] \in TripState
  BY <1>1, LiveThread
<1>3. ASSUME NEW e \in Error, NEW lines \in Nat,
             Leave(t, [trip[t] EXCEPT !.error = e], lines, "end")
      PROVE  IInv'
  <2> DEFINE update == [trip[t] EXCEPT !.error = e]
  <2>1. update \in TripState /\ update.error \in Error
    BY <1>2 DEF TripState
  <2> QED BY <1>1, <1>3, <2>1, ErrorPreserves
<1>4. CASE SourceFails(t)
  <2>1. Leave(t, [trip[t] EXCEPT !.error = "sourcing"], 1, "end")
    BY <1>4 DEF SourceFails
  <2>2. "sourcing" \in Error /\ 1 \in Nat
    BY DEF Error
  <2> QED BY <1>3, <2>1, <2>2
<1>5. CASE ScreenFails(t)
  <2>1. Leave(t, [trip[t] EXCEPT !.error = "screening"], 0, "end")
    BY <1>5 DEF ScreenFails
  <2>2. "screening" \in Error /\ 0 \in Nat
    BY DEF Error
  <2> QED BY <1>3, <2>1, <2>2
<1>6. CASE RenegotiateFails(t)
  <2> DEFINE update == [trip[t] EXCEPT !.error = "no stay", !.renegotiated = TRUE]
  <2>1. Leave(t, update, 0, "end")
    BY <1>6 DEF RenegotiateFails
  <2>2. update \in TripState /\ update.error \in Error /\ 0 \in Nat
    BY <1>2 DEF TripState, Error
  <2> HIDE DEF update
  <2> QED BY <1>1, <2>1, <2>2, ErrorPreserves
<1>7. CASE LedgerSilent(t)
  <2>1. Leave(t, [trip[t] EXCEPT !.error = "no verdict"], 0, "end")
    BY <1>7 DEF LedgerSilent
  <2>2. "no verdict" \in Error /\ 0 \in Nat
    BY DEF Error
  <2> QED BY <1>3, <2>1, <2>2
<1> QED BY <1>4, <1>5, <1>6, <1>7

LEMMA ScreenPreserves ==
  ASSUME IInv, NEW t \in Trip, NEW r \in Rulings(trip[t].stay), node_screen(t, r)
  PROVE  IInv'
<1> DEFINE update == [trip[t] EXCEPT !.ruling = r]
           next == after_screen(update)
<1>1. live[t] /\ node[t] = "screen" /\ Leave(t, update, 1, next)
  BY DEF node_screen, At
<1>2. /\ trip[t] \in TripState /\ ThreadInv("screen", trip[t], said[t])
  BY <1>1, LiveThread
<1>3. r \in Ruling
  BY DEF Rulings
<1>4. /\ update \in TripState /\ update.ruling = r /\ update.stay = trip[t].stay
      /\ update.error = trip[t].error /\ update.token = trip[t].token
      /\ update.renegotiated = trip[t].renegotiated
  BY <1>2, <1>3 DEF TripState
<1>5. /\ update.error = None /\ update.token = None /\ update.stay \in Stay
      /\ update.ruling \in Rulings(update.stay)
  BY <1>2, <1>4 DEF ThreadInv
<1> HIDE DEF update
<1>6. CASE ~r.compliant /\ ~update.renegotiated /\ r.cap
  <2>1. next = "renegotiate"
    BY <1>4, <1>6 DEF after_screen
  <2>2. ThreadInv("renegotiate", update, said[t])
    BY <1>4, <1>5, <1>6 DEF ThreadInv, Clean, Ruled, Asking, Settled
  <2> QED BY <1>1, <1>4, <2>1, <2>2, LeavePreserves DEF Node
<1>7. CASE ~(~r.compliant /\ ~update.renegotiated /\ r.cap)
  <2>1. next = "authorise"
    BY <1>4, <1>7 DEF after_screen
  <2>2. r.cap => update.renegotiated
    BY <1>4, <1>7 DEF Rulings
  <2>3. ThreadInv("authorise", update, said[t])
    BY <1>4, <1>5, <2>2 DEF ThreadInv, Clean, Ruled, Asking, Settled
  <2> QED BY <1>1, <1>4, <2>1, <2>3, LeavePreserves DEF Node
<1> QED BY <1>6, <1>7

LEMMA RenegotiatePreserves ==
  ASSUME IInv, NEW t \in Trip, NEW s \in Stay, node_renegotiate(t, s) PROVE IInv'
<1> DEFINE update == [trip[t] EXCEPT !.stay = s, !.renegotiated = TRUE]
<1>1. live[t] /\ node[t] = "renegotiate" /\ Leave(t, update, 1, "screen")
  BY DEF node_renegotiate, At
<1>2. /\ trip[t] \in TripState /\ ThreadInv("renegotiate", trip[t], said[t])
  BY <1>1, LiveThread
<1>3. /\ update \in TripState /\ update.stay = s
      /\ update.error = trip[t].error /\ update.token = trip[t].token
  BY <1>2 DEF TripState
<1>4. ThreadInv("screen", update, said[t])
  BY <1>2, <1>3 DEF ThreadInv, Clean, Ruled, Asking, Settled
<1> QED BY <1>1, <1>3, <1>4, LeavePreserves DEF Node

-------------------------------------------------------------------------------
(* The money: what Ledger's promise makes of a verdict. *)

LEMMA Reply ==
  ASSUME TypeOK, NEW t \in Trip, trip[t] \in TripState, trip[t].stay \in Stay,
         trip[t].ruling \in Rulings(trip[t].stay),
         NEW v \in LedgerReplies(SpendRequest(t))
  PROVE  /\ v \in Verdict /\ v.usd = Usd[trip[t].stay]
         /\ v.decision = "approved" => ~trip[t].ruling.approval \/ trip[t].token # None
         /\ v.decision = "needs_approval" => trip[t].token = None /\ v.token \in Token
<1> DEFINE q == SpendRequest(t)
<1>1. /\ q.usd = Usd[trip[t].stay] /\ q.requires = trip[t].ruling.approval
      /\ q.token = trip[t].token
  BY DEF SpendRequest
<1>2. q.usd \in Nat
  BY <1>1, UsdAssumption
<1> HIDE DEF q
<1>3. v \in LedgerReplies(q)
  BY DEF q
<1>4. v \in Verdict /\ v.usd = q.usd
  BY <1>2, <1>3 DEF LedgerReplies, Verdict
<1>5. /\ v.decision = "approved" => ~q.requires \/ q.token # None
      /\ v.decision = "needs_approval" => q.requires /\ q.token = None
      /\ v.decision = "needs_approval" => v.token # None
  BY <1>3 DEF LedgerReplies
<1>6. v.token \in Token \cup {None}
  BY <1>4 DEF Verdict
<1> QED BY <1>1, <1>4, <1>5, <1>6

LEMMA AuthorisePreserves ==
  ASSUME IInv, NEW t \in Trip, NEW v \in LedgerReplies(SpendRequest(t)),
         node_authorise(t, v)
  PROVE  IInv'
<1> DEFINE update == [trip[t] EXCEPT !.budget = v]
           next == after_authorise(update)
<1>1. live[t] /\ node[t] = "authorise" /\ Leave(t, update, 1, next)
  BY DEF node_authorise, At
<1>2. /\ trip[t] \in TripState /\ ThreadInv("authorise", trip[t], said[t])
  BY <1>1, LiveThread
<1>3. /\ trip[t].stay \in Stay /\ trip[t].ruling \in Rulings(trip[t].stay)
      /\ trip[t].token = None /\ trip[t].error = None
      /\ trip[t].ruling.cap => trip[t].renegotiated
  BY <1>2 DEF ThreadInv, Ruled, Asking
<1>4. /\ v \in Verdict /\ v.usd = Usd[trip[t].stay]
      /\ v.decision = "approved" => ~trip[t].ruling.approval
      /\ v.decision = "needs_approval" => v.token \in Token
  BY <1>2, <1>3, Reply DEF IInv
<1>5. /\ update \in TripState /\ update.budget = v
      /\ update.stay = trip[t].stay /\ update.ruling = trip[t].ruling
      /\ update.error = trip[t].error /\ update.renegotiated = trip[t].renegotiated
  BY <1>2, <1>4 DEF TripState
<1> HIDE DEF update
<1>6. CASE v.decision = "needs_approval"
  <2>1. next = "await_approval"
    BY <1>5, <1>6 DEF after_authorise
  <2>2. ThreadInv("await_approval", update, said[t])
    BY <1>3, <1>4, <1>5, <1>6 DEF ThreadInv, Clean, Ruled, Asking, Settled
  <2> QED BY <1>1, <1>5, <2>1, <2>2, LeavePreserves DEF Node
<1>7. CASE v.decision # "needs_approval"
  <2>1. next = "assemble"
    BY <1>5, <1>7 DEF after_authorise
  <2>2. ThreadInv("assemble", update, said[t])
    BY <1>3, <1>4, <1>5, <1>7 DEF ThreadInv, Clean, Ruled, Asking, Settled
  <2> QED BY <1>1, <1>5, <2>1, <2>2, LeavePreserves DEF Node
<1> QED BY <1>6, <1>7

LEMMA ConfirmPreserves ==
  ASSUME IInv, NEW t \in Trip, NEW v \in LedgerReplies(SpendRequest(t)),
         node_confirm(t, v)
  PROVE  IInv'
<1> DEFINE update == [trip[t] EXCEPT !.budget = v]
<1>1. live[t] /\ node[t] = "confirm" /\ Leave(t, update, 1, "assemble")
  BY DEF node_confirm, At
<1>2. /\ trip[t] \in TripState /\ ThreadInv("confirm", trip[t], said[t])
  BY <1>1, LiveThread
<1>3. /\ trip[t].stay \in Stay /\ trip[t].ruling \in Rulings(trip[t].stay)
      /\ trip[t].token \in Token /\ LetPass(said[t]) /\ trip[t].error = None
      /\ trip[t].ruling.cap => trip[t].renegotiated
  BY <1>2 DEF ThreadInv, Ruled, Asking
<1>4. trip[t].token # None
  BY <1>3, NoneAssumption
<1>5. /\ v \in Verdict /\ v.usd = Usd[trip[t].stay]
      /\ v.decision # "needs_approval"
  BY <1>2, <1>3, <1>4, Reply DEF IInv
<1>6. /\ update \in TripState /\ update.budget = v
      /\ update.stay = trip[t].stay /\ update.ruling = trip[t].ruling
      /\ update.error = trip[t].error /\ update.renegotiated = trip[t].renegotiated
  BY <1>2, <1>5 DEF TripState
<1> HIDE DEF update
<1>7. ThreadInv("assemble", update, said[t])
  BY <1>3, <1>5, <1>6 DEF ThreadInv, Clean, Ruled, Asking, Settled
<1> QED BY <1>1, <1>6, <1>7, LeavePreserves DEF Node

LEMMA AssemblePreserves ==
  ASSUME IInv, NEW t \in Trip, node_assemble(t) PROVE IInv'
<1> DEFINE update == [trip[t] EXCEPT !.status = ItineraryStatus(trip[t])]
<1>1. live[t] /\ node[t] = "assemble" /\ Leave(t, update, 1, "end")
  BY DEF node_assemble, At
<1>2. /\ trip[t] \in TripState /\ ThreadInv("assemble", trip[t], said[t])
  BY <1>1, LiveThread
<1>3. ItineraryStatus(trip[t]) \in {"confirmed", "rejected", "awaiting_approval"}
  BY DEF ItineraryStatus
<1>4. /\ update \in TripState /\ update.status = ItineraryStatus(trip[t])
      /\ update.stay = trip[t].stay /\ update.ruling = trip[t].ruling
      /\ update.budget = trip[t].budget /\ update.error = trip[t].error
      /\ update.renegotiated = trip[t].renegotiated
  BY <1>2, <1>3 DEF TripState
<1> HIDE DEF update
<1>5. update.status = ItineraryStatus(update)
  BY <1>4 DEF ItineraryStatus
<1>6. ThreadInv("end", update, said[t])
  BY <1>2, <1>4, <1>5 DEF ThreadInv, Clean, Ruled, Asking, Settled
<1> QED BY <1>1, <1>4, <1>6, LeavePreserves DEF Node

-------------------------------------------------------------------------------
(* The executor: the thread opens, pauses, resumes, ends and is lost. *)

LEMMA StartPreserves ==
  ASSUME IInv, NEW t \in Trip, Start(t) PROVE IInv'
<1>1. task[t] = "none" /\ told[t] = 0
  BY DEF Start, IInv, TripInv
<1>2. /\ NewTrip \in TripState /\ NewTrip.journal = 0
      /\ NewTrip.error = None /\ NewTrip.token = None
  BY DEF NewTrip, TripState
<1>3. NewTrip # None
  BY <1>2, NoneAssumption
<1>4. /\ task' = [task EXCEPT ![t] = "working"]
      /\ live' = [live EXCEPT ![t] = TRUE]
      /\ node' = [node EXCEPT ![t] = "intake"]
      /\ trip' = [trip EXCEPT ![t] = NewTrip]
      /\ reported' = [reported EXCEPT ![t] = 0]
      /\ UNCHANGED <<asked, told, said, restarts>>
  BY DEF Start
<1>5. TypeOK'
  BY <1>2, <1>3, <1>4 DEF IInv, TypeOK, Node
<1>6. ASSUME NEW u \in Trip PROVE TripInv(u)'
  <2>1. CASE u = t
    <3>1. ThreadInv("intake", NewTrip, said[t])
      BY <1>2 DEF ThreadInv, Clean, Ruled, Asking, Settled
    <3>2. TaskInv("working", TRUE, "intake", NewTrip, 0, 0)
      BY <1>2 DEF TaskInv
    <3>3. /\ task'[t] = "working" /\ live'[t] = TRUE /\ node'[t] = "intake"
          /\ trip'[t] = NewTrip /\ reported'[t] = 0 /\ told'[t] = 0
          /\ said'[t] = said[t]
      BY <1>1, <1>4 DEF IInv, TypeOK
    <3> QED BY <2>1, <3>1, <3>2, <3>3 DEF TripInv
  <2>2. CASE u # t
    <3>1. /\ trip'[u] = trip[u] /\ node'[u] = node[u] /\ told'[u] = told[u]
          /\ reported'[u] = reported[u] /\ task'[u] = task[u]
          /\ said'[u] = said[u] /\ live'[u] = live[u]
      BY <1>4, <2>2 DEF IInv, TypeOK
    <3> QED BY <3>1 DEF IInv, TripInv
  <2> QED BY <2>1, <2>2
<1> QED BY <1>5, <1>6 DEF IInv

LEMMA StartUnrecordedPreserves ==
  ASSUME IInv, NEW t \in Trip, StartUnrecorded(t) PROVE IInv'
<1>1. /\ task[t] = "none" /\ task' = [task EXCEPT ![t] = "working"]
      /\ UNCHANGED <<live, node, trip, asked, reported, told, said, restarts>>
  BY DEF StartUnrecorded
<1>2. trip[t] = None /\ ~live[t]
  BY <1>1 DEF IInv, TypeOK, TripInv, TaskInv
<1>3. TypeOK'
  BY <1>1, <1>2 DEF IInv, TypeOK
<1>4. ASSUME NEW u \in Trip PROVE TripInv(u)'
  <2>1. CASE u = t
    BY <1>1, <1>2, <2>1 DEF IInv, TypeOK, TripInv
  <2>2. CASE u # t
    <3>1. task'[u] = task[u]
      BY <1>1, <2>2 DEF IInv, TypeOK
    <3> QED BY <1>1, <3>1 DEF IInv, TripInv
  <2> QED BY <2>1, <2>2
<1> QED BY <1>3, <1>4 DEF IInv

(* A step that moves a task and its run, and nothing of the thread. *)
LEMMA TaskMoves ==
  ASSUME IInv, NEW t \in Trip, NEW k \in Terminal \cup {"input_required"},
         task[t] # "none",
         k = "completed" => Clean(node[t], trip[t]),
         k = "input_required" => node[t] = "await_approval",
         task' = [task EXCEPT ![t] = k],
         live' = [live EXCEPT ![t] = FALSE] \/ (live' = live /\ ~live[t]),
         asked' \in [Trip -> BOOLEAN],
         UNCHANGED <<node, trip, reported, told, said, restarts>>
  PROVE  IInv'
<1>1. ~live'[t] /\ live' \in [Trip -> BOOLEAN]
      /\ \A u \in Trip : u # t => live'[u] = live[u]
  BY DEF IInv, TypeOK
<1>2. task' \in [Trip -> Terminal \cup {"none", "working", "input_required"}]
  BY DEF IInv, TypeOK
<1>3. TypeOK'
  BY <1>1, <1>2 DEF IInv, TypeOK
<1>4. ASSUME NEW u \in Trip PROVE TripInv(u)'
  <2>1. CASE u = t
    <3>1. task'[t] = k /\ k # "none"
      BY DEF IInv, TypeOK, Terminal
    <3>2. TripInv(t)
      BY DEF IInv
    <3> QED BY <1>1, <2>1, <3>1, <3>2 DEF TripInv, TaskInv
  <2>2. CASE u # t
    <3>1. task'[u] = task[u] /\ live'[u] = live[u]
      BY <1>1, <2>2 DEF IInv, TypeOK
    <3> QED BY <3>1 DEF IInv, TripInv
  <2> QED BY <2>1, <2>2
<1> QED BY <1>3, <1>4 DEF IInv

LEMMA PausePreserves ==
  ASSUME IInv, NEW t \in Trip, Pause(t) PROVE IInv'
<1>1. live[t] /\ node[t] = "await_approval"
  BY DEF Pause, At
<1>2. task[t] # "none" /\ asked \in [Trip -> BOOLEAN]
  BY <1>1, LiveThread DEF IInv, TypeOK
<1> QED BY <1>1, <1>2, TaskMoves DEF Pause, Terminal

LEMMA FinishPreserves ==
  ASSUME IInv, NEW t \in Trip, Finish(t) PROVE IInv'
<1>1. live[t] /\ node[t] = "end"
  BY DEF Finish, At
<1>2. task[t] # "none" /\ asked \in [Trip -> BOOLEAN]
  BY <1>1, LiveThread DEF IInv, TypeOK
<1>3. CASE trip[t].error # None
  BY <1>1, <1>2, <1>3, TaskMoves DEF Finish, Terminal
<1>4. CASE trip[t].error = None
  BY <1>1, <1>2, <1>4, TaskMoves DEF Finish, Terminal, Clean
<1> QED BY <1>3, <1>4

LEMMA RaisePreserves ==
  ASSUME IInv, NEW t \in Trip, Raise(t) PROVE IInv'
<1>1. live[t]
  BY DEF Raise, CanRaise
<1>2. task[t] # "none" /\ asked' \in [Trip -> BOOLEAN]
  BY <1>1, LiveThread DEF IInv, TypeOK, Raise
<1> QED BY <1>1, <1>2, TaskMoves DEF Raise, Terminal

LEMMA CancelPreserves ==
  ASSUME IInv, NEW t \in Trip, Cancel(t) PROVE IInv'
<1>1. task[t] # "none" /\ asked' \in [Trip -> BOOLEAN]
  BY DEF IInv, TypeOK, Cancel
<1> QED BY <1>1, TaskMoves DEF Cancel, Terminal

LEMMA ResumeLostPreserves ==
  ASSUME IInv, NEW t \in Trip, ResumeLost(t) PROVE IInv'
<1>1. /\ task[t] # "none" /\ asked' \in [Trip -> BOOLEAN]
      /\ live' = live /\ ~live[t]
  BY DEF IInv, TypeOK, ResumeLost
<1> QED BY <1>1, TaskMoves DEF ResumeLost, Terminal

LEMMA AskPreserves ==
  ASSUME IInv, NEW t \in Trip, AskLedger(t) PROVE IInv'
<1>1. asked' \in [Trip -> BOOLEAN]
  BY DEF IInv, TypeOK, AskLedger
<1>2. UNCHANGED <<task, live, node, trip, reported, told, said, restarts>>
  BY DEF AskLedger
<1> QED BY <1>1, <1>2 DEF IInv, TypeOK, TripInv

LEMMA RestartPreserves ==
  ASSUME IInv, Restart PROVE IInv'
<1>1. TypeOK'
  BY DEF IInv, TypeOK, Restart
<1>2. ASSUME NEW u \in Trip PROVE TripInv(u)'
  <2>1. trip'[u] = None /\ task'[u] = task[u] /\ told'[u] = told[u]
    BY DEF Restart
  <2> QED BY <2>1 DEF IInv, TripInv
<1> QED BY <1>1, <1>2 DEF IInv

(* The answer: a refusal ends the thread with an error, everything else    *)
(* sends it on with the token that was handed out at the pause.            *)
LEMMA ResumePreserves ==
  ASSUME IInv, NEW t \in Trip, NEW m \in Message, Resume(t, m) PROVE IInv'
<1> DEFINE approved == _read_decision(m)
           journal == trip[t].journal + 1
           next == IF approved THEN "confirm" ELSE "end"
           new == [trip[t] EXCEPT
                     !.token = IF approved THEN trip[t].budget.token ELSE @,
                     !.error = IF approved THEN @ ELSE "declined",
                     !.journal = journal]
<1>1. /\ task[t] = "input_required" /\ trip[t] # None
      /\ node[t] = "await_approval"
      /\ ThreadInv("await_approval", trip[t], said[t]) /\ told[t] = trip[t].journal
  BY DEF Resume, IInv, TripInv, TaskInv
<1>2. trip[t] \in TripState
  BY <1>1, TripFields DEF IInv
<1>3. /\ trip[t].stay \in Stay /\ trip[t].ruling \in Rulings(trip[t].stay)
      /\ trip[t].error = None /\ trip[t].budget.token \in Token
      /\ trip[t].ruling.cap => trip[t].renegotiated
  BY <1>1 DEF ThreadInv, Ruled, Asking
<1>4. journal \in Nat /\ told[t] + (journal - existing(t)) = journal
  BY <1>1, <1>2 DEF TripState, existing
<1>5. /\ new \in TripState /\ new.journal = journal
      /\ new.stay = trip[t].stay /\ new.ruling = trip[t].ruling
      /\ new.renegotiated = trip[t].renegotiated
      /\ approved => new.token = trip[t].budget.token /\ new.error = trip[t].error
      /\ ~approved => new.error = "declined"
  BY <1>2, <1>3, <1>4 DEF TripState, Error
<1>6. trip' = [trip EXCEPT ![t] = new]
  BY DEF Resume
<1>7. /\ task' = [task EXCEPT ![t] = "working"]
      /\ live' = [live EXCEPT ![t] = TRUE]
      /\ node' = [node EXCEPT ![t] = next]
      /\ said' = [said EXCEPT ![t] = m]
      /\ reported' = [reported EXCEPT ![t] = journal]
      /\ told' = [told EXCEPT ![t] = journal]
      /\ UNCHANGED <<asked, restarts>>
  BY <1>4 DEF Resume
<1> HIDE DEF new, journal
<1>8. new # None
  BY <1>5, NoneAssumption
<1>9. ThreadInv(next, new, m)
  <2>1. CASE approved
    <3>1. LetPass(m)
      BY <2>1 DEF _read_decision, Message, LetPass
    <3> QED BY <1>3, <1>5, <2>1, <3>1
            DEF ThreadInv, Clean, Ruled, Asking, Settled
  <2>2. CASE ~approved
    <3>1. new.error # None
      BY <1>5, <2>2, NoneAssumption DEF Error
    <3> QED BY <2>2, <3>1 DEF ThreadInv, Clean, Ruled, Asking, Settled
  <2> QED BY <2>1, <2>2
<1>10. TypeOK'
  BY <1>4, <1>5, <1>6, <1>7, <1>8 DEF IInv, TypeOK, Node
<1>11. ASSUME NEW u \in Trip PROVE TripInv(u)'
  <2>1. CASE u = t
    <3>1. TaskInv("working", TRUE, next, new, journal, journal)
      BY <1>5 DEF TaskInv
    <3>2. /\ task'[t] = "working" /\ live'[t] = TRUE /\ node'[t] = next
          /\ trip'[t] = new /\ reported'[t] = journal /\ told'[t] = journal
          /\ said'[t] = m
      BY <1>6, <1>7 DEF IInv, TypeOK
    <3> HIDE DEF next
    <3> QED BY <1>9, <2>1, <3>1, <3>2 DEF TripInv
  <2>2. CASE u # t
    <3>1. /\ trip'[u] = trip[u] /\ node'[u] = node[u] /\ told'[u] = told[u]
          /\ reported'[u] = reported[u] /\ task'[u] = task[u]
          /\ said'[u] = said[u] /\ live'[u] = live[u]
      BY <1>6, <1>7, <2>2 DEF IInv, TypeOK
    <3> QED BY <3>1 DEF IInv, TripInv
  <2> QED BY <2>1, <2>2
<1> QED BY <1>10, <1>11 DEF IInv

-------------------------------------------------------------------------------
LEMMA PlanPreserves ==
  ASSUME IInv, NEW t \in Trip, Plan(t) PROVE IInv'
<1>1. CASE node_intake(t)
  BY <1>1, IntakePreserves
<1>2. CASE \E s \in Stay : node_source(t, s)
  BY <1>2, SourcePreserves
<1>3. CASE SourceFails(t) \/ ScreenFails(t) \/ RenegotiateFails(t)
  BY <1>3, FailuresPreserve
<1>4. CASE \E r \in Rulings(trip[t].stay) : node_screen(t, r)
  BY <1>4, ScreenPreserves
<1>5. CASE \E s \in Stay : node_renegotiate(t, s)
  BY <1>5, RenegotiatePreserves
<1>6. CASE Pause(t)
  BY <1>6, PausePreserves
<1>7. CASE node_assemble(t)
  BY <1>7, AssemblePreserves
<1>8. CASE Finish(t)
  BY <1>8, FinishPreserves
<1>9. CASE Raise(t)
  BY <1>9, RaisePreserves
<1> QED
  BY <1>1, <1>2, <1>3, <1>4, <1>5, <1>6, <1>7, <1>8, <1>9 DEF Plan

LEMMA SettlePreserves ==
  ASSUME IInv, NEW t \in Trip, Settle(t) PROVE IInv'
<1>1. CASE AskLedger(t)
  BY <1>1, AskPreserves
<1>2. CASE LedgerSilent(t)
  BY <1>2, FailuresPreserve
<1>3. ASSUME NEW v \in LedgerReplies(SpendRequest(t)),
             node_authorise(t, v) \/ node_confirm(t, v)
      PROVE  IInv'
  BY <1>3, AuthorisePreserves, ConfirmPreserves
<1> QED BY <1>1, <1>2, <1>3 DEF Settle

LEMMA StepPreserves == IInv /\ [Next]_vars => IInv'
<1> SUFFICES ASSUME IInv, [Next]_vars PROVE IInv'
  OBVIOUS
<1>1. ASSUME NEW t \in Trip, Plan(t) \/ Settle(t) PROVE IInv'
  BY <1>1, PlanPreserves, SettlePreserves
<1>2. ASSUME Disturb PROVE IInv'
  <2>1. ASSUME NEW t \in Trip, Start(t) PROVE IInv'
    BY <2>1, StartPreserves
  <2>1a. ASSUME NEW t \in Trip, StartUnrecorded(t) PROVE IInv'
    BY <2>1a, StartUnrecordedPreserves
  <2>2. ASSUME NEW t \in Trip, NEW m \in Message, Resume(t, m) PROVE IInv'
    BY <2>2, ResumePreserves
  <2>3. ASSUME NEW t \in Trip, ResumeLost(t) \/ Cancel(t) PROVE IInv'
    BY <2>3, ResumeLostPreserves, CancelPreserves
  <2>4. CASE Restart
    BY <2>4, RestartPreserves
  <2> QED BY <1>2, <2>1, <2>1a, <2>2, <2>3, <2>4 DEF Disturb
<1>3. CASE UNCHANGED vars
  BY <1>3 DEF vars, IInv, TypeOK, TripInv
<1> QED BY <1>1, <1>2, <1>3 DEF Next

LEMMA Inductive == Spec => []IInv
<1> QED BY InitIInv, StepPreserves, PTL DEF Spec

-------------------------------------------------------------------------------
(* Every variable keeps its type, and a run that is under way has a thread *)
(* and an open task.                                                       *)
THEOREM ConciergeTypeCorrect == Spec => []TypeOK
<1>1. IInv => TypeOK
  BY DEF IInv
<1> QED BY <1>1, Inductive, PTL

(* What a confirmed trip is: a thread at its end without an error, on an   *)
(* approved verdict.                                                       *)
LEMMA ConfirmedThread ==
  ASSUME IInv, NEW t \in Trip, Confirmed(t)
  PROVE  /\ trip[t].stay \in Stay /\ trip[t].ruling \in Rulings(trip[t].stay)
         /\ trip[t].ruling.cap => trip[t].renegotiated
         /\ trip[t].budget.decision = "approved"
         /\ trip[t].budget.usd = Usd[trip[t].stay]
         /\ trip[t].ruling.approval => LetPass(said[t])
<1>1. /\ trip[t] # None /\ task[t] = "completed" /\ trip[t].status = "confirmed"
  BY DEF Confirmed
<1>2. ThreadInv(node[t], trip[t], said[t]) /\ Clean(node[t], trip[t])
  BY <1>1 DEF IInv, TripInv, TaskInv
<1>3. trip[t].budget.decision = "approved"
  BY <1>1, <1>2 DEF ThreadInv, ItineraryStatus
<1> QED BY <1>2, <1>3 DEF ThreadInv, Ruled, Asking, Settled

(* The confirmed itinerary is the one Sentinel ruled on and Ledger         *)
(* approved the total of (node_source, node_renegotiate, node_screen,      *)
(* node_authorise, node_confirm), for any number of trips.                 *)
THEOREM ConciergeConfirmsWhatWasRuled == Spec => []ConfirmedAsRuledAndFunded
<1>1. IInv => ConfirmedAsRuledAndFunded
  BY ConfirmedThread DEF ConfirmedAsRuledAndFunded, Rulings
<1> QED BY <1>1, Inductive, PTL

(* No trip that needs a manager is confirmed without an answer to its      *)
(* pause (after_authorise, node_await_approval, _read_decision).           *)
THEOREM ConciergeAsksFirst == Spec => []ConfirmedAfterApproval
<1>1. IInv => ConfirmedAfterApproval
  BY ConfirmedThread DEF ConfirmedAfterApproval, LetPass
<1> QED BY <1>1, Inductive, PTL

(* A stay over the cap ships only after a second ask and a human's pass    *)
(* (after_screen, node_renegotiate), whatever Hearth answers.              *)
THEOREM ConciergeNegotiates == Spec => []OverCapIsNegotiated
<1>1. ASSUME IInv, NEW t \in Trip, Confirmed(t), trip[t].stay \in OverCap
      PROVE  trip[t].renegotiated /\ LetPass(said[t])
  <2>1. trip[t].ruling.cap /\ trip[t].ruling.approval
    BY <1>1, ConfirmedThread DEF Rulings
  <2> QED BY <1>1, <2>1, ConfirmedThread
<1>2. IInv => OverCapIsNegotiated
  BY <1>1 DEF OverCapIsNegotiated, LetPass
<1> QED BY <1>2, Inductive, PTL

(* A completed trip is decided, and a paused one holds the token that      *)
(* settles it (node_await_approval, build_itinerary, execute).             *)
THEOREM ConciergeRests == Spec => []RestIsDecidedOrAnswerable
<1>1. ASSUME IInv, NEW t \in Trip, trip[t] # None
      PROVE  /\ task[t] = "completed" => trip[t].status \in {"confirmed", "rejected"}
             /\ task[t] = "input_required" =>
                   /\ node[t] = "await_approval"
                   /\ trip[t].budget.decision = "needs_approval"
                   /\ trip[t].budget.token \in Token
  <2>1. /\ ThreadInv(node[t], trip[t], said[t])
        /\ task[t] = "completed" => Clean(node[t], trip[t])
        /\ task[t] = "input_required" => node[t] = "await_approval"
    BY <1>1 DEF IInv, TripInv, TaskInv
  <2>2. task[t] = "completed" => trip[t].status \in {"confirmed", "rejected"}
    BY <2>1 DEF ThreadInv, Settled, ItineraryStatus
  <2> QED BY <2>1, <2>2 DEF ThreadInv
<1>2. IInv => RestIsDecidedOrAnswerable
  BY <1>1 DEF RestIsDecidedOrAnswerable
<1> QED BY <1>2, Inductive, PTL

(* The caller is told every line of the journal once, however often the    *)
(* trip is paused and resumed (_run's existing and reported).              *)
THEOREM ConciergeTellsOnce == Spec => []JournalToldOnce
<1>1. IInv => JournalToldOnce
  BY DEF IInv, TripInv, TaskInv, JournalToldOnce
<1> QED BY <1>1, Inductive, PTL

(* "The renegotiation happens exactly once" (after_screen and the          *)
(* renegotiated flag), even when Hearth's second stay breaks the cap too.  *)
THEOREM ConciergeRenegotiatesOnce == Spec => RenegotiatedOnce
<1>1. IInv => \A t \in Trip : At(t, "renegotiate") => ~trip[t].renegotiated
  BY LiveThread DEF At, ThreadInv
<1>2. IInv /\ [Next]_vars =>
        [\A t \in Trip : At(t, "renegotiate") /\ node'[t] = "screen"
                            => ~trip[t].renegotiated]_vars
  BY <1>1
<1> QED BY <1>2, Inductive, PTL DEF Spec, RenegotiatedOnce
================================================================================
