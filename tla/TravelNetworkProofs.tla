-------------------------- MODULE TravelNetworkProofs --------------------------
(***************************************************************************)
(* The two agents together, for any number of trips, stays and centres:    *)
(* each delivers what the other takes for granted, and the money of a trip *)
(* moves once, for what ships, and not without a yes.                      *)
(***************************************************************************)
EXTENDS TravelNetwork, FiniteSetTheorems, TLAPS

(* The two components with their proofs. *)
CP == INSTANCE ConciergeProofs WITH Token <- L!Code
LP == INSTANCE LedgerProofs
        WITH Task <- Trip, Amount <- {Usd[s] : s \in Stay}, NoToken <- None,
             NoRequest <- None, MaxMessages <- 2 * Cardinality(Trip)

(* The components' assumptions are the network's. *)
LEMMA ConciergeAssumptions ==
    /\ CP!OverCapAssumption /\ CP!UsdAssumption /\ CP!MaxRestartsAssumption
    /\ CP!NoneAssumption
<1>1. CP!OverCapAssumption /\ CP!UsdAssumption /\ CP!MaxRestartsAssumption
  BY StayAssumption, BoundsAssumption
     DEF CP!OverCapAssumption, CP!UsdAssumption, CP!MaxRestartsAssumption
<1>2. CP!NoneAssumption
  BY NoneAssumption
     DEF CP!NoneAssumption, C!Ruling, C!Verdict, C!TripState, C!Error, C!Message,
         CP!Ruling, CP!Verdict, CP!TripState, CP!Error, CP!Message
<1> QED BY <1>1, <1>2

LEMMA LedgerAssumptions ==
    /\ LP!AmountAssumption /\ LP!BudgetAssumption /\ LP!MaxMessagesAssumption
    /\ LP!MaxCrashesAssumption /\ LP!NoTokenAssumption /\ LP!NoRequestAssumption
<1>1. LP!AmountAssumption /\ LP!BudgetAssumption /\ LP!MaxCrashesAssumption
  BY StayAssumption, BudgetAssumption, BoundsAssumption
     DEF LP!AmountAssumption, LP!BudgetAssumption, LP!MaxCrashesAssumption
<1>2. LP!MaxMessagesAssumption
  BY BoundsAssumption, FS_CardinalityType DEF LP!MaxMessagesAssumption
<1>3. LP!NoTokenAssumption /\ LP!NoRequestAssumption
  BY NoneAssumption
     DEF LP!NoTokenAssumption, LP!NoRequestAssumption, LP!Code, LP!Request,
         L!Code, L!Request
<1> QED BY <1>1, <1>2, <1>3

(* C and CP, L and LP are the same specifications. *)
LEMMA SameConcierge ==
    /\ C!Init <=> CP!Init
    /\ [C!Next]_(C!vars) <=> [CP!Next]_(CP!vars)
<1>1. (UNCHANGED C!vars) <=> (UNCHANGED CP!vars)
  BY DEF C!vars, CP!vars
<1>2. C!Init <=> CP!Init
  BY DEF C!Init, CP!Init
<1>3. ASSUME NEW t \in Trip PROVE C!Plan(t) <=> CP!Plan(t)
  BY DEF C!Plan, CP!Plan, C!node_intake, CP!node_intake, C!At, CP!At,
         C!Leave, CP!Leave, C!node_source, CP!node_source,
         C!SourceFails, CP!SourceFails, C!node_screen, CP!node_screen,
         C!after_screen, CP!after_screen, C!Rulings, CP!Rulings,
         C!Ruling, CP!Ruling, C!ScreenFails, CP!ScreenFails,
         C!node_renegotiate, CP!node_renegotiate,
         C!RenegotiateFails, CP!RenegotiateFails, C!Pause, CP!Pause,
         C!node_assemble, CP!node_assemble, C!ItineraryStatus, CP!ItineraryStatus,
         C!Finish, CP!Finish, C!Raise, CP!Raise, C!CanRaise, CP!CanRaise
<1>4. ASSUME NEW t \in Trip PROVE C!Settle(t) <=> CP!Settle(t)
  BY DEF C!Settle, CP!Settle, C!AskLedger, CP!AskLedger, C!At, CP!At,
         C!LedgerReplies, CP!LedgerReplies, C!SpendRequest, CP!SpendRequest,
         C!node_authorise, CP!node_authorise, C!after_authorise,
         CP!after_authorise, C!node_confirm, CP!node_confirm,
         C!LedgerSilent, CP!LedgerSilent, C!Leave, CP!Leave
<1>5. C!Disturb <=> CP!Disturb
  BY DEF C!Disturb, CP!Disturb, C!Start, CP!Start, C!NewTrip, CP!NewTrip,
         C!Resume, CP!Resume, C!Message, CP!Message, C!_read_decision,
         CP!_read_decision, C!existing, CP!existing, C!ResumeLost,
         CP!ResumeLost, C!Cancel, CP!Cancel, C!Restart, CP!Restart,
         C!StartUnrecorded, CP!StartUnrecorded
<1>6. C!Next <=> CP!Next
  BY <1>3, <1>4, <1>5 DEF C!Next, CP!Next
<1> QED BY <1>1, <1>2, <1>6

LEMMA SameLedger ==
    /\ L!Init <=> LP!Init
    /\ [L!Next]_(L!vars) <=> [LP!Next]_(LP!vars)
<1>1. (UNCHANGED L!vars) <=> (UNCHANGED LP!vars)
  BY DEF L!vars, LP!vars, L!desk, LP!desk, L!books, LP!books, L!past, LP!past
<1>2. L!Init <=> LP!Init
  BY DEF L!Init, LP!Init
<1>3. L!Next <=> LP!Next
  BY DEF L!Next, LP!Next, L!Sendable, LP!Sendable, L!Request, LP!Request,
         L!Code, LP!Code, L!Receive, LP!Receive, L!Terminal, LP!Terminal,
         L!ReceiveUnusable, LP!ReceiveUnusable, L!ReceiveUnrecorded,
         LP!ReceiveUnrecorded, L!Advance, LP!Advance,
         L!budget_position, LP!budget_position, L!AssessRejected,
         LP!AssessRejected, L!Covered, LP!Covered, L!AssessNeedsApproval,
         LP!AssessNeedsApproval, L!MustAsk, LP!MustAsk, L!authorization_code,
         LP!authorization_code, L!SendCommit, LP!SendCommit,
         L!AssessApproved, LP!AssessApproved, L!MyCall, LP!MyCall,
         L!AssessFails, LP!AssessFails, L!Publish, LP!Publish,
         L!Conclude, LP!Conclude,
         L!Cancel, LP!Cancel, L!record_commitment, LP!record_commitment,
         L!LoseCall, LP!LoseCall, L!Crash, LP!Crash,
         L!desk, LP!desk, L!books, LP!books, L!past, LP!past
<1> QED BY <1>1, <1>2, <1>3

-------------------------------------------------------------------------------
(* The code Ledger derives from a spend request for the stay a trip holds. *)
CodeOf(t, tr) == [trip |-> t, cc |-> CentreOf[t], usd |-> Usd[tr.stay]]

(* Whether the Concierge may still send Ledger a message about the trip. *)
MayAsk(t) ==
    \/ task[t] \in {"none", "input_required"}
    \/ live[t] /\ ~asked[t] /\ node[t] \notin {"assemble", "end"}

LetPass(m) == m \in {"approve", "unclear"}

(* While the Concierge awaits an answer, it is its question that Ledger    *)
(* works on or has answered.                                               *)
AskedInv(t) ==
    asked[t] =>
        /\ live[t] /\ node[t] \in {"authorise", "confirm"}
        /\ step[t] # "idle" \/ published[t] => request[t] = Message(t)

(* The tokens a trip holds are those Ledger issued for its stay. *)
TokenInv(t, n, tr) ==
    /\ tr.token # None => tr.token = CodeOf(t, tr) /\ tr.token \in issued
    /\ n = "await_approval" =>
          tr.budget.token = CodeOf(t, tr) /\ tr.budget.token \in issued

(* A trip that was approved has Ledger's approval of its stay behind it. *)
ApprovedInv(t, n, tr) ==
    CP!Settled(n, tr) /\ tr.budget.decision = "approved" =>
        /\ step[t] = "idle" /\ verdict[t] = "approved"
        /\ L!authorization_code(request[t]) = CodeOf(t, tr)

(* Nobody has answered before the pause. *)
SaidInv(t, n) ==
    n \in {"intake", "source", "screen", "renegotiate", "authorise",
           "await_approval"} => said[t] = None

ThreadLink(t) ==
    /\ task[t] = "none" => said[t] = None
    /\ trip[t] # None =>
          /\ TokenInv(t, node[t], trip[t])
          /\ ApprovedInv(t, node[t], trip[t])
          /\ SaidInv(t, node[t])

(* What makes it right for Ledger to work for a trip, or to have charged   *)
(* it: the question is the trip's last, and if it needs an approval, a     *)
(* human has given it.                                                     *)
Licensed(t) ==
    /\ ~MayAsk(t)
    /\ said[t] # "decline"
    /\ request[t].requires /\ ~L!MustAsk(request[t]) => LetPass(said[t])

RunLink(t) ==
    /\ verdict[t] = "approved" => ~L!MustAsk(request[t])
    /\ verdict[t] = "needs_approval" => L!MustAsk(request[t])
    /\ step[t] # "idle" =>
          /\ Licensed(t)
          /\ request[t].trip = t /\ request[t].cc = CentreOf[t]

ChargeLink(t) ==
    \A k \in rows \cup calls : k.code.trip = t =>
        /\ k = L!MyCall(t)
        /\ verdict[t] \notin {"rejected", "needs_approval"}
        /\ ~L!MustAsk(request[t])
        /\ Licensed(t)

Link(t) == AskedInv(t) /\ ThreadLink(t) /\ RunLink(t) /\ ChargeLink(t)

NetInv ==
    /\ CP!IInv /\ LP!SettledInv /\ LP!VerdictInv
    /\ \A t \in Trip : Link(t)

(* Ledger is not at work for the trip and has never charged it. *)
Quiet(t) ==
    step[t] = "idle" /\ \A k \in rows \cup calls : k.code.trip # t

-------------------------------------------------------------------------------
LEMMA InitNetInv == Init => NetInv
<1> SUFFICES ASSUME Init PROVE NetInv
  OBVIOUS
<1>1. CP!IInv
  BY ConciergeAssumptions, CP!InitIInv, SameConcierge DEF Init
<1>2. LP!SettledInv /\ LP!VerdictInv
  BY LedgerAssumptions, LP!SettledInit, LP!VerdictInit, SameLedger DEF Init
<1>3. ASSUME NEW t \in Trip PROVE Link(t)
  BY DEF Init, C!Init, L!Init, Link, AskedInv, ThreadLink, RunLink, ChargeLink
<1> QED BY <1>1, <1>2, <1>3 DEF NetInv

(* The types of what the links speak of. *)
LEMMA NetTypes ==
  ASSUME NetInv
  PROVE  /\ task \in [Trip -> CP!Terminal \cup {"none", "working", "input_required"}]
         /\ live \in [Trip -> BOOLEAN]
         /\ node \in [Trip -> CP!Node] /\ asked \in [Trip -> BOOLEAN]
         /\ trip \in [Trip -> CP!TripState \cup {None}]
         /\ said \in [Trip -> C!Message \cup {None}]
         /\ \A t \in Trip : live[t] => trip[t] # None /\ task[t] = "working"
         /\ step \in [Trip -> {"idle", "position", "decide", "committing",
                               "publish", "conclude"}]
         /\ published \in [Trip -> BOOLEAN]
         /\ request \in [Trip -> LP!Request \cup {None}] /\ run \in [Trip -> Nat]
         /\ verdict \in [Trip -> {"none", "rejected", "needs_approval", "approved"}]
<1>1. CP!TypeOK /\ LP!TypeOK
  BY DEF NetInv, CP!IInv, LP!SettledInv
<1> QED BY <1>1 DEF CP!TypeOK, CP!Message, C!Message, LP!TypeOK

(* While the Concierge may ask, Ledger has nothing to do with the trip. *)
LEMMA MayAskQuiet ==
  ASSUME NetInv, NEW t \in Trip, MayAsk(t) PROVE Quiet(t)
BY DEF NetInv, Link, RunLink, ChargeLink, Licensed, Quiet

(* What a thread holds stays good while Ledger leaves the trip alone. *)
LEMMA HeldStays ==
  ASSUME NEW t \in Trip, step'[t] = step[t], verdict'[t] = verdict[t],
         request'[t] = request[t], issued \subseteq issued'
  PROVE  \A n, tr : /\ TokenInv(t, n, tr) => TokenInv(t, n, tr)'
                    /\ ApprovedInv(t, n, tr) => ApprovedInv(t, n, tr)'
                    /\ said'[t] = said[t] /\ SaidInv(t, n) => SaidInv(t, n)'
<1>1. \A n, tr : TokenInv(t, n, tr) => TokenInv(t, n, tr)'
  BY DEF TokenInv, CodeOf
<1>2. \A n, tr : ApprovedInv(t, n, tr) => ApprovedInv(t, n, tr)'
  BY DEF ApprovedInv, CodeOf, L!authorization_code, CP!Settled, CP!Clean
<1>3. \A n : said'[t] = said[t] /\ SaidInv(t, n) => SaidInv(t, n)'
  BY DEF SaidInv
<1> QED BY <1>1, <1>2, <1>3

(* A trip keeps its links when nothing of it changes but the codes issued  *)
(* and the charges of other trips.                                         *)
LEMMA LinkKept ==
  ASSUME NetInv, NEW u \in Trip,
         task'[u] = task[u], live'[u] = live[u], node'[u] = node[u],
         trip'[u] = trip[u], asked'[u] = asked[u], said'[u] = said[u],
         step'[u] = step[u], request'[u] = request[u], run'[u] = run[u],
         verdict'[u] = verdict[u], published'[u] = published[u],
         issued \subseteq issued',
         \A k \in rows' \cup calls' : k \in rows \cup calls \/ k.code.trip # u
  PROVE  Link(u)'
<1>1. AskedInv(u) /\ ThreadLink(u) /\ RunLink(u) /\ ChargeLink(u)
  BY DEF NetInv, Link
<1>2. AskedInv(u)'
  BY <1>1 DEF AskedInv, Message, C!SpendRequest
<1>3. ThreadLink(u)'
  BY <1>1, HeldStays DEF ThreadLink
<1>4. RunLink(u)' /\ ChargeLink(u)'
  BY <1>1 DEF RunLink, ChargeLink, Licensed, MayAsk, LetPass, L!MustAsk,
              L!MyCall, L!authorization_code
<1> QED BY <1>2, <1>3, <1>4 DEF Link

(* A step of the Concierge alone: it withdraws its question or leaves it,  *)
(* and does not free itself to ask again behind Ledger's back.             *)
LEMMA ConciergeAlone ==
  ASSUME NetInv, NEW t \in Trip, UNCHANGED ledger,
         asked'[t] => /\ asked[t] /\ live'[t] /\ node'[t] = node[t]
                      /\ trip'[t] = trip[t],
         Quiet(t) \/ (~MayAsk(t)' /\ said'[t] = said[t]),
         ThreadLink(t)'
  PROVE  Link(t)'
<1>1. AskedInv(t) /\ RunLink(t) /\ ChargeLink(t)
  BY DEF NetInv, Link
<1>2. /\ step' = step /\ request' = request /\ run' = run
      /\ verdict' = verdict /\ published' = published
      /\ issued' = issued /\ rows' = rows /\ calls' = calls
  BY DEF ledger
<1>3. AskedInv(t)'
  BY <1>1, <1>2 DEF AskedInv, Message, C!SpendRequest
<1>4. CASE Quiet(t)
  <2>1. RunLink(t)' /\ ChargeLink(t)'
    BY <1>1, <1>2, <1>4 DEF RunLink, ChargeLink, Quiet, L!MustAsk, L!authorization_code
  <2> QED BY <1>3, <2>1 DEF Link
<1>5. CASE ~MayAsk(t)' /\ said'[t] = said[t]
  <2>1. Licensed(t) => Licensed(t)'
    BY <1>2, <1>5 DEF Licensed, LetPass, L!MustAsk, L!authorization_code
  <2>2. RunLink(t)' /\ ChargeLink(t)'
    BY <1>1, <1>2, <2>1 DEF RunLink, ChargeLink, L!MustAsk, L!MyCall,
                            L!authorization_code
  <2> QED BY <1>3, <2>2 DEF Link
<1> QED BY <1>4, <1>5

(* The other trips, when the Concierge moves one. *)
LEMMA OthersLinked ==
  ASSUME NetInv, NEW u \in Trip, UNCHANGED ledger,
         task'[u] = task[u], live'[u] = live[u], node'[u] = node[u],
         trip'[u] = trip[u], asked'[u] = asked[u], said'[u] = said[u]
  PROVE  Link(u)'
<1>1. /\ step'[u] = step[u] /\ request'[u] = request[u] /\ run'[u] = run[u]
      /\ verdict'[u] = verdict[u] /\ published'[u] = published[u]
      /\ issued' = issued /\ rows' = rows /\ calls' = calls
  BY DEF ledger
<1> QED BY <1>1, LinkKept

(* The end of a node. *)
LEMMA LeaveLink ==
  ASSUME NetInv, NEW t \in Trip, live[t], NEW lines, NEW next \in CP!Node,
         NEW update \in CP!TripState, C!Leave(t, update, lines, next),
         UNCHANGED ledger, Quiet(t) \/ next \in {"assemble", "end"},
         TokenInv(t, next, update), ApprovedInv(t, next, update), SaidInv(t, next)
  PROVE  \A u \in Trip : Link(u)'
<1> DEFINE journal == trip[t].journal + lines
           new == [update EXCEPT !.journal = journal]
<1>1. /\ trip' = [trip EXCEPT ![t] = new] /\ node' = [node EXCEPT ![t] = next]
      /\ asked' = [asked EXCEPT ![t] = FALSE]
      /\ UNCHANGED <<task, live, said, restarts>>
  BY DEF C!Leave
<1>2. /\ new.token = update.token /\ new.stay = update.stay
      /\ new.budget = update.budget /\ new.error = update.error
  BY DEF CP!TripState
<1> HIDE DEF new
<1>3. TokenInv(t, next, new) /\ ApprovedInv(t, next, new)
  BY <1>2 DEF TokenInv, ApprovedInv, CodeOf, CP!Settled, CP!Clean
<1>4. /\ trip'[t] = new /\ node'[t] = next /\ ~asked'[t] /\ live'[t]
      /\ task'[t] = "working" /\ said'[t] = said[t]
  BY <1>1, NetTypes
<1>5. /\ step' = step /\ request' = request /\ verdict' = verdict
      /\ issued' = issued
  BY DEF ledger
<1>6. ThreadLink(t)'
  BY <1>3, <1>4, <1>5, HeldStays DEF ThreadLink
<1>7. Quiet(t) \/ (~MayAsk(t)' /\ said'[t] = said[t])
  BY <1>4 DEF MayAsk
<1>8. Link(t)'
  BY <1>4, <1>6, <1>7, ConciergeAlone
<1>9. ASSUME NEW u \in Trip, u # t PROVE Link(u)'
  <2>1. /\ task'[u] = task[u] /\ live'[u] = live[u] /\ node'[u] = node[u]
        /\ trip'[u] = trip[u] /\ asked'[u] = asked[u] /\ said'[u] = said[u]
    BY <1>1, <1>9, NetTypes
  <2> QED BY <2>1, OthersLinked
<1> QED BY <1>8, <1>9

(* The task moves, and the thread stays where it is: a run that ends takes *)
(* its question with it.                                                   *)
LEMMA TaskLink ==
  ASSUME NetInv, NEW t \in Trip, UNCHANGED <<node, trip, said>>, UNCHANGED ledger,
         NEW k \in {"working", "completed", "failed", "canceled", "input_required"},
         task' = [task EXCEPT ![t] = k],
         k = "input_required" => node[t] = "await_approval" /\ live[t],
         live' = [live EXCEPT ![t] = FALSE] \/ (live' = live /\ ~live[t]),
         asked' = [asked EXCEPT ![t] = FALSE] \/ (asked' = asked /\ ~asked[t])
  PROVE  \A u \in Trip : Link(u)'
<1>1. task'[t] = k /\ ~live'[t] /\ ~asked'[t]
  BY NetTypes
<1>2. step' = step /\ request' = request /\ verdict' = verdict /\ issued' = issued
  BY DEF ledger
<1>3. ThreadLink(t) /\ AskedInv(t)
  BY DEF NetInv, Link
<1>4. ThreadLink(t)'
  BY <1>1, <1>2, <1>3, HeldStays DEF ThreadLink
<1>5. Quiet(t) \/ (~MayAsk(t)' /\ said'[t] = said[t])
  <2>1. CASE k = "input_required"
    BY <1>3, <2>1, MayAskQuiet DEF MayAsk, AskedInv
  <2>2. CASE k # "input_required"
    BY <1>1, <2>2 DEF MayAsk
  <2> QED BY <2>1, <2>2
<1>6. Link(t)'
  BY <1>1, <1>4, <1>5, ConciergeAlone
<1>7. ASSUME NEW u \in Trip, u # t PROVE Link(u)'
  <2>1. /\ task'[u] = task[u] /\ live'[u] = live[u] /\ node'[u] = node[u]
        /\ trip'[u] = trip[u] /\ asked'[u] = asked[u] /\ said'[u] = said[u]
    BY <1>7, NetTypes
  <2> QED BY <2>1, OthersLinked
<1> QED BY <1>6, <1>7

(* A thread that has not been authorised yet may ask, and holds no token;  *)
(* moving on to a node of that kind, it keeps its links.                   *)
LEMMA EarlyLink ==
  ASSUME NetInv, NEW t \in Trip, live[t],
         node[t] \in {"intake", "source", "screen", "renegotiate"},
         NEW lines, NEW update \in CP!TripState,
         update.token = trip[t].token,
         NEW next \in {"source", "screen", "renegotiate", "authorise", "end"},
         next = "end" => update.error # None,
         C!Leave(t, update, lines, next), UNCHANGED ledger
  PROVE  \A u \in Trip : Link(u)'
<1>1. trip[t] # None /\ CP!ThreadInv(node[t], trip[t], said[t])
  BY ConciergeAssumptions, CP!LiveThread DEF NetInv
<1>2. update.token = None
  BY <1>1 DEF CP!ThreadInv
<1>3. AskedInv(t) /\ SaidInv(t, node[t])
  BY <1>1 DEF NetInv, Link, ThreadLink
<1>4. Quiet(t)
  BY <1>3, MayAskQuiet DEF AskedInv, MayAsk
<1>5. TokenInv(t, next, update) /\ ApprovedInv(t, next, update) /\ SaidInv(t, next)
  BY <1>2, <1>3 DEF TokenInv, ApprovedInv, SaidInv, CP!Settled, CP!Clean
<1> QED BY <1>4, <1>5, LeaveLink DEF CP!Node

LEMMA PlanLink ==
  ASSUME NetInv, NEW t \in Trip, live[t], C!Plan(t), UNCHANGED ledger
  PROVE  \A u \in Trip : Link(u)'
<1> DEFINE Goal == \A u \in Trip : Link(u)'
<1>1. /\ trip[t] \in CP!TripState /\ trip[t] # None
      /\ CP!ThreadInv(node[t], trip[t], said[t]) /\ task[t] = "working"
  BY ConciergeAssumptions, CP!LiveThread DEF NetInv
<1>2. ThreadLink(t) /\ AskedInv(t)
  BY DEF NetInv, Link
<1>3. \A e \in CP!Error : e # None
  BY ConciergeAssumptions DEF CP!NoneAssumption
<1>4. CASE C!node_intake(t)
  BY <1>1, <1>4, EarlyLink DEF C!node_intake, C!At
<1>5. ASSUME NEW s \in Stay, C!node_source(t, s) PROVE Goal
  <2> DEFINE update == [trip[t] EXCEPT !.stay = s]
  <2>1. node[t] = "source" /\ C!Leave(t, update, 1, "screen")
    BY <1>5 DEF C!node_source, C!At
  <2>2. update \in CP!TripState /\ update.token = trip[t].token
    BY <1>1 DEF CP!TripState
  <2> HIDE DEF update
  <2> QED BY <2>1, <2>2, EarlyLink
<1>6. ASSUME NEW n \in {"source", "screen", "renegotiate"}, node[t] = n,
             NEW lines, NEW e \in CP!Error, NEW b \in BOOLEAN,
             C!Leave(t, [trip[t] EXCEPT !.error = e, !.renegotiated = b], lines, "end")
      PROVE  Goal
  <2> DEFINE update == [trip[t] EXCEPT !.error = e, !.renegotiated = b]
  <2>1. /\ update \in CP!TripState /\ update.token = trip[t].token
        /\ update.error # None
    BY <1>1, <1>3 DEF CP!TripState
  <2> HIDE DEF update
  <2> QED BY <1>6, <2>1, EarlyLink DEF update
<1>7. CASE C!SourceFails(t) \/ C!ScreenFails(t) \/ C!RenegotiateFails(t)
  <2>1. trip[t].renegotiated \in BOOLEAN
        /\ \A e : [trip[t] EXCEPT !.error = e]
                  = [trip[t] EXCEPT !.error = e, !.renegotiated = trip[t].renegotiated]
    BY <1>1 DEF CP!TripState
  <2>2. CASE C!SourceFails(t)
    <3>1. /\ node[t] = "source"
          /\ C!Leave(t, [trip[t] EXCEPT !.error = "sourcing"], 1, "end")
      BY <2>2 DEF C!SourceFails, C!At
    <3> QED BY <1>6, <2>1, <3>1 DEF CP!Error
  <2>3. CASE C!ScreenFails(t)
    <3>1. /\ node[t] = "screen"
          /\ C!Leave(t, [trip[t] EXCEPT !.error = "screening"], 0, "end")
      BY <2>3 DEF C!ScreenFails, C!At
    <3> QED BY <1>6, <2>1, <3>1 DEF CP!Error
  <2>4. CASE C!RenegotiateFails(t)
    BY <1>6, <2>4 DEF C!RenegotiateFails, C!At, CP!Error
  <2> QED BY <1>7, <2>2, <2>3, <2>4
<1>8. ASSUME NEW r \in C!Rulings(trip[t].stay), C!node_screen(t, r) PROVE Goal
  <2> DEFINE update == [trip[t] EXCEPT !.ruling = r]
  <2>1. node[t] = "screen" /\ C!Leave(t, update, 1, C!after_screen(update))
    BY <1>8 DEF C!node_screen, C!At
  <2>2. r \in CP!Ruling
    BY DEF C!Rulings, C!Ruling, CP!Ruling
  <2>3. update \in CP!TripState /\ update.token = trip[t].token
    BY <1>1, <2>2 DEF CP!TripState
  <2>4. C!after_screen(update) \in {"renegotiate", "authorise"}
    BY DEF C!after_screen
  <2> HIDE DEF update
  <2> QED BY <2>1, <2>3, <2>4, EarlyLink
<1>9. ASSUME NEW s \in Stay, C!node_renegotiate(t, s) PROVE Goal
  <2> DEFINE update == [trip[t] EXCEPT !.stay = s, !.renegotiated = TRUE]
  <2>1. node[t] = "renegotiate" /\ C!Leave(t, update, 1, "screen")
    BY <1>9 DEF C!node_renegotiate, C!At
  <2>2. update \in CP!TripState /\ update.token = trip[t].token
    BY <1>1 DEF CP!TripState
  <2> HIDE DEF update
  <2> QED BY <2>1, <2>2, EarlyLink
<1>10. CASE C!node_assemble(t)
  <2> DEFINE update == [trip[t] EXCEPT !.status = C!ItineraryStatus(trip[t])]
  <2>1. node[t] = "assemble" /\ C!Leave(t, update, 1, "end")
    BY <1>10 DEF C!node_assemble, C!At
  <2>2. C!ItineraryStatus(trip[t]) \in {"confirmed", "rejected", "awaiting_approval"}
    BY DEF C!ItineraryStatus
  <2>3. /\ update \in CP!TripState /\ update.token = trip[t].token
        /\ update.stay = trip[t].stay /\ update.budget = trip[t].budget
    BY <1>1, <2>2 DEF CP!TripState
  <2> HIDE DEF update
  <2>4. TokenInv(t, "end", update) /\ ApprovedInv(t, "end", update) /\ SaidInv(t, "end")
    BY <1>1, <1>2, <2>1, <2>3 DEF ThreadLink, TokenInv, ApprovedInv, SaidInv,
       CodeOf, CP!Settled, CP!Clean
  <2> QED BY <2>1, <2>3, <2>4, LeaveLink DEF CP!Node
<1>11. CASE C!Pause(t)
  <2>1. node[t] = "await_approval" /\ ~asked[t]
    BY <1>2, <1>11 DEF C!Pause, C!At, AskedInv
  <2> QED BY <1>11, <2>1, TaskLink DEF C!Pause
<1>12. CASE C!Finish(t)
  <2>1. ~asked[t]
    BY <1>2, <1>12 DEF C!Finish, C!At, AskedInv
  <2>2. CASE trip[t].error # None
    BY <1>12, <2>1, <2>2, TaskLink DEF C!Finish
  <2>3. CASE trip[t].error = None
    BY <1>12, <2>1, <2>3, TaskLink DEF C!Finish
  <2> QED BY <2>2, <2>3
<1>13. CASE C!Raise(t)
  BY <1>13, TaskLink DEF C!Raise
<1> QED
  BY <1>4, <1>5, <1>7, <1>8, <1>9, <1>10, <1>11, <1>12, <1>13 DEF C!Plan

-------------------------------------------------------------------------------
(* What people and the machine do to a trip. *)

LEMMA DisturbLink ==
  ASSUME NetInv, C!Disturb, UNCHANGED ledger PROVE \A u \in Trip : Link(u)'
<1> DEFINE Goal == \A u \in Trip : Link(u)'
<1>1. step' = step /\ request' = request /\ verdict' = verdict /\ issued' = issued
  BY DEF ledger
<1>2. ASSUME NEW t \in Trip, NEW u \in Trip, u # t, C!Start(t) PROVE Link(u)'
  <2>1. /\ task'[u] = task[u] /\ live'[u] = live[u] /\ node'[u] = node[u]
        /\ trip'[u] = trip[u] /\ asked'[u] = asked[u] /\ said'[u] = said[u]
    BY <1>2, NetTypes DEF C!Start
  <2> QED BY <2>1, OthersLinked
<1>3. ASSUME NEW t \in Trip, C!Start(t) PROVE Link(t)'
  <2>1. MayAsk(t) /\ said[t] = None /\ ~asked[t]
    BY <1>3, NetTypes DEF C!Start, NetInv, Link, ThreadLink, AskedInv, MayAsk
  <2>2. /\ task'[t] = "working" /\ node'[t] = "intake" /\ trip'[t] = C!NewTrip
        /\ said'[t] = None /\ ~asked'[t]
    BY <1>3, <2>1, NetTypes DEF C!Start
  <2>3. C!NewTrip.token = None
    BY DEF C!NewTrip
  <2>4. ThreadLink(t)'
    BY <2>2, <2>3 DEF ThreadLink, TokenInv, ApprovedInv, SaidInv, CP!Settled, CP!Clean
  <2> QED BY <2>1, <2>2, <2>4, MayAskQuiet, ConciergeAlone
<1>4. ASSUME NEW t \in Trip, NEW m \in C!Message, C!Resume(t, m) PROVE Goal
  <2> DEFINE approved == C!_read_decision(m)
             next == IF approved THEN "confirm" ELSE "end"
             new == [trip[t] EXCEPT
                       !.token = IF approved THEN trip[t].budget.token ELSE @,
                       !.error = IF approved THEN @ ELSE "declined",
                       !.journal = trip[t].journal + 1]
  <2>1. task[t] = "input_required" /\ trip[t] # None
    BY <1>4 DEF C!Resume
  <2>2. node[t] = "await_approval"
    BY <2>1 DEF NetInv, CP!IInv, CP!TripInv, CP!TaskInv
  <2>3. trip[t] \in CP!TripState
    BY <2>1, NetTypes
  <2>4. /\ new.stay = trip[t].stay
        /\ approved => new.token = trip[t].budget.token
        /\ ~approved => new.token = trip[t].token /\ new.error = "declined"
    BY <2>3 DEF CP!TripState
  <2>5. /\ trip' = [trip EXCEPT ![t] = new] /\ node' = [node EXCEPT ![t] = next]
        /\ task' = [task EXCEPT ![t] = "working"]
        /\ live' = [live EXCEPT ![t] = TRUE] /\ said' = [said EXCEPT ![t] = m]
        /\ asked' = asked
    BY <1>4 DEF C!Resume
  <2> HIDE DEF new
  <2>6. Quiet(t) /\ ~asked[t]
    <3>1. MayAsk(t) /\ AskedInv(t)
      BY <2>1 DEF MayAsk, NetInv, Link
    <3> QED BY <2>2, <3>1, MayAskQuiet DEF AskedInv
  <2>7. TokenInv(t, node[t], trip[t])
    BY <2>1 DEF NetInv, Link, ThreadLink
  <2>8. "declined" # None
    BY ConciergeAssumptions DEF CP!NoneAssumption, CP!Error
  <2>9. TokenInv(t, next, new) /\ ApprovedInv(t, next, new)
    BY <2>2, <2>4, <2>7, <2>8 DEF TokenInv, ApprovedInv, CodeOf, CP!Settled, CP!Clean
  <2>10. /\ trip'[t] = new /\ node'[t] = next /\ task'[t] = "working" /\ ~asked'[t]
    BY <2>5, <2>6, NetTypes
  <2>11. ThreadLink(t)'
    BY <1>1, <2>9, <2>10, HeldStays DEF ThreadLink, SaidInv
  <2>12. Link(t)'
    BY <2>6, <2>10, <2>11, ConciergeAlone
  <2>13. ASSUME NEW u \in Trip, u # t PROVE Link(u)'
    <3>1. /\ task'[u] = task[u] /\ live'[u] = live[u] /\ node'[u] = node[u]
          /\ trip'[u] = trip[u] /\ asked'[u] = asked[u] /\ said'[u] = said[u]
      BY <2>5, <2>13, NetTypes
    <3> QED BY <3>1, OthersLinked
  <2> QED BY <2>12, <2>13
<1>5. ASSUME NEW t \in Trip, C!StartUnrecorded(t) \/ C!ResumeLost(t) PROVE Goal
  <2>1. ~live[t]
    BY <1>5, NetTypes DEF C!StartUnrecorded, C!ResumeLost
  <2>2. ~asked[t]
    BY <2>1 DEF NetInv, Link, AskedInv
  <2> QED BY <1>5, <2>1, <2>2, TaskLink DEF C!StartUnrecorded, C!ResumeLost
<1>6. ASSUME NEW t \in Trip, C!Cancel(t) PROVE Goal
  BY <1>6, TaskLink DEF C!Cancel
<1>7. CASE C!Restart
  <2>1. ASSUME NEW u \in Trip PROVE Link(u)'
    <3>1. /\ trip'[u] = None /\ ~live'[u] /\ ~asked'[u]
          /\ task'[u] = task[u] /\ said'[u] = said[u]
      BY <1>7 DEF C!Restart
    <3>2. ThreadLink(u)'
      BY <3>1 DEF NetInv, Link, ThreadLink
    <3>3. MayAsk(u)' => MayAsk(u)
      BY <3>1 DEF MayAsk
    <3> QED BY <3>1, <3>2, <3>3, MayAskQuiet, ConciergeAlone
  <2> QED BY <2>1
<1> QED BY <1>2, <1>3, <1>4, <1>5, <1>6, <1>7 DEF C!Disturb

-------------------------------------------------------------------------------
(* The call: what the Concierge sends, and what it gets back. *)

(* What a question is made of: the ruling of the stay, and a token that is *)
(* Ledger's own or none.                                                   *)
LEMMA QuestionIsSendable ==
  ASSUME NetInv, NEW t \in Trip, live[t], node[t] \in {"authorise", "confirm"}
  PROVE  /\ trip[t] \in CP!TripState /\ trip[t] # None /\ task[t] = "working"
         /\ trip[t].stay \in Stay /\ trip[t].ruling \in CP!Ruling
         /\ Message(t) \in L!Sendable
         /\ L!authorization_code(Message(t)) = CodeOf(t, trip[t])
         /\ CodeOf(t, trip[t]) \in L!Code
<1>1. /\ trip[t] \in CP!TripState /\ trip[t] # None /\ task[t] = "working"
      /\ CP!ThreadInv(node[t], trip[t], said[t])
  BY ConciergeAssumptions, CP!LiveThread DEF NetInv
<1>2. trip[t].stay \in Stay /\ trip[t].ruling \in CP!Ruling
  BY <1>1 DEF CP!ThreadInv, CP!Ruled, CP!Rulings
<1>3. TokenInv(t, node[t], trip[t])
  BY <1>1 DEF NetInv, Link, ThreadLink
<1>4. CodeOf(t, trip[t]) \in L!Code
  BY <1>2, CentreOfAssumption DEF CodeOf, L!Code
<1>5. trip[t].token \in issued \cup {None} /\ trip[t].token \in L!Code \cup {None}
  BY <1>3, <1>4 DEF TokenInv
<1>6. Message(t) \in L!Request
  BY <1>2, <1>5, CentreOfAssumption DEF Message, C!SpendRequest, L!Request, CP!Ruling
<1>7. Message(t).token = trip[t].token
  BY DEF Message, C!SpendRequest
<1>8. L!authorization_code(Message(t)) = CodeOf(t, trip[t])
  BY DEF Message, C!SpendRequest, L!authorization_code, CodeOf
<1> QED BY <1>1, <1>2, <1>4, <1>5, <1>6, <1>7, <1>8 DEF L!Sendable

LEMMA NoneIsNoCode == None \notin L!Code
BY NoneAssumption

LEMMA AskLink ==
  ASSUME NetInv, NEW t \in Trip, C!AskLedger(t), L!Receive(t, Message(t))
  PROVE  \A u \in Trip : Link(u)'
<1>1. /\ live[t] /\ node[t] \in {"authorise", "confirm"} /\ ~asked[t]
      /\ asked' = [asked EXCEPT ![t] = TRUE]
      /\ UNCHANGED <<task, live, node, trip, reported, told, said, restarts>>
  BY DEF C!AskLedger, C!At
<1>2. /\ request' = [request EXCEPT ![t] = Message(t)]
      /\ step' = [step EXCEPT ![t] = "position"]
      /\ verdict' = [verdict EXCEPT ![t] = "none"]
      /\ run' = [run EXCEPT ![t] = runs + 1]
      /\ published' = [published EXCEPT ![t] = FALSE]
      /\ rows' = rows /\ calls' = calls /\ issued' = issued
  BY DEF L!Receive, L!books
<1>3. /\ request'[t] = Message(t) /\ step'[t] = "position" /\ verdict'[t] = "none"
      /\ asked'[t] = TRUE
  BY <1>1, <1>2, NetTypes
<1>4. Quiet(t) /\ task[t] = "working" /\ trip[t] # None
  BY <1>1, MayAskQuiet, NetTypes DEF MayAsk
<1>5. ThreadLink(t) /\ CP!ThreadInv(node[t], trip[t], said[t])
  BY <1>1, ConciergeAssumptions, CP!LiveThread DEF NetInv, Link
<1>6. Message(t)' = Message(t)
  BY <1>1 DEF Message, C!SpendRequest
<1>7. AskedInv(t)'
  BY <1>1, <1>3, <1>6 DEF AskedInv
<1>8. ThreadLink(t)'
  BY <1>1, <1>2, <1>4, <1>5 DEF ThreadLink, TokenInv, ApprovedInv, SaidInv, CodeOf,
     CP!Settled, CP!Clean
<1>9. said[t] # "decline" /\ (node[t] = "confirm" => LetPass(said[t]))
  <2>1. None # "decline"
    BY NoneAssumption DEF C!Message
  <2> QED BY <1>1, <1>4, <1>5, <2>1 DEF ThreadLink, SaidInv, CP!ThreadInv,
          CP!LetPass, LetPass
<1>10. node[t] = "authorise" /\ Message(t).requires => L!MustAsk(Message(t))
  <2>1. ASSUME node[t] = "authorise" PROVE Message(t).token = None
    BY <1>5, <2>1 DEF CP!ThreadInv, Message, C!SpendRequest
  <2>2. L!authorization_code(Message(t)) # None
    BY <1>1, QuestionIsSendable, NoneIsNoCode
  <2> QED BY <2>1, <2>2 DEF L!MustAsk
<1>11. RunLink(t)'
  <2>1. ~MayAsk(t)'
    BY <1>1, <1>3, <1>4 DEF MayAsk
  <2>2. L!MustAsk(request[t])' <=> L!MustAsk(Message(t))
    BY <1>3 DEF L!MustAsk, L!authorization_code
  <2>3. Licensed(t)'
    BY <1>1, <1>3, <1>9, <1>10, <2>1, <2>2 DEF Licensed, LetPass
  <2>4. request'[t].trip = t /\ request'[t].cc = CentreOf[t]
    BY <1>3 DEF Message
  <2> QED BY <1>3, <2>3, <2>4 DEF RunLink
<1>12. ChargeLink(t)'
  BY <1>2, <1>4 DEF ChargeLink, Quiet
<1>13. ASSUME NEW u \in Trip, u # t PROVE Link(u)'
  <2>1. /\ request'[u] = request[u] /\ step'[u] = step[u] /\ run'[u] = run[u]
        /\ verdict'[u] = verdict[u] /\ published'[u] = published[u]
        /\ asked'[u] = asked[u]
    BY <1>1, <1>2, <1>13, NetTypes
  <2> QED BY <1>1, <1>2, <2>1, LinkKept
<1> QED BY <1>7, <1>8, <1>11, <1>12, <1>13 DEF Link

(* A question that Ledger dies over leaves everything as it was. *)
LEMMA AskUnrecordedLink ==
  ASSUME NetInv, NEW t \in Trip, C!AskLedger(t), L!ReceiveUnrecorded(t)
  PROVE  \A u \in Trip : Link(u)'
<1>1. /\ live[t] /\ node[t] \in {"authorise", "confirm"} /\ ~asked[t]
      /\ asked' = [asked EXCEPT ![t] = TRUE]
      /\ UNCHANGED <<task, live, node, trip, reported, told, said, restarts>>
  BY DEF C!AskLedger, C!At
<1>2. /\ UNCHANGED <<request, step, verdict, run, rows, calls, issued>>
      /\ published' = [published EXCEPT ![t] = FALSE] /\ step[t] = "idle"
  BY DEF L!ReceiveUnrecorded, L!books
<1>3. ThreadLink(t) /\ RunLink(t) /\ Quiet(t)
  BY <1>1, MayAskQuiet DEF NetInv, Link, MayAsk
<1>4. asked'[t] = TRUE /\ ~published'[t]
  BY <1>1, <1>2, NetTypes
<1>5. AskedInv(t)'
  BY <1>1, <1>2, <1>4 DEF AskedInv
<1>6. ThreadLink(t)'
  BY <1>1, <1>2, <1>3, HeldStays DEF ThreadLink
<1>7. RunLink(t)' /\ ChargeLink(t)'
  BY <1>2, <1>3 DEF RunLink, ChargeLink, Quiet, L!MustAsk, L!authorization_code
<1>8. ASSUME NEW u \in Trip, u # t PROVE Link(u)'
  <2>1. published'[u] = published[u] /\ asked'[u] = asked[u]
    BY <1>1, <1>2, <1>8, NetTypes
  <2> QED BY <1>1, <1>2, <2>1, LinkKept
<1> QED BY <1>5, <1>6, <1>7, <1>8 DEF Link

(* What comes back keeps Ledger's promise, and says what Ledger has done.  *)
LEMMA ArtifactIsAReply ==
  ASSUME NetInv, NEW t \in Trip, asked[t], step[t] = "idle", published[t]
  PROVE  /\ Artifact(t) \in C!LedgerReplies(C!SpendRequest(t))
         /\ Artifact(t) \in CP!Verdict
         /\ Artifact(t).decision = verdict[t]
         /\ verdict[t] = "needs_approval" =>
              Artifact(t).token = CodeOf(t, trip[t]) /\ Artifact(t).token \in issued
         /\ L!authorization_code(request[t]) = CodeOf(t, trip[t])
<1>1. /\ live[t] /\ node[t] \in {"authorise", "confirm"} /\ request[t] = Message(t)
  BY DEF NetInv, Link, AskedInv
<1>2. /\ trip[t].stay \in Stay /\ trip[t].ruling \in CP!Ruling
      /\ L!authorization_code(request[t]) = CodeOf(t, trip[t])
      /\ CodeOf(t, trip[t]) \in L!Code /\ CodeOf(t, trip[t]) # None
      /\ trip[t] # None
  BY <1>1, QuestionIsSendable, NoneIsNoCode
<1>3. /\ verdict[t] \in {"approved", "rejected", "needs_approval"}
      /\ verdict[t] = "needs_approval" => CodeOf(t, trip[t]) \in issued
  BY <1>2, NetTypes DEF NetInv, LP!SettledInv, LP!Control, LP!authorization_code,
                        L!authorization_code
<1>4. /\ verdict[t] = "approved" => ~L!MustAsk(request[t])
      /\ verdict[t] = "needs_approval" => L!MustAsk(request[t])
      /\ TokenInv(t, node[t], trip[t])
  BY <1>2 DEF NetInv, Link, RunLink, ThreadLink
<1> DEFINE q == C!SpendRequest(t)
<1>5. /\ request[t].requires = q.requires /\ request[t].token = q.token
      /\ request[t].usd = q.usd /\ q.token = trip[t].token /\ q.usd \in Nat
  BY <1>1, <1>2, StayAssumption DEF Message, C!SpendRequest
<1>6. /\ verdict[t] = "approved" => ~q.requires \/ q.token # None
      /\ verdict[t] = "needs_approval" => q.requires /\ q.token = None
  BY <1>2, <1>4, <1>5 DEF L!MustAsk, TokenInv
<1>7. /\ Artifact(t).decision = verdict[t] /\ Artifact(t).usd = q.usd
      /\ verdict[t] = "needs_approval" => Artifact(t).token = CodeOf(t, trip[t])
      /\ verdict[t] # "needs_approval" => Artifact(t).token = None
  BY <1>2, <1>5 DEF Artifact
<1>8. Artifact(t) \in [decision : {"approved", "rejected", "needs_approval"},
                       usd : {q.usd}, token : L!Code \cup {None}]
  <2>1. verdict[t] \in {"approved", "rejected", "needs_approval"}
    BY <1>3
  <2>2. (IF verdict[t] = "needs_approval" THEN L!authorization_code(request[t])
         ELSE None) \in L!Code \cup {None}
    BY <1>2
  <2> QED BY <1>5, <2>1, <2>2 DEF Artifact
<1> HIDE DEF q
<1>9. Artifact(t) \in C!LedgerReplies(q)
  BY <1>2, <1>6, <1>7, <1>8 DEF C!LedgerReplies
<1>10. Artifact(t) \in CP!Verdict
  BY <1>5, <1>8 DEF CP!Verdict
<1> QED BY <1>2, <1>3, <1>7, <1>9, <1>10 DEF q

LEMMA AnswerLink ==
  ASSUME NetInv, NEW t \in Trip, Answer(t) PROVE \A u \in Trip : Link(u)'
<1> DEFINE v == Artifact(t)
           update == [trip[t] EXCEPT !.budget = v]
           next == IF node[t] = "authorise" THEN C!after_authorise(update)
                                            ELSE "assemble"
<1>1. asked[t] /\ step[t] = "idle" /\ published[t] /\ UNCHANGED ledger
  BY DEF Answer
<1>2. /\ live[t] /\ node[t] \in {"authorise", "confirm"}
      /\ C!Leave(t, update, 1, next)
  BY DEF Answer, C!node_authorise, C!node_confirm, C!At
<1>3. /\ v \in CP!Verdict /\ v.decision = verdict[t]
      /\ verdict[t] = "needs_approval" =>
            v.token = CodeOf(t, trip[t]) /\ v.token \in issued
      /\ L!authorization_code(request[t]) = CodeOf(t, trip[t])
  BY <1>1, ArtifactIsAReply
<1>4. /\ trip[t] \in CP!TripState /\ trip[t] # None
      /\ CP!ThreadInv(node[t], trip[t], said[t])
  BY <1>2, ConciergeAssumptions, CP!LiveThread DEF NetInv
<1>5. /\ update \in CP!TripState /\ update.budget = v /\ update.stay = trip[t].stay
      /\ update.token = trip[t].token /\ update.error = trip[t].error
  BY <1>3, <1>4 DEF CP!TripState
<1>6. TokenInv(t, node[t], trip[t]) /\ SaidInv(t, node[t]) /\ ChargeLink(t)
  BY <1>4 DEF NetInv, Link, ThreadLink
<1> HIDE DEF update, v
<1>7. next = IF node[t] = "authorise" /\ verdict[t] = "needs_approval"
               THEN "await_approval" ELSE "assemble"
  BY <1>3, <1>5 DEF C!after_authorise
<1>8. TokenInv(t, next, update) /\ ApprovedInv(t, next, update) /\ SaidInv(t, next)
  BY <1>1, <1>2, <1>3, <1>5, <1>6, <1>7
     DEF TokenInv, ApprovedInv, SaidInv, CodeOf, CP!Settled, CP!Clean
<1>9. Quiet(t) \/ next \in {"assemble", "end"}
  BY <1>1, <1>6, <1>7 DEF Quiet, ChargeLink
<1>10. next \in CP!Node
  BY <1>7 DEF CP!Node
<1> HIDE DEF next
<1> QED BY <1>1, <1>2, <1>5, <1>8, <1>9, <1>10, LeaveLink

LEMMA SilenceLink ==
  ASSUME NetInv, NEW t \in Trip, Silence(t) PROVE \A u \in Trip : Link(u)'
<1> DEFINE update == [trip[t] EXCEPT !.error = "no verdict"]
<1>1. /\ live[t] /\ UNCHANGED ledger /\ C!Leave(t, update, 0, "end")
  BY DEF Silence, C!LedgerSilent, C!At
<1>2. trip[t] \in CP!TripState /\ trip[t] # None
  BY <1>1, ConciergeAssumptions, CP!LiveThread DEF NetInv
<1>3. "no verdict" # None
  BY NoneAssumption DEF C!Error
<1>4. /\ update \in CP!TripState /\ update.error # None
      /\ update.token = trip[t].token /\ update.stay = trip[t].stay
  BY <1>2, <1>3 DEF CP!TripState, CP!Error
<1>5. TokenInv(t, node[t], trip[t])
  BY <1>2 DEF NetInv, Link, ThreadLink
<1> HIDE DEF update
<1>6. TokenInv(t, "end", update) /\ ApprovedInv(t, "end", update) /\ SaidInv(t, "end")
  BY <1>4, <1>5 DEF TokenInv, ApprovedInv, SaidInv, CodeOf, CP!Settled, CP!Clean
<1> QED BY <1>1, <1>4, <1>6, LeaveLink DEF CP!Node

-------------------------------------------------------------------------------
(* Ledger at work, whether or not anybody still waits for it. *)

LEMMA LedgerAlone ==
  ASSUME NetInv, NEW t \in Trip, UNCHANGED concierge,
         request'[t] = request[t], run'[t] = run[t], issued \subseteq issued',
         step'[t] # "idle" => step[t] # "idle",
         published'[t] => published[t] \/ step[t] # "idle",
         verdict'[t] = verdict[t] \/ step[t] # "idle",
         verdict'[t] = "approved" => ~L!MustAsk(request[t]),
         verdict'[t] = "needs_approval" => L!MustAsk(request[t]),
         \A k \in rows' \cup calls' : k.code.trip = t =>
             /\ k = L!MyCall(t)
             /\ verdict'[t] \notin {"rejected", "needs_approval"}
             /\ ~L!MustAsk(request[t]) /\ Licensed(t)
  PROVE  Link(t)'
<1>1. /\ task' = task /\ live' = live /\ node' = node /\ trip' = trip
      /\ asked' = asked /\ said' = said
  BY DEF concierge
<1>2. AskedInv(t) /\ ThreadLink(t) /\ RunLink(t)
  BY DEF NetInv, Link
<1>3. AskedInv(t)'
  BY <1>1, <1>2 DEF AskedInv, Message, C!SpendRequest
<1>4. ThreadLink(t)'
  <2>1. \A n, tr : TokenInv(t, n, tr) => TokenInv(t, n, tr)'
    BY DEF TokenInv, CodeOf
  <2>2. \A n, tr : ApprovedInv(t, n, tr) => ApprovedInv(t, n, tr)'
    BY DEF ApprovedInv, CodeOf, L!authorization_code, CP!Settled, CP!Clean
  <2> QED BY <1>1, <1>2, <2>1, <2>2 DEF ThreadLink, SaidInv
<1>5. Licensed(t) => Licensed(t)'
  BY <1>1 DEF Licensed, MayAsk, LetPass, L!MustAsk, L!authorization_code
<1>6. L!MustAsk(request[t])' <=> L!MustAsk(request[t])
  BY DEF L!MustAsk, L!authorization_code
<1>7. L!MyCall(t)' = L!MyCall(t)
  BY DEF L!MyCall, L!authorization_code
<1>8. RunLink(t)'
  BY <1>2, <1>5, <1>6 DEF RunLink
<1>9. ChargeLink(t)'
  BY <1>5, <1>6, <1>7 DEF ChargeLink
<1> QED BY <1>3, <1>4, <1>8, <1>9 DEF Link

(* A run that has not decided has not charged anything. *)
LEMMA UndecidedUncharged ==
  ASSUME NetInv, NEW t \in Trip, step[t] \in {"position", "decide"}
  PROVE  /\ \A k \in rows \cup calls : k.code.trip # t
         /\ verdict[t] = "none"
<1>1. \A k \in rows \cup calls : k.id # run[t]
  BY DEF NetInv, LP!VerdictInv, LP!RunsApart
<1>2. \A k \in rows \cup calls : k.code.trip = t => k.id = run[t]
  BY DEF NetInv, Link, ChargeLink, L!MyCall
<1>3. verdict[t] = "none"
  BY DEF NetInv, LP!SettledInv, LP!Control
<1> QED BY <1>1, <1>2, <1>3

LEMMA LedgerStepLink ==
  ASSUME NetInv, NEW t \in Trip, LedgerStep(t) PROVE \A u \in Trip : Link(u)'
<1> DEFINE Goal == \A u \in Trip : Link(u)'
<1>1. UNCHANGED concierge /\ L!Advance(t)
  BY DEF LedgerStep
<1>2. /\ task' = task /\ live' = live /\ node' = node /\ trip' = trip
      /\ asked' = asked /\ said' = said
  BY <1>1 DEF concierge
<1>3. RunLink(t) /\ ChargeLink(t)
  BY DEF NetInv, Link
<1>4. ASSUME NEW u \in Trip, u # t, request' = request, run' = run,
             step'[u] = step[u], verdict'[u] = verdict[u],
             published'[u] = published[u], issued \subseteq issued',
             \A k \in rows' \cup calls' : k \in rows \cup calls \/ k.code.trip # u
      PROVE  Link(u)'
  BY <1>2, <1>4, LinkKept
<1>5. CASE L!budget_position(t)
  <2>1. /\ request' = request /\ run' = run /\ verdict' = verdict /\ issued' = issued
        /\ rows' = rows /\ calls' = calls /\ step' = [step EXCEPT ![t] = "decide"]
        /\ published' = published /\ step[t] = "position"
    BY <1>5 DEF L!budget_position, L!books, L!past
  <2>2. Link(t)'
    BY <1>1, <1>3, <2>1, LedgerAlone DEF RunLink, ChargeLink
  <2>3. \A u \in Trip : u # t => step'[u] = step[u]
    BY <2>1, NetTypes
  <2> QED BY <1>4, <2>1, <2>2, <2>3
<1>6. CASE L!AssessRejected(t) \/ L!AssessNeedsApproval(t)
  <2>1. /\ request' = request /\ run' = run /\ issued' = issued
        /\ rows' = rows /\ calls' = calls /\ step[t] = "decide"
        /\ step' = [step EXCEPT ![t] = "publish"] /\ published' = published
    BY <1>6 DEF L!AssessRejected, L!AssessNeedsApproval, L!books, L!past
  <2>2. PICK d \in {"rejected", "needs_approval"} :
          /\ verdict' = [verdict EXCEPT ![t] = d]
          /\ d = "needs_approval" => L!MustAsk(request[t])
    BY <1>6 DEF L!AssessRejected, L!AssessNeedsApproval
  <2>3. verdict'[t] = d /\ \A u \in Trip : u # t =>
          step'[u] = step[u] /\ verdict'[u] = verdict[u]
    BY <2>1, <2>2, NetTypes
  <2>4. \A k \in rows' \cup calls' : k.code.trip # t
    BY <2>1, UndecidedUncharged
  <2>5. Link(t)'
    BY <1>1, <2>1, <2>2, <2>3, <2>4, LedgerAlone
  <2> QED BY <1>4, <2>1, <2>3, <2>5
<1>7. CASE L!SendCommit(t)
  <2> DEFINE k == L!MyCall(t)
  <2>1. /\ request' = request /\ run' = run /\ verdict' = verdict /\ issued' = issued
        /\ rows' = rows /\ calls' = calls \cup {k} /\ step[t] = "decide"
        /\ step' = [step EXCEPT ![t] = "committing"]
        /\ ~L!MustAsk(request[t]) /\ published' = published
    BY <1>7 DEF L!SendCommit, L!MyCall, L!past
  <2>2. k.code.trip = t
    BY <1>3, <2>1 DEF RunLink, L!MyCall, L!authorization_code
  <2>3. verdict[t] = "none" /\ Licensed(t)
        /\ \A l \in rows \cup calls : l.code.trip # t
    BY <1>3, <2>1, UndecidedUncharged DEF RunLink
  <2> HIDE DEF k
  <2>4. \A l \in rows' \cup calls' : l.code.trip = t => l = k
    BY <2>1, <2>3
  <2>5. Link(t)'
    BY <1>1, <2>1, <2>3, <2>4, LedgerAlone DEF k
  <2>6. \A u \in Trip : u # t => step'[u] = step[u]
    BY <2>1, NetTypes
  <2> QED BY <1>4, <2>1, <2>2, <2>5, <2>6
<1>8. CASE L!AssessApproved(t)
  <2>1. /\ request' = request /\ run' = run /\ issued' = issued
        /\ rows' = rows /\ calls' = calls /\ step[t] = "committing"
        /\ step' = [step EXCEPT ![t] = "publish"] /\ published' = published
        /\ verdict' = [verdict EXCEPT ![t] = "approved"] /\ L!MyCall(t) \in rows
    BY <1>8 DEF L!AssessApproved, L!books, L!past
  <2>2. ~L!MustAsk(request[t])
    <3>1. L!MyCall(t).code.trip = t
      BY <1>3, <2>1 DEF RunLink, L!MyCall, L!authorization_code
    <3> QED BY <1>3, <2>1, <3>1 DEF ChargeLink
  <2>3. verdict'[t] = "approved" /\ \A u \in Trip : u # t =>
          step'[u] = step[u] /\ verdict'[u] = verdict[u]
    BY <2>1, NetTypes
  <2>4. Link(t)'
    BY <1>1, <1>3, <2>1, <2>2, <2>3, LedgerAlone DEF ChargeLink
  <2> QED BY <1>4, <2>1, <2>3, <2>4
<1>9. CASE L!AssessFails(t) \/ L!Publish(t) \/ L!Conclude(t)
  <2>1. /\ request' = request /\ run' = run /\ verdict' = verdict
        /\ issued \subseteq issued' /\ rows' = rows /\ calls' = calls
        /\ step[t] # "idle"
    BY <1>9 DEF L!AssessFails, L!Publish, L!Conclude, L!books, L!past
  <2>2. Link(t)'
    BY <1>1, <1>3, <2>1, LedgerAlone DEF RunLink, ChargeLink
  <2>3. \A u \in Trip : u # t => step'[u] = step[u] /\ published'[u] = published[u]
    BY <1>9, NetTypes DEF L!AssessFails, L!Publish, L!Conclude
  <2> QED BY <1>4, <2>1, <2>2, <2>3
<1> QED BY <1>1, <1>5, <1>6, <1>7, <1>8, <1>9 DEF L!Advance

LEMMA BooksLink ==
  ASSUME NetInv, Books PROVE \A u \in Trip : Link(u)'
<1>1. /\ rows' \cup calls' \subseteq rows \cup calls
      /\ UNCHANGED concierge /\ UNCHANGED <<step, request, run, verdict, published, issued>>
  BY DEF Books, L!record_commitment, L!LoseCall, L!desk, L!past
<1>2. /\ task' = task /\ live' = live /\ node' = node /\ trip' = trip
      /\ asked' = asked /\ said' = said
  BY <1>1 DEF concierge
<1> QED BY <1>1, <1>2, LinkKept

LEMMA CrashLink ==
  ASSUME NetInv, L!Crash, UNCHANGED concierge PROVE \A u \in Trip : Link(u)'
<1>1. /\ UNCHANGED <<request, run, verdict, published, issued, rows, calls>>
      /\ step' = [t \in Trip |-> "idle"]
  BY DEF L!Crash, L!books
<1>2. ASSUME NEW u \in Trip PROVE Link(u)'
  <2>1. RunLink(u) /\ ChargeLink(u)
    BY DEF NetInv, Link
  <2> QED BY <1>1, <2>1, LedgerAlone DEF RunLink, ChargeLink
<1> QED BY <1>2

(* Ledger's task is cancelled: its run stops where it is, and what it has  *)
(* sent to the books stays on its way.                                     *)
LEMMA LedgerCancelLink ==
  ASSUME NetInv, NEW t \in Trip, L!Cancel(t), UNCHANGED concierge
  PROVE  \A u \in Trip : Link(u)'
<1>1. /\ UNCHANGED <<request, run, verdict, published, issued, rows, calls>>
      /\ step' = [step EXCEPT ![t] = "idle"]
  BY DEF L!Cancel, L!books, L!past
<1>2. ASSUME NEW u \in Trip PROVE Link(u)'
  <2>1. RunLink(u) /\ ChargeLink(u)
    BY DEF NetInv, Link
  <2>2. step'[u] # "idle" => step[u] # "idle"
    BY <1>1, NetTypes
  <2> QED BY <1>1, <2>1, <2>2, LedgerAlone DEF RunLink, ChargeLink
<1> QED BY <1>2

-------------------------------------------------------------------------------
(* Each step of the network is one of the Concierge with open peers, or    *)
(* none of its business; and the same for Ledger.                          *)

LEMMA StepIsConcierge == NetInv /\ [Next]_vars => [C!Next]_(C!vars)
<1> SUFFICES ASSUME NetInv, [Next]_vars PROVE [C!Next]_(C!vars)
  OBVIOUS
<1>1. UNCHANGED concierge => UNCHANGED C!vars
  BY DEF concierge, C!vars
<1>2. ASSUME NEW t \in Trip, ConciergeStep(t) PROVE C!Next
  <2>1. CASE live[t] /\ C!Plan(t)
    BY <2>1 DEF C!Next
  <2>2. CASE Ask(t)
    BY <2>2 DEF Ask, C!AskLedger, C!At, C!Settle, C!Next
  <2>3. CASE Answer(t)
    <3>1. asked[t] /\ step[t] = "idle" /\ published[t]
          /\ (C!node_authorise(t, Artifact(t)) \/ C!node_confirm(t, Artifact(t)))
      BY <2>3 DEF Answer
    <3>2. Artifact(t) \in C!LedgerReplies(C!SpendRequest(t))
      BY <3>1, ArtifactIsAReply
    <3>3. live[t]
      BY <3>1 DEF C!node_authorise, C!node_confirm, C!At
    <3> QED BY <3>1, <3>2, <3>3 DEF C!Settle, C!Next
  <2>4. CASE Silence(t)
    BY <2>4 DEF Silence, C!LedgerSilent, C!At, C!Settle, C!Next
  <2> QED BY <1>2, <2>1, <2>2, <2>3, <2>4 DEF ConciergeStep
<1>3. CASE \E t \in Trip : LedgerStep(t)
  BY <1>1, <1>3 DEF LedgerStep
<1>4. CASE Books
  BY <1>1, <1>4 DEF Books
<1>5. CASE Disturb
  BY <1>1, <1>5 DEF Disturb, C!Next
<1>6. CASE UNCHANGED vars
  BY <1>1, <1>6 DEF vars
<1> QED BY <1>2, <1>3, <1>4, <1>5, <1>6 DEF Next

LEMMA StepIsLedger == NetInv /\ [Next]_vars => [L!Next]_(L!vars)
<1> SUFFICES ASSUME NetInv, [Next]_vars PROVE [L!Next]_(L!vars)
  OBVIOUS
<1>1. UNCHANGED ledger => UNCHANGED L!vars
  BY DEF ledger, L!vars, L!desk, L!books, L!past
<1>2. ASSUME NEW t \in Trip, ConciergeStep(t) PROVE [L!Next]_(L!vars)
  <2>1. CASE Ask(t)
    <3>1. Message(t) \in L!Sendable
      BY <2>1, QuestionIsSendable DEF Ask, C!AskLedger, C!At
    <3>2. CASE L!Receive(t, Message(t))
      BY <3>1, <3>2 DEF L!Next
    <3>3. CASE L!ReceiveUnrecorded(t)
      BY <3>3 DEF L!Next
    <3> QED BY <2>1, <3>2, <3>3 DEF Ask
  <2>2. CASE UNCHANGED ledger
    BY <1>1, <2>2
  <2> QED BY <1>2, <2>1, <2>2 DEF ConciergeStep, Answer, Silence
<1>3. CASE \E t \in Trip : LedgerStep(t)
  BY <1>3 DEF LedgerStep, L!Next
<1>4. CASE Books
  BY <1>4 DEF Books, L!Next
<1>5. CASE Disturb
  BY <1>1, <1>5 DEF Disturb, L!Next
<1>6. CASE UNCHANGED vars
  BY <1>1, <1>6 DEF vars
<1> QED BY <1>2, <1>3, <1>4, <1>5, <1>6 DEF Next

LEMMA NetStep == NetInv /\ [Next]_vars => NetInv'
<1> SUFFICES ASSUME NetInv, [Next]_vars PROVE NetInv'
  OBVIOUS
<1>1. CP!IInv'
  BY StepIsConcierge, SameConcierge, ConciergeAssumptions, CP!StepPreserves
     DEF NetInv
<1>2. LP!SettledInv' /\ LP!VerdictInv'
  BY StepIsLedger, SameLedger, LedgerAssumptions, LP!SettledStep, LP!VerdictStep
     DEF NetInv
<1>3. \A u \in Trip : Link(u)'
  <2>1. ASSUME NEW t \in Trip, ConciergeStep(t) PROVE \A u \in Trip : Link(u)'
    BY <2>1, PlanLink, AskLink, AskUnrecordedLink, AnswerLink, SilenceLink
       DEF ConciergeStep, Ask
  <2>2. ASSUME NEW t \in Trip, LedgerStep(t) PROVE \A u \in Trip : Link(u)'
    BY <2>2, LedgerStepLink
  <2>3. CASE Disturb
    BY <2>3, DisturbLink, CrashLink, LedgerCancelLink DEF Disturb
  <2>4. CASE UNCHANGED vars
    BY <2>4, LinkKept DEF vars, concierge, ledger
  <2> QED BY <2>1, <2>2, BooksLink, <2>3, <2>4 DEF Next
<1> QED BY <1>1, <1>2, <1>3 DEF NetInv

LEMMA NetInvariant == Spec => []NetInv
<1> QED BY InitNetInv, NetStep, PTL DEF Spec

-------------------------------------------------------------------------------
(* The network behaves as the Concierge with an open Ledger does, so all   *)
(* that is proved in ConciergeProofs holds with the real one (what assess  *)
(* and the two tools answer against LedgerReplies).                        *)
THEOREM NetworkIsAConcierge == Spec => LedgerKeepsItsPromise
<1>1. Init => C!Init
  BY DEF Init
<1> QED
  BY <1>1, StepIsConcierge, NetInvariant, PTL DEF Spec, LedgerKeepsItsPromise, C!Spec

(* And as Ledger with any caller that sends only tokens it was given does, *)
(* so all that is proved in LedgerProofs holds of the network.             *)
THEOREM NetworkIsALedger == Spec => ConciergeIsALedgerCaller
<1>1. Init => L!Init
  BY DEF Init
<1> QED
  BY <1>1, StepIsLedger, NetInvariant, PTL
     DEF Spec, ConciergeIsALedgerCaller, L!Spec

(* So in the network too each charge had a request behind it that needed   *)
(* no approval or that presented the code Ledger had handed out for it.    *)
THEOREM NetworkMoneyIsSanctioned == Spec => []LP!MoneyIsSanctioned
<1>1. Spec => LP!Spec
  BY NetworkIsALedger, SameLedger, PTL
     DEF ConciergeIsALedgerCaller, L!Spec, LP!Spec
<1>2. LP!Spec => []LP!MoneyIsSanctioned
  BY LedgerAssumptions, LP!LedgerSanctioned
<1> QED BY <1>1, <1>2

(* A confirmed trip is in the books, once, at the total it ships with and  *)
(* on its traveller's cost centre (authorise_spend, _commit, and what the  *)
(* Concierge assembles from the verdict).                                  *)
THEOREM NetworkBooksWhatItConfirms == Spec => []ConfirmedIsBooked
<1>1. ASSUME NetInv, NEW t \in Trip, C!Confirmed(t)
      PROVE  /\ Charges(t) \subseteq rows
             /\ {k.code : k \in Charges(t)} =
                  {[trip |-> t, cc |-> CentreOf[t], usd |-> Usd[trip[t].stay]]}
  <2>1. trip[t] # None /\ task[t] = "completed" /\ CP!Confirmed(t)
    BY <1>1 DEF C!Confirmed, CP!Confirmed
  <2>2. CP!Settled(node[t], trip[t])
    BY <1>1, <2>1 DEF NetInv, CP!IInv, CP!TripInv, CP!TaskInv, CP!Settled
  <2>3. trip[t].budget.decision = "approved"
    BY <1>1, <2>1, ConciergeAssumptions, CP!ConfirmedThread DEF NetInv
  <2>4. /\ verdict[t] = "approved"
        /\ L!authorization_code(request[t]) = CodeOf(t, trip[t])
    BY <1>1, <2>1, <2>2, <2>3 DEF NetInv, Link, ThreadLink, ApprovedInv
  <2> DEFINE k == L!MyCall(t)
  <2>5. k \in rows
    BY <1>1, <2>4 DEF NetInv, LP!VerdictInv, LP!VerdictMatchesBooks, LP!MyCall,
       L!MyCall, LP!authorization_code, L!authorization_code
  <2>6. k.code = CodeOf(t, trip[t]) /\ k.code.trip = t
    BY <2>4 DEF L!MyCall, CodeOf
  <2>7. \A l \in Charges(t) : l = k
    BY <1>1 DEF NetInv, Link, ChargeLink, Charges
  <2> HIDE DEF k
  <2>8. Charges(t) = {k}
    BY <2>5, <2>6, <2>7 DEF Charges
  <2> QED BY <2>5, <2>6, <2>8 DEF CodeOf
<1>2. NetInv => ConfirmedIsBooked
  BY <1>1 DEF ConfirmedIsBooked
<1> QED BY <1>2, NetInvariant, PTL

(* No trip is charged twice, whatever times out, restarts or is cancelled. *)
THEOREM NetworkChargesOnce == Spec => []ChargedAtMostOnce
<1>1. ASSUME NetInv, NEW t \in Trip PROVE Cardinality(Charges(t)) <= 1
  <2>1. Charges(t) \subseteq {L!MyCall(t)}
    BY <1>1 DEF NetInv, Link, ChargeLink, Charges
  <2>2. IsFiniteSet({L!MyCall(t)}) /\ Cardinality({L!MyCall(t)}) = 1
    BY FS_Singleton
  <2> QED BY <2>1, <2>2, FS_Subset
<1>2. NetInv => ChargedAtMostOnce
  BY <1>1 DEF ChargedAtMostOnce
<1> QED BY <1>2, NetInvariant, PTL

(* "Declining the approval leaves the ledger untouched", and so does a     *)
(* pause that nobody answers (node_await_approval, assess).                *)
THEOREM NetworkUntouchedWithoutYes == Spec => []UntouchedWithoutYes
<1>1. ASSUME NetInv, NEW t \in Trip, NEW k \in Charges(t)
      PROVE  /\ task[t] # "input_required" /\ state[t] # "input_required"
             /\ said[t] # "decline"
  <2>1. ~MayAsk(t) /\ said[t] # "decline" /\ verdict[t] # "needs_approval"
    BY <1>1 DEF NetInv, Link, ChargeLink, Licensed, Charges
  <2>2. state[t] = "input_required" => verdict[t] = "needs_approval"
    BY <1>1 DEF NetInv, LP!SettledInv, LP!SettledAsSaid
  <2> QED BY <2>1, <2>2 DEF MayAsk
<1>2. NetInv => UntouchedWithoutYes
  BY <1>1 DEF UntouchedWithoutYes
<1> QED BY <1>2, NetInvariant, PTL

(* "No money moves before a human says yes", over both agents: a question  *)
(* that needs an approval is charged only after the pause was answered.    *)
THEOREM NetworkAsksBeforeMoney == Spec => []YesBeforeMoney
<1>1. ASSUME NetInv, NEW t \in Trip, NEW k \in Charges(t), request[t].requires
      PROVE  said[t] \in {"approve", "unclear"}
  BY <1>1 DEF NetInv, Link, ChargeLink, Licensed, Charges, LetPass
<1>2. NetInv => YesBeforeMoney
  BY <1>1 DEF YesBeforeMoney
<1> QED BY <1>2, NetInvariant, PTL
================================================================================
