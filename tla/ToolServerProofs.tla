--------------------------- MODULE ToolServerProofs ---------------------------
(***************************************************************************)
(* Proofs about module ToolServer, for any number of uses, calls, queries, *)
(* connections and restarts.                                               *)
(***************************************************************************)
EXTENDS ToolServer, TLAPS

(* Statements behind the first n calls of a use. *)
Due(u, n) == n * Queries[u]

Running == {"pool", "creating", "acquire", "query"}

(* What the two ends of a use know of each other.  While a handler runs,   *)
(* what has run and what is left make up one more call; a result on its    *)
(* way means all of it has run; an orphan may run one statement more.      *)
InStep(u) ==
    /\ client[u] = "new" =>
          wire[u] = "none" /\ handler[u] = "none" /\ made[u] = 0 /\ ran[u] = 0
    /\ client[u] \in {"connect", "notify"} =>
          /\ wire[u] \in {IF client[u] = "connect" THEN "initialize" ELSE "initialized",
                          "ok", "error"}
          /\ handler[u] = "none" /\ made[u] = 0 /\ ran[u] = 0
    /\ client[u] = "call" => wire[u] \in {"tools/call", "taken", "ok", "error"}
    /\ client[u] # "answered" => made[u] < Calls[u]
    /\ client[u] = "answered" =>
          /\ wire[u] = "none" /\ handler[u] = "none"
          /\ made[u] = Calls[u] /\ ran[u] = Due(u, made[u])
    /\ wire[u] \in {"initialize", "initialized"} =>
          handler[u] = "none" /\ made[u] = 0 /\ ran[u] = 0
    /\ wire[u] = "tools/call" =>
          handler[u] = "none" /\ client[u] \in {"call", "raised"} /\ ran[u] = Due(u, made[u])
    /\ wire[u] = "taken" <=> handler[u] \in Running
    /\ handler[u] \in Running => ran[u] + left[u] = Due(u, made[u] + 1)
    /\ handler[u] \in {"creating", "acquire", "query"} => left[u] > 0
    /\ handler[u] = "orphan" =>
          wire[u] \in {"none", "error"} /\ ran[u] < Due(u, made[u] + 1)
    /\ client[u] = "call" /\ wire[u] = "ok" =>
          handler[u] = "none" /\ ran[u] = Due(u, made[u] + 1)

(* The HTTP client is left open in the handshake only. *)
Tidy(u) ==
    /\ client[u] = "answered" => http[u] = "closed"
    /\ client[u] = "raised" /\ http[u] = "open" =>
          wire[u] # "tools/call" /\ handler[u] = "none" /\ ran[u] = 0

IInv == TypeOK /\ \A u \in Use : InStep(u) /\ Tidy(u)

-------------------------------------------------------------------------------
(* Multiplication, as far as the counting below needs it. *)
LEMMA Times ==
    ASSUME NEW n \in Nat, NEW m \in Nat, NEW q \in Nat
    PROVE  /\ n * q \in Nat
           /\ 0 * q = 0
           /\ (n + 1) * q = n * q + q
           /\ (n + m) * q = n * q + m * q
  OBVIOUS

(* Each call is for Queries[u] statements more, and none is due beyond the *)
(* last call.                                                              *)
LEMMA DueSteps ==
    ASSUME NEW u \in Use, NEW n \in Nat, n < Calls[u]
    PROVE  /\ Due(u, 0) = 0
           /\ Due(u, n) \in Nat
           /\ Due(u, n + 1) = Due(u, n) + Queries[u]
           /\ Due(u, n + 1) <= Due(u, Calls[u])
<1>1. Queries[u] \in Nat
  BY QueriesAssumption
<1>2. PICK rest \in Nat : Calls[u] = (n + 1) + rest
  <2>1. Calls[u] - (n + 1) \in Nat /\ Calls[u] = (n + 1) + (Calls[u] - (n + 1))
    BY CallsAssumption
  <2> QED BY <2>1
<1>3. /\ Due(u, Calls[u]) = Due(u, n + 1) + Due(u, rest)
      /\ Due(u, rest) \in Nat /\ Due(u, n + 1) \in Nat
  BY <1>1, <1>2, Times, n + 1 \in Nat DEF Due
<1> QED
  <2>1. Due(u, 0) = 0 /\ Due(u, n) \in Nat /\ Due(u, n + 1) = Due(u, n) + Queries[u]
    BY <1>1, Times DEF Due
  <2> QED BY <2>1, <1>3

(* The initial states satisfy the invariant. *)
LEMMA ToolServerInit == Init => IInv
<1> SUFFICES ASSUME Init PROVE IInv
  OBVIOUS
<1>1. TypeOK
  BY CallsAssumption, QueriesAssumption DEF Init, TypeOK, Awaiting, Requests
<1>2. \A u \in Use : InStep(u) /\ Tidy(u)
  BY CallsAssumption DEF Init, InStep, Tidy, Running
<1> QED BY <1>1, <1>2 DEF IInv

(* Every step keeps the types. *)
LEMMA ToolServerType == IInv /\ [Next]_vars => TypeOK'
<1> SUFFICES ASSUME IInv, [Next]_vars PROVE TypeOK'
  OBVIOUS
<1> USE DEF IInv, TypeOK, Awaiting, Requests, theClient, sessions, theHandler, pools, past
<1>1. ASSUME NEW u \in Use, ClientStep(u) PROVE TypeOK'
  <2>1. (made[u] < Calls[u] /\ made[u] + 1 <= Calls[u]) \/ client[u] = "answered"
    BY CallsAssumption DEF InStep
  <2>2. CASE Answered(u)
    <3>1. client[u] = "call"
      BY <2>2 DEF Answered
    <3>2. made' = [made EXCEPT ![u] = @ + 1] /\ made[u] + 1 \in Nat
      BY <2>2 DEF Answered
    <3>3. /\ made' \in [Use -> Nat]
          /\ \A v \in Use : made'[v] <= Calls[v]
      BY <2>1, <3>1, <3>2
    <3> QED BY <2>2, <3>3 DEF Answered
  <2>3. CASE ~Answered(u)
    BY <1>1, <2>3 DEF ClientStep, Enter, Connected, Notified, Raises, Leave, Fate
  <2> QED BY <2>2, <2>3
<1>2. ASSUME NEW u \in Use, ServerStep(u) PROVE TypeOK'
  <2>1. CASE Query(u)
    <3>1. left[u] \in Nat /\ left[u] > 0 /\ left[u] <= Queries[u] /\ Queries[u] \in Nat
      <4>1. InStep(u) /\ handler[u] = "query"
        BY <2>1 DEF Query
      <4>2. left[u] > 0
        BY <4>1 DEF InStep
      <4> QED BY <4>2, QueriesAssumption
    <3>2. left' \in [Use -> Nat] /\ \A v \in Use : left'[v] <= Queries[v]
      BY <2>1, <3>1 DEF Query
    <3> QED BY <2>1, <3>2 DEF Query
  <2>2. CASE Accept(u)
    <3>1. left' = [left EXCEPT ![u] = Queries[u]]
      BY <2>2 DEF Accept
    <3>2. Queries \in [Use -> Nat] /\ \A v \in Use : Queries[v] <= Queries[v]
      BY QueriesAssumption
    <3>3. left' \in [Use -> Nat] /\ \A v \in Use : left'[v] <= Queries[v]
      BY <3>1, <3>2
    <3> QED BY <2>2, <3>3 DEF Accept, Respond
  <2>3. CASE FindPool(u) \/ PoolMade(u) \/ Acquire(u) \/ Return(u) \/ Orphan(u)
    BY <2>3 DEF FindPool, PoolMade, Acquire, Return, Orphan, Respond
  <2>4. CASE Initialize(u) \/ Initialized(u) \/ Refuse(u)
    BY <2>4 DEF Initialize, Initialized, Refuse, Respond
  <2> QED BY <1>2, <2>1, <2>2, <2>3, <2>4 DEF ServerStep, Handle
<1>3. ASSUME NEW u \in Use, Fault(u) PROVE TypeOK'
  <2>1. CASE TimesOut(u)
    BY <2>1 DEF TimesOut, Leave, Fate
  <2>2. CASE ToolFails(u)
    BY <2>2 DEF ToolFails, Respond
  <2>3. CASE Lose(u)
    BY <2>3 DEF Lose, Respond
  <2> QED BY <1>3, <2>1, <2>2, <2>3 DEF Fault
<1>4. CASE Restart
  <2>1. wire' \in [Use -> Requests \cup {"none", "taken", "ok", "error"}]
    BY <1>4 DEF Restart
  <2>2. handler' \in [Use -> {"none", "orphan"}]
    BY <1>4 DEF Restart
  <2>3. hit' \in [Use -> BOOLEAN]
    BY <1>4 DEF Restart
  <2> QED BY <1>4, <2>1, <2>2, <2>3 DEF Restart
<1>5. CASE UNCHANGED vars
  BY <1>5 DEF vars
<1> QED BY <1>1, <1>2, <1>3, <1>4, <1>5 DEF Next

(* What the invariant says of a use depends on that use only. *)
Local(v) == <<client[v], http[v], made[v], wire[v], handler[v], left[v], ran[v]>>

LEMMA Frame ==
    ASSUME NEW v \in Use, InStep(v), Tidy(v), Local(v)' = Local(v)
    PROVE  InStep(v)' /\ Tidy(v)'
  BY DEF InStep, Tidy, Local, Due, Running

(* A step for one use leaves the others alone. *)
LEMMA OneUse ==
    ASSUME TypeOK, NEW u \in Use, ClientStep(u) \/ ServerStep(u) \/ Fault(u),
           NEW v \in Use, v # u
    PROVE  Local(v)' = Local(v)
<1> USE DEF TypeOK, Local, theClient, sessions, theHandler, pools, past
<1>1. CASE ClientStep(u)
  BY <1>1 DEF ClientStep, Enter, Connected, Notified, Answered, Raises, Leave
<1>2. CASE ServerStep(u)
  BY <1>2 DEF ServerStep, Handle, Initialize, Initialized, Accept, Refuse, FindPool,
     PoolMade, Acquire, Query, Return, Orphan, Respond
<1>3. CASE Fault(u)
  BY <1>3 DEF Fault, TimesOut, ToolFails, Lose, Leave, Respond
<1> QED BY <1>1, <1>2, <1>3

(* A step of the client keeps its use in step.                             *)
LEMMA ClientInStep ==
    ASSUME IInv, NEW u \in Use, ClientStep(u)
    PROVE  InStep(u)' /\ Tidy(u)'
<1> USE DEF theClient, sessions, theHandler, pools, past, Awaiting, Requests, Running, Respond
<1>1. InStep(u) /\ Tidy(u) /\ TypeOK
  BY DEF IInv
<1>2. /\ made[u] \in Nat /\ left[u] \in Nat /\ ran[u] \in Nat
      /\ Queries[u] \in Nat /\ Calls[u] \in Nat /\ made[u] <= Calls[u]
  BY <1>1, QueriesAssumption, CallsAssumption DEF TypeOK
<1>3. /\ 0 * Queries[u] = 0
      /\ (made[u] + 1) * Queries[u] = made[u] * Queries[u] + Queries[u]
      /\ made[u] * Queries[u] \in Nat
  BY <1>2, Times
<1>4. CASE Enter(u)
  BY <1>1, <1>2, <1>3, <1>4 DEF Enter, InStep, Tidy, Due, TypeOK
<1>5. CASE Connected(u)
  BY <1>1, <1>2, <1>3, <1>5 DEF Connected, InStep, Tidy, Due, TypeOK
<1>6. CASE Notified(u)
  BY <1>1, <1>2, <1>3, <1>6 DEF Notified, InStep, Tidy, Due, TypeOK
<1>7. CASE Answered(u)
  <2>1. /\ handler[u] = "none" /\ made[u] < Calls[u]
        /\ ran[u] = (made[u] + 1) * Queries[u]
    BY <1>1, <1>7 DEF Answered, InStep, Due
  <2>2. /\ made'[u] = made[u] + 1
        /\ UNCHANGED <<handler, left, ran>>
    BY <1>1, <1>7 DEF Answered, TypeOK
  <2>3. CASE made[u] + 1 < Calls[u]
    <3>1. client'[u] = "call" /\ wire'[u] = "tools/call"
      BY <1>1, <1>7, <2>3 DEF Answered, TypeOK
    <3> QED BY <1>2, <2>1, <2>2, <2>3, <3>1 DEF InStep, Tidy, Due
  <2>4. CASE ~(made[u] + 1 < Calls[u])
    <3>1. client'[u] = "answered" /\ wire'[u] = "none" /\ http'[u] = "closed"
      BY <1>1, <1>7, <2>4 DEF Answered, TypeOK
    <3>2. made[u] + 1 = Calls[u]
      BY <1>2, <2>1, <2>4
    <3> QED BY <1>2, <2>1, <2>2, <3>1, <3>2 DEF InStep, Tidy, Due
  <2> QED BY <2>3, <2>4
<1>8. CASE Raises(u)
  BY <1>1, <1>2, <1>3, <1>8 DEF Raises, InStep, Tidy, Due, TypeOK, Leave, Fate
<1> QED BY <1>4, <1>5, <1>6, <1>7, <1>8 DEF ClientStep

(* So does a step of the server,                                           *)
LEMMA ServerInStep ==
    ASSUME IInv, NEW u \in Use, ServerStep(u)
    PROVE  InStep(u)' /\ Tidy(u)'
<1> USE DEF theClient, sessions, theHandler, pools, past, Awaiting, Requests, Running, Respond
<1>1. InStep(u) /\ Tidy(u) /\ TypeOK
  BY DEF IInv
<1>2. /\ made[u] \in Nat /\ left[u] \in Nat /\ ran[u] \in Nat
      /\ Queries[u] \in Nat /\ Calls[u] \in Nat /\ made[u] <= Calls[u]
  BY <1>1, QueriesAssumption, CallsAssumption DEF TypeOK
<1>3. /\ 0 * Queries[u] = 0
      /\ (made[u] + 1) * Queries[u] = made[u] * Queries[u] + Queries[u]
      /\ made[u] * Queries[u] \in Nat
  BY <1>2, Times
<1>4. CASE Initialize(u)
  BY <1>1, <1>2, <1>3, <1>4 DEF Initialize, InStep, Tidy, Due, TypeOK
<1>5. CASE Initialized(u)
  BY <1>1, <1>2, <1>3, <1>5 DEF Initialized, InStep, Tidy, Due, TypeOK
<1>6. CASE Accept(u)
  BY <1>1, <1>2, <1>3, <1>6 DEF Accept, InStep, Tidy, Due, TypeOK
<1>7. CASE Refuse(u)
  BY <1>1, <1>2, <1>3, <1>7 DEF Refuse, InStep, Tidy, Due, TypeOK
<1>8. CASE FindPool(u)
  BY <1>1, <1>2, <1>3, <1>8 DEF FindPool, InStep, Tidy, Due, TypeOK, MoreToRun
<1>9. CASE PoolMade(u)
  BY <1>1, <1>2, <1>3, <1>9 DEF PoolMade, InStep, Tidy, Due, TypeOK
<1>10. CASE Acquire(u)
  BY <1>1, <1>2, <1>3, <1>10 DEF Acquire, InStep, Tidy, Due, TypeOK
<1>11. CASE Query(u)
  BY <1>1, <1>2, <1>3, <1>11 DEF Query, InStep, Tidy, Due, TypeOK
<1>12. CASE Return(u)
  BY <1>1, <1>2, <1>3, <1>12 DEF Return, InStep, Tidy, Due, TypeOK, MoreToRun
<1>13. CASE Orphan(u)
  BY <1>1, <1>2, <1>3, <1>13 DEF Orphan, InStep, Tidy, Due, TypeOK
<1> QED BY <1>4, <1>5, <1>6, <1>7, <1>8, <1>9, <1>10, <1>11, <1>12, <1>13 DEF ServerStep, Handle

(* and whatever goes wrong for one use,                                    *)
LEMMA FaultInStep ==
    ASSUME IInv, NEW u \in Use, Fault(u)
    PROVE  InStep(u)' /\ Tidy(u)'
<1> USE DEF theClient, sessions, theHandler, pools, past, Awaiting, Requests, Running, Respond
<1>1. InStep(u) /\ Tidy(u) /\ TypeOK
  BY DEF IInv
<1>2. /\ made[u] \in Nat /\ left[u] \in Nat /\ ran[u] \in Nat
      /\ Queries[u] \in Nat /\ Calls[u] \in Nat /\ made[u] <= Calls[u]
  BY <1>1, QueriesAssumption, CallsAssumption DEF TypeOK
<1>3. /\ 0 * Queries[u] = 0
      /\ (made[u] + 1) * Queries[u] = made[u] * Queries[u] + Queries[u]
      /\ made[u] * Queries[u] \in Nat
  BY <1>2, Times
<1>4. CASE TimesOut(u)
  BY <1>1, <1>2, <1>3, <1>4 DEF TimesOut, InStep, Tidy, Due, TypeOK, Leave, Fate
<1>5. CASE ToolFails(u)
  BY <1>1, <1>2, <1>3, <1>5 DEF ToolFails, InStep, Tidy, Due, TypeOK
<1>6. CASE Lose(u)
  BY <1>1, <1>2, <1>3, <1>6 DEF Lose, InStep, Tidy, Due, TypeOK
<1> QED BY <1>4, <1>5, <1>6 DEF Fault

(* and a restart of the server for all of them. *)
LEMMA RestartInStep ==
    ASSUME IInv, Restart, NEW u \in Use
    PROVE  InStep(u)' /\ Tidy(u)'
<1>1. InStep(u) /\ Tidy(u) /\ TypeOK
  BY DEF IInv
<1>2. /\ made[u] \in Nat /\ left[u] \in Nat /\ ran[u] \in Nat
      /\ Queries[u] \in Nat /\ Calls[u] \in Nat
  BY <1>1, QueriesAssumption, CallsAssumption DEF TypeOK
<1>3. /\ handler'[u] = IF handler[u] \in {"query", "orphan"} THEN "orphan" ELSE "none"
      /\ wire'[u] = IF wire[u] = "taken" THEN "error" ELSE wire[u]
      /\ UNCHANGED <<client, http, made, left, ran>>
  BY DEF Restart, theClient
<1> QED BY <1>1, <1>2, <1>3, Times DEF InStep, Tidy, Due, Running

(* The invariant is inductive. *)
LEMMA ToolServerStep == IInv /\ [Next]_vars => IInv'
<1> SUFFICES ASSUME IInv, [Next]_vars, NEW v \in Use PROVE InStep(v)' /\ Tidy(v)'
  BY ToolServerType DEF IInv
<1>1. TypeOK /\ InStep(v) /\ Tidy(v)
  BY DEF IInv
<1>2. ASSUME NEW u \in Use, ClientStep(u) \/ ServerStep(u) \/ Fault(u)
      PROVE  InStep(v)' /\ Tidy(v)'
  <2>1. CASE u = v
    BY <1>2, <2>1, ClientInStep, ServerInStep, FaultInStep
  <2>2. CASE u # v
    BY <1>1, <1>2, <2>2, OneUse, Frame
  <2> QED BY <2>1, <2>2
<1>3. CASE Restart
  BY <1>3, RestartInStep
<1>4. CASE UNCHANGED vars
  <2>1. Local(v)' = Local(v)
    BY <1>4 DEF vars, Local, theClient, theHandler, past
  <2> QED BY <1>1, <2>1, Frame
<1> QED BY <1>2, <1>3, <1>4 DEF Next

-------------------------------------------------------------------------------
(* The clients, the server and the pool keep to their types. *)
THEOREM ToolServerTypeCorrect == Spec => []TypeOK
<1>1. IInv => TypeOK
  BY DEF IInv
<1> QED BY ToolServerInit, ToolServerStep, <1>1, PTL DEF Spec

(* An HTTP client that is never closed (MCPClient.__aenter__ raising) is   *)
(* always one on which no tool was called and behind which nothing ran.    *)
THEOREM ToolServerLeak == Spec => []LeakIsAHandshake
<1>1. IInv => LeakIsAHandshake
  BY DEF IInv, TypeOK, Tidy, InStep, LeakIsAHandshake
<1> QED BY ToolServerInit, ToolServerStep, <1>1, PTL DEF Spec

(* MCPClient.call over the inventory server and its pool is the tool call  *)
(* of module ToolCall: an answer means that every statement ran once, an   *)
(* error leaves it open, whatever is lost, late or restarted.              *)
THEOREM ToolServerImplements == Spec => IsAToolCall
<1> DEFINE statements == [u \in Use |-> Calls[u] * Queries[u]]
<1>1. Init => Promised!Init
  BY DEF Init, Promised!Init, outcome
<1>2. IInv /\ [Next]_vars => [Promised!Next]_<<outcome, ran>>
  <2> SUFFICES ASSUME IInv, [Next]_vars, ~UNCHANGED <<outcome, ran>>
               PROVE  Promised!Next
    OBVIOUS
  <2>1. TypeOK
    BY DEF IInv
  <2>2. ~Restart /\ ~UNCHANGED vars
    BY DEF Restart, vars, theClient, past, outcome
  <2>3. PICK u \in Use : ClientStep(u) \/ ServerStep(u) \/ Fault(u)
    BY <2>2 DEF Next
  <2>4. InStep(u)
    BY DEF IInv
  <2>5. /\ made[u] \in Nat /\ left[u] \in Nat /\ ran[u] \in Nat
        /\ Queries[u] \in Nat /\ Calls[u] \in Nat
    BY <2>1, QueriesAssumption, CallsAssumption DEF TypeOK
  <2>6. CASE Answered(u)
    <3>0. client[u] = "call" /\ UNCHANGED ran /\ made[u] < Calls[u]
      BY <2>4, <2>6 DEF Answered, past, InStep
    <3>1. made[u] + 1 = Calls[u] /\ client[u] = "call" /\ UNCHANGED ran
      <4>1. CASE made[u] + 1 < Calls[u]
        BY <2>6, <3>0, <4>1 DEF Answered, outcome
      <4> QED BY <2>5, <3>0, <4>1
    <3>2. ran[u] = Calls[u] * Queries[u]
      BY <2>4, <2>6, <3>1 DEF Answered, InStep, Due
    <3>3. client' = [client EXCEPT ![u] = "answered"]
      BY <2>5, <2>6, <3>1 DEF Answered
    <3>4. outcome' = [outcome EXCEPT ![u] = "answered"] /\ outcome[u] = "open"
      BY <2>1, <3>1, <3>3 DEF outcome, TypeOK
    <3> QED BY <3>1, <3>2, <3>4 DEF Promised!Next, Promised!Answer
  <2>7. CASE Raises(u) \/ TimesOut(u)
    <3>1. client' = [client EXCEPT ![u] = "raised"] /\ client[u] \in Awaiting /\ UNCHANGED ran
      BY <2>7 DEF Raises, TimesOut, Leave, past
    <3>2. outcome' = [outcome EXCEPT ![u] = "raised"] /\ outcome[u] = "open"
      BY <2>1, <3>1 DEF outcome, TypeOK, Awaiting
    <3> QED BY <3>1, <3>2 DEF Promised!Next, Promised!Raise
  <2>8. CASE Query(u) \/ ToolFails(u) \/ Orphan(u)
    <3>1. /\ ran' = [ran EXCEPT ![u] = @ + 1]
          /\ handler[u] \in {"query", "orphan"}
          /\ UNCHANGED <<client, outcome>>
      BY <2>8 DEF Query, ToolFails, Orphan, theClient, outcome
    <3>2. client[u] # "answered" /\ made[u] < Calls[u] /\ ran[u] < Due(u, made[u] + 1)
      BY <2>4, <2>5, <3>1, DueSteps DEF InStep, Running
    <3>3. ran[u] < Calls[u] * Queries[u]
      <4>1. Due(u, made[u] + 1) <= Due(u, Calls[u]) /\ Due(u, Calls[u]) \in Nat
            /\ Due(u, made[u] + 1) \in Nat
        BY <2>5, <3>2, DueSteps, Times, made[u] + 1 \in Nat DEF Due
      <4> QED BY <2>5, <3>2, <4>1 DEF Due
    <3> QED BY <3>1, <3>2, <3>3 DEF Promised!Next, Promised!Run, outcome
  <2>9. CASE Enter(u) \/ Connected(u) \/ Notified(u)
    <3>1. UNCHANGED outcome
      BY <2>1, <2>9 DEF Enter, Connected, Notified, outcome, TypeOK
    <3> QED BY <2>9, <3>1 DEF Enter, Connected, Notified, past
  <2>10. ASSUME UNCHANGED <<client, ran>> PROVE FALSE
    BY <2>10 DEF outcome
  <2>11. ASSUME Initialize(u) \/ Initialized(u) \/ Accept(u) \/ Refuse(u) \/ FindPool(u)
                \/ PoolMade(u) \/ Acquire(u) \/ Return(u) \/ Lose(u)
         PROVE  FALSE
    BY <2>10, <2>11 DEF Initialize, Initialized, Accept, Refuse, FindPool, PoolMade,
       Acquire, Return, Lose, theClient, past
  <2> QED
    BY <2>3, <2>6, <2>7, <2>8, <2>9, <2>11 DEF ClientStep, ServerStep, Handle, Fault
<1> QED
  BY ToolServerInit, ToolServerStep, <1>1, <1>2, PTL
     DEF Spec, IsAToolCall, Promised!Spec

-------------------------------------------------------------------------------
(* A use nothing has touched: its session is the one the running process   *)
(* made, and it has not seen an error.                                     *)
Unhurt(u) ==
    ~hit[u] =>
        /\ client[u] # "raised" /\ wire[u] # "error"
        /\ client[u] = "connect" /\ wire[u] = "ok" => u \in fresh
        /\ client[u] = "notify" => u \in fresh /\ (wire[u] = "ok" => u \in ready)
        /\ client[u] = "call" => u \in ready

CauseInv == IInv /\ \A u \in Use : Unhurt(u)

LEMMA CauseInit == Init => CauseInv
<1>1. Init => \A u \in Use : Unhurt(u)
  BY DEF Init, Unhurt
<1> QED BY <1>1, ToolServerInit DEF CauseInv

(* No step takes an untouched use to an error. *)
LEMMA CauseStep == CauseInv /\ [Next]_vars => CauseInv'
<1> SUFFICES ASSUME CauseInv, [Next]_vars, NEW v \in Use PROVE Unhurt(v)'
  BY ToolServerStep DEF CauseInv
<1>1. TypeOK /\ InStep(v) /\ Unhurt(v)
  BY DEF CauseInv, IInv
<1> USE DEF TypeOK, theClient, sessions, theHandler, pools, past, Awaiting, Requests, Respond
<1>2. ASSUME NEW u \in Use, ClientStep(u) PROVE Unhurt(v)'
  BY <1>1, <1>2 DEF ClientStep, Enter, Connected, Notified, Answered, Raises, Leave, Unhurt
<1>3. ASSUME NEW u \in Use, ServerStep(u) PROVE Unhurt(v)'
  <2>1. CASE Initialize(u)
    <3>1. /\ UNCHANGED <<client, ready, hit>>
          /\ wire'[v] = IF v = u THEN "ok" ELSE wire[v]
          /\ fresh' = fresh \cup {u}
      BY <1>1, <2>1 DEF Initialize
    <3>2. v = u => wire[v] = "initialize"
      BY <2>1 DEF Initialize
    <3>3. client[v] = "notify" => v # u
      BY <1>1, <3>2 DEF InStep
    <3> QED BY <1>1, <3>1, <3>2, <3>3 DEF Unhurt
  <2>2. CASE Initialized(u)
    <3>1. /\ UNCHANGED <<client, fresh, hit>>
          /\ wire'[v] = IF v = u THEN "ok" ELSE wire[v]
          /\ ready' = IF u \in fresh THEN ready \cup {u} ELSE ready
      BY <1>1, <2>2 DEF Initialized
    <3>2. v = u => wire[v] = "initialized"
      BY <2>2 DEF Initialized
    <3>3. client[v] = "connect" => v # u
      BY <1>1, <3>2 DEF InStep
    <3> QED BY <1>1, <3>1, <3>2, <3>3 DEF Unhurt
  <2>3. CASE Accept(u)
    BY <1>1, <2>3 DEF Accept, Unhurt, InStep
  <2>4. CASE Refuse(u)
    <3>1. /\ UNCHANGED <<client, fresh, ready, hit>>
          /\ wire'[v] = IF v = u THEN "error" ELSE wire[v]
      BY <1>1, <2>4 DEF Refuse
    <3>2. v = u => wire[v] = "tools/call" /\ v \notin ready /\ client[v] \in {"call", "raised"}
      BY <1>1, <2>4 DEF Refuse, InStep
    <3> QED BY <1>1, <3>1, <3>2 DEF Unhurt
  <2>5. CASE Return(u)
    <3>1. /\ UNCHANGED <<client, fresh, ready, hit>>
          /\ wire'[v] = IF v = u THEN "ok" ELSE wire[v]
      BY <1>1, <2>5 DEF Return
    <3>2. v = u => client[v] \notin {"connect", "notify"}
      BY <1>1, <2>5 DEF Return, InStep
    <3> QED BY <1>1, <3>1, <3>2 DEF Unhurt
  <2>6. CASE FindPool(u) \/ PoolMade(u) \/ Acquire(u) \/ Query(u) \/ Orphan(u)
    BY <1>1, <2>6 DEF FindPool, PoolMade, Acquire, Query, Orphan, Unhurt
  <2> QED BY <1>3, <2>1, <2>2, <2>3, <2>4, <2>5, <2>6 DEF ServerStep, Handle
<1>4. ASSUME NEW u \in Use, Fault(u) PROVE Unhurt(v)'
  BY <1>1, <1>4 DEF Fault, TimesOut, ToolFails, Lose, Leave, Unhurt
<1>5. CASE Restart
  <2>1. /\ UNCHANGED client
        /\ hit'[v] = (hit[v] \/ client[v] \in Awaiting)
        /\ wire'[v] = IF wire[v] = "taken" THEN "error" ELSE wire[v]
    BY <1>5 DEF Restart
  <2> QED BY <1>1, <2>1 DEF Unhurt, InStep
<1>6. CASE UNCHANGED vars
  BY <1>1, <1>6 DEF vars, Unhurt
<1> QED BY <1>2, <1>3, <1>4, <1>5, <1>6 DEF Next

(* MCPClient raises only when something happened to it: a healthy session  *)
(* (connect, then call) is never refused by a healthy server.              *)
THEOREM ToolServerErrors == Spec => []ErrorsHaveACause
<1>1. CauseInv => ErrorsHaveACause
  BY DEF CauseInv, Unhurt, ErrorsHaveACause
<1> QED BY CauseInit, CauseStep, <1>1, PTL DEF Spec

-------------------------------------------------------------------------------
(* As long as _pool is None, this process has opened no pool. *)
PoolKept == pool = NoPool => opened = {}

(* However many first users race in db.pool, nobody begins another pool    *)
(* once one of them has opened his.                                        *)
THEOREM ToolServerPools == Spec => NoneBegunAfterTheFirst
<1>1. Init => PoolKept
  BY DEF Init, PoolKept
<1>2. PoolKept /\ [Next]_vars => PoolKept'
  BY NoPoolAssumption
     DEF PoolKept, Next, vars, ClientStep, ServerStep, Handle, Fault, Enter, Connected,
         Notified, Answered, Raises, Leave, Initialize, Initialized, Accept, Refuse,
         FindPool, PoolMade, Acquire, Query, Return, Orphan, TimesOut, ToolFails, Lose,
         Restart, theClient, sessions, theHandler, pools, past
<1>3. TypeOK /\ PoolKept /\ [Next]_vars =>
        [\A u \in Use : handler'[u] = "creating" /\ handler[u] # "creating" => opened = {}]_vars
  <2> SUFFICES ASSUME TypeOK, PoolKept, [Next]_vars, NEW v \in Use,
                      handler'[v] = "creating", handler[v] # "creating"
               PROVE  pool = NoPool
    BY DEF PoolKept
  <2>1. ~Restart /\ ~UNCHANGED handler
    BY DEF Restart, TypeOK
  <2>2. PICK u \in Use : ClientStep(u) \/ ServerStep(u) \/ Fault(u)
    BY <2>1 DEF Next, vars, theHandler
  <2>3. FindPool(u) /\ u = v
    BY <2>1, <2>2
       DEF TypeOK, ClientStep, ServerStep, Handle, Fault, Enter, Connected, Notified,
           Answered, Raises, Leave, Initialize, Initialized, Accept, Refuse, FindPool,
           PoolMade, Acquire, Query, Return, Orphan, TimesOut, ToolFails, Lose, theHandler
  <2> QED BY <2>3 DEF FindPool, TypeOK
<1> QED
  BY <1>1, <1>2, <1>3, ToolServerTypeCorrect, PTL DEF Spec, NoneBegunAfterTheFirst
===============================================================================
