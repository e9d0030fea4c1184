------------------------------ MODULE ToolServer ------------------------------
(***************************************************************************)
(* The inventory server and its clients: MCP sessions over HTTP on one     *)
(* side, the process-wide Postgres pool on the other.                      *)
(*                                                                         *)
(* A use is one `async with MCPClient()` block of an agent: a handshake of *)
(* two POSTs, then its tool calls one after the other.  Behind a call is a *)
(* handler in the server that runs its queries one at a time, each on a    *)
(* connection borrowed for that query.  Clients time out and go; what they *)
(* have sent stays sent.  The server restarts and forgets its sessions.    *)
(*                                                                         *)
(* External, from how the code uses them: the MCP library keeps sessions   *)
(* in memory, refuses a call on one it does not know or that has not been  *)
(* initialised, and lets a handler run on when its client has gone;        *)
(* asyncpg's acquire waits without limit; Postgres may finish a statement  *)
(* whose client died.  The tool's lookups find what they look for: what is *)
(* done about a missing cost centre is in module Ledger.                   *)
(***************************************************************************)
EXTENDS Integers, FiniteSets

CONSTANTS
    Use,           \* uses of MCPClient
    Calls,         \* how many tools each of them calls
    Queries,       \* how many queries are behind each of these calls
    NoPool,        \* _pool is None
    PoolSize,      \* max_size
    MaxRestarts    \* bound: restarts of the server

ASSUME CallsAssumption == Calls \in [Use -> Nat \ {0}]
ASSUME QueriesAssumption == Queries \in [Use -> Nat]
ASSUME NoPoolAssumption == NoPool \notin Use
ASSUME PoolSizeAssumption == PoolSize \in Nat \ {0}

VARIABLES
    \* of the client
    client,     \* the POST it awaits, or how it ended
    http,       \* its httpx.AsyncClient
    session,    \* has it been given an Mcp-Session-Id
    made,       \* tool calls answered so far
    \* in between
    wire,       \* the POST or response on its way; "taken" in the server
    \* of the server process
    fresh,      \* sessions made by initialize
    ready,      \* sessions made ready by notifications/initialized
    handler,    \* what the handler of the use's call awaits
    left,       \* queries it has yet to run
    pool,       \* _pool, named after the use whose handler made it
    opened,     \* the pools this process has opened
    mine,       \* the pool each handler takes its connection from
    busy,       \* handlers that hold a connection
    \* the past
    ran,        \* statements run in Postgres
    hit,        \* did a timeout, a fault or a restart touch this use
    restarts

theClient == <<client, http, session, made>>
sessions == <<fresh, ready>>
pools == <<pool, opened, mine, busy>>
theHandler == <<handler, left>>
past == <<ran, hit, restarts>>
vars == <<theClient, wire, sessions, theHandler, pools, past>>

Awaiting == {"connect", "notify", "call"}
Requests == {"initialize", "initialized", "tools/call"}

TypeOK ==
    /\ client \in [Use -> Awaiting \cup {"new", "answered", "raised"}]
    /\ http \in [Use -> {"none", "open", "closed"}]
    /\ session \in [Use -> BOOLEAN]
    /\ made \in [Use -> Nat]
    /\ \A u \in Use : made[u] <= Calls[u]
    /\ wire \in [Use -> Requests \cup {"none", "taken", "ok", "error"}]
    /\ fresh \subseteq Use /\ ready \subseteq Use
    /\ handler \in [Use -> {"none", "pool", "creating", "acquire", "query", "orphan"}]
    /\ left \in [Use -> Nat]
    /\ \A u \in Use : left[u] <= Queries[u]
    /\ pool \in Use \cup {NoPool}
    /\ opened \subseteq Use
    /\ mine \in [Use -> Use \cup {NoPool}]
    /\ busy \subseteq Use
    /\ ran \in [Use -> Nat]
    /\ hit \in [Use -> BOOLEAN]
    /\ restarts \in Nat

Init ==
    /\ client = [u \in Use |-> "new"]
    /\ http = [u \in Use |-> "none"]
    /\ session = [u \in Use |-> FALSE]
    /\ made = [u \in Use |-> 0]
    /\ wire = [u \in Use |-> "none"]
    /\ fresh = {} /\ ready = {}
    /\ handler = [u \in Use |-> "none"]
    /\ left = [u \in Use |-> 0]
    /\ pool = NoPool
    /\ opened = {}
    /\ mine = [u \in Use |-> NoPool]
    /\ busy = {}
    /\ ran = [u \in Use |-> 0]
    /\ hit = [u \in Use |-> FALSE]
    /\ restarts = 0

-------------------------------------------------------------------------------
(* The client. *)

(* MCPClient() and __aenter__: the HTTP client is made, initialize goes out. *)
Enter(u) ==
    /\ client[u] = "new"
    /\ client' = [client EXCEPT ![u] = "connect"]
    /\ http' = [http EXCEPT ![u] = "open"]
    /\ wire' = [wire EXCEPT ![u] = "initialize"]
    /\ UNCHANGED <<session, made, sessions, theHandler, pools, past>>

(* Mutant of Connected: the second half of the handshake is left out. *)
Connected_NoNotification(u) ==
    /\ client[u] = "connect" /\ wire[u] = "ok"
    /\ session' = [session EXCEPT ![u] = TRUE]
    /\ client' = [client EXCEPT ![u] = "call"]
    /\ wire' = [wire EXCEPT ![u] = "tools/call"]
    /\ UNCHANGED <<http, made, sessions, theHandler, pools, past>>

(* connect: initialize is answered, the notification goes out. *)
Connected(u) ==
    /\ client[u] = "connect" /\ wire[u] = "ok"
    /\ session' = [session EXCEPT ![u] = TRUE]
    /\ client' = [client EXCEPT ![u] = "notify"]
    /\ wire' = [wire EXCEPT ![u] = "initialized"]
    /\ UNCHANGED <<http, made, sessions, theHandler, pools, past>>

(* The notification's response is not looked at; the first tool is called. *)
Notified(u) ==
    /\ client[u] = "notify" /\ wire[u] = "ok"
    /\ client' = [client EXCEPT ![u] = "call"]
    /\ wire' = [wire EXCEPT ![u] = "tools/call"]
    /\ UNCHANGED <<http, session, made, sessions, theHandler, pools, past>>

(* call: a result arrives.  After the last one the block is left, and      *)
(* __aexit__ closes the HTTP client; the server is not told.               *)
Answered(u) ==
    /\ client[u] = "call" /\ wire[u] = "ok"
    /\ made' = [made EXCEPT ![u] = @ + 1]
    /\ IF made[u] + 1 < Calls[u]
         THEN /\ wire' = [wire EXCEPT ![u] = "tools/call"]
              /\ UNCHANGED <<client, http>>
         ELSE /\ wire' = [wire EXCEPT ![u] = "none"]
              /\ client' = [client EXCEPT ![u] = "answered"]
              /\ http' = [http EXCEPT ![u] = "closed"]
    /\ UNCHANGED <<session, sessions, theHandler, pools, past>>

(* Mutant of Fate: the block closes nothing when it is left by an error. *)
Fate_Kept(u) == "open"

(* An error inside the block closes the HTTP client.  One inside           *)
(* __aenter__ does not: __aexit__ is not called then.                      *)
Fate(u) == IF client[u] = "call" THEN "closed" ELSE "open"

Leave(u) ==
    /\ client' = [client EXCEPT ![u] = "raised"]
    /\ http' = [http EXCEPT ![u] = Fate(u)]
    /\ UNCHANGED <<session, made, sessions, theHandler, pools>>

(* An HTTP or transport error, a JSON-RPC error, or a result marked isError. *)
Raises(u) ==
    /\ client[u] \in Awaiting /\ wire[u] = "error"
    /\ wire' = [wire EXCEPT ![u] = "none"]
    /\ Leave(u)
    /\ UNCHANGED past

(* Mutant of TimesOut: the POST is tried once more. *)
TimesOut_Retries(u) ==
    /\ client[u] = "call" /\ ~hit[u]
    /\ wire[u] = "taken"
    /\ wire' = [wire EXCEPT ![u] = "tools/call"]
    /\ hit' = [hit EXCEPT ![u] = TRUE]
    /\ UNCHANGED <<theClient, sessions, theHandler, pools, ran, restarts>>

(* Thirty seconds are over: what was sent stays on its way. *)
TimesOut(u) ==
    /\ client[u] \in Awaiting
    /\ hit' = [hit EXCEPT ![u] = TRUE]
    /\ Leave(u)
    /\ UNCHANGED <<wire, ran, restarts>>

-------------------------------------------------------------------------------
(* The server. *)

Respond(u, what) == wire' = [wire EXCEPT ![u] = what]

Initialize(u) ==
    /\ wire[u] = "initialize"
    /\ fresh' = fresh \cup {u}
    /\ Respond(u, "ok")
    /\ UNCHANGED <<theClient, ready, theHandler, pools, past>>

(* An unknown session gets a 404, which the client takes as well. *)
Initialized(u) ==
    /\ wire[u] = "initialized"
    /\ ready' = IF u \in fresh THEN ready \cup {u} ELSE ready
    /\ Respond(u, "ok")
    /\ UNCHANGED <<theClient, fresh, theHandler, pools, past>>

(* A call on a session this process has made ready starts a handler. *)
Accept(u) ==
    /\ wire[u] = "tools/call" /\ u \in ready
    /\ handler' = [handler EXCEPT ![u] = "pool"]
    /\ left' = [left EXCEPT ![u] = Queries[u]]
    /\ Respond(u, "taken")
    /\ UNCHANGED <<theClient, sessions, pools, past>>

Refuse(u) ==
    /\ wire[u] = "tools/call" /\ u \notin ready
    /\ Respond(u, "error")
    /\ UNCHANGED <<theClient, sessions, theHandler, pools, past>>

(* Does the handler have a query left? *)
MoreToRun(u) == left[u] > 0

(* db.pool, up to its await: _pool is read, and one is begun if there is none. *)
FindPool(u) ==
    /\ handler[u] = "pool" /\ MoreToRun(u)
    /\ handler' = [handler EXCEPT ![u] = IF pool = NoPool THEN "creating" ELSE "acquire"]
    /\ mine' = [mine EXCEPT ![u] = pool]
    /\ UNCHANGED <<theClient, wire, sessions, left, pool, opened, busy, past>>

(* Mutant of PoolMade: without the `global`, _pool stays None. *)
PoolMade_Local(u) ==
    /\ handler[u] = "creating"
    /\ opened' = opened \cup {u}
    /\ mine' = [mine EXCEPT ![u] = u]
    /\ handler' = [handler EXCEPT ![u] = "acquire"]
    /\ UNCHANGED <<theClient, wire, sessions, left, pool, busy, past>>

(* db.pool, after its await: assigned whether or not there is one by now. *)
PoolMade(u) ==
    /\ handler[u] = "creating"
    /\ pool' = u
    /\ opened' = opened \cup {u}
    /\ mine' = [mine EXCEPT ![u] = u]
    /\ handler' = [handler EXCEPT ![u] = "acquire"]
    /\ UNCHANGED <<theClient, wire, sessions, left, busy, past>>

Free(p) == Cardinality({v \in busy : mine[v] = p}) < PoolSize

(* connection: wait for a connection of the pool that was found. *)
Acquire(u) ==
    /\ handler[u] = "acquire"
    /\ Free(mine[u])
    /\ busy' = busy \cup {u}
    /\ handler' = [handler EXCEPT ![u] = "query"]
    /\ UNCHANGED <<theClient, wire, sessions, left, pool, opened, mine, past>>

(* Mutant of Query: one connection for the whole handler, but each query   *)
(* still asks for one.                                                     *)
Query_KeepsConnection(u) ==
    /\ handler[u] = "query"
    /\ ran' = [ran EXCEPT ![u] = @ + 1]
    /\ left' = [left EXCEPT ![u] = @ - 1]
    /\ busy' = IF left[u] = 1 THEN busy \ {u} ELSE busy
    /\ handler' = [handler EXCEPT ![u] = "pool"]
    /\ UNCHANGED <<theClient, wire, sessions, pool, opened, mine, hit, restarts>>

(* fetch, fetch_one, execute: the statement runs, the connection goes back. *)
Query(u) ==
    /\ handler[u] = "query"
    /\ ran' = [ran EXCEPT ![u] = @ + 1]
    /\ left' = [left EXCEPT ![u] = @ - 1]
    /\ busy' = busy \ {u}
    /\ handler' = [handler EXCEPT ![u] = "pool"]
    /\ UNCHANGED <<theClient, wire, sessions, pool, opened, mine, hit, restarts>>

(* The tool returns; nobody may be waiting any more. *)
Return(u) ==
    /\ handler[u] = "pool" /\ ~MoreToRun(u)
    /\ handler' = [handler EXCEPT ![u] = "none"]
    /\ Respond(u, "ok")
    /\ UNCHANGED <<theClient, sessions, left, pools, past>>

(* The tool raises and its result is marked isError: by itself, between    *)
(* its queries; because the pool or one more connection of it cannot be    *)
(* opened; or because the statement fails, perhaps after taking effect.    *)
ToolFails(u) ==
    /\ handler[u] \in {"pool", "creating", "acquire", "query"}
    /\ handler[u] = "acquire" => Free(mine[u])
    /\ \/ UNCHANGED ran
       \/ handler[u] = "query" /\ ran' = [ran EXCEPT ![u] = @ + 1]
    /\ handler' = [handler EXCEPT ![u] = "none"]
    /\ busy' = busy \ {u}
    /\ Respond(u, "error")
    /\ hit' = [hit EXCEPT ![u] = TRUE]
    /\ UNCHANGED <<theClient, sessions, left, pool, opened, mine, restarts>>

-------------------------------------------------------------------------------
(* What goes wrong around them. *)

(* A POST does not arrive: the connection is refused or lost. *)
Lose(u) ==
    /\ wire[u] \in Requests
    /\ Respond(u, "error")
    /\ hit' = [hit EXCEPT ![u] = TRUE]
    /\ UNCHANGED <<theClient, sessions, theHandler, pools, ran, restarts>>

(* The server restarts: sessions, handlers and pools are gone, connections *)
(* are cut, and a statement that was running is left to Postgres.          *)
Restart ==
    /\ restarts < MaxRestarts
    /\ restarts' = restarts + 1
    /\ fresh' = {} /\ ready' = {}
    /\ handler' = [u \in Use |-> IF handler[u] \in {"query", "orphan"} THEN "orphan" ELSE "none"]
    /\ wire' = [u \in Use |-> IF wire[u] = "taken" THEN "error" ELSE wire[u]]
    /\ hit' = [u \in Use |-> hit[u] \/ client[u] \in Awaiting]
    /\ pool' = NoPool /\ opened' = {} /\ busy' = {}
    /\ UNCHANGED <<theClient, left, mine, ran>>

Orphan(u) ==
    /\ handler[u] = "orphan"
    /\ \/ UNCHANGED ran
       \/ ran' = [ran EXCEPT ![u] = @ + 1]
    /\ handler' = [handler EXCEPT ![u] = "none"]
    /\ UNCHANGED <<theClient, wire, sessions, left, pools, hit, restarts>>

-------------------------------------------------------------------------------
ClientStep(u) == Enter(u) \/ Connected(u) \/ Notified(u) \/ Answered(u) \/ Raises(u)

(* What the server does for a use whatever else happens. *)
Handle(u) == FindPool(u) \/ PoolMade(u) \/ Acquire(u) \/ Query(u) \/ Return(u) \/ Orphan(u)

ServerStep(u) == Initialize(u) \/ Initialized(u) \/ Accept(u) \/ Refuse(u) \/ Handle(u)

Fault(u) == TimesOut(u) \/ ToolFails(u) \/ Lose(u)

Next ==
    \/ \E u \in Use : ClientStep(u) \/ ServerStep(u) \/ Fault(u)
    \/ Restart

Spec == Init /\ [][Next]_vars

(* An await in the server ends once it can; of clients nothing is assumed. *)
FairSpec == Spec /\ \A u \in Use : WF_vars(Handle(u))
-------------------------------------------------------------------------------
(* How a use ended, as its caller sees it. *)
outcome == [u \in Use |-> IF client[u] \in {"answered", "raised"} THEN client[u] ELSE "open"]

Promised == INSTANCE ToolCall WITH Statements <- [u \in Use |-> Calls[u] * Queries[u]]

(* A use of the server is a tool call as module ToolCall promises it: an   *)
(* answer means every statement ran exactly once and is over, through      *)
(* timeouts, lost POSTs, half-failed handlers and restarts.                *)
IsAToolCall == Promised!Spec

(* The only HTTP clients left open are those whose handshake failed: once  *)
(* a tool has been called, the block closes it however it is left.         *)
LeakIsAHandshake ==
    \A u \in Use :
        http[u] = "open" /\ client[u] \in {"answered", "raised"} =>
            wire[u] # "tools/call" /\ handler[u] = "none" /\ ran[u] = 0

(* An agent that sees an error can blame the weather: without a timeout, a *)
(* lost POST, a failed statement or a restart under it, a use that began   *)
(* with a handshake is answered, whoever else shares server and pool.      *)
ErrorsHaveACause == \A u \in Use : client[u] = "raised" => hit[u]

(* "The process-wide connection pool, creating it on first use": several   *)
(* first users may each open one, but none is begun when one was opened.   *)
NoneBegunAfterTheFirst ==
    [][\A u \in Use :
          handler'[u] = "creating" /\ handler[u] # "creating" => opened = {}]_vars

(* Nobody waits for ever: every handler comes to an end, though acquire    *)
(* has no timeout and a tool may run two queries on a full pool.           *)
HandlersFinish == \A u \in Use : handler[u] # "none" ~> handler[u] = "none"
===============================================================================
