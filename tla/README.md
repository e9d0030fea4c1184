# AtlasTrip in TLA+

AtlasTrip is a network of agents that plan a business trip. A traveller writes
one sentence to the Concierge; the Concierge asks Skyline for flights and Hearth
for a hotel, has Sentinel rule on the result, goes back to Hearth once when the
room breaks the lodging cap, asks Ledger for the money, waits for a manager when
one has to sign, and returns an itinerary. The agents are separate processes
that talk A2A; inventory and budgets are behind an MCP server on Postgres.

This directory specifies the parts in which several steps of several actors have
to fit together: who may move money, when a human has to have said yes, what a
confirmed itinerary may contain, and what survives timeouts, cancels and
restarts; the judgements in between, where a boundary decides (a rate at
the cap, a total at the threshold, a list cut before the choice); and what all of
it stands on: one A2A call, one tool call, one append to the audit trail. TLC
checks the modules on small instances; TLAPS proves the results about the money,
the rules, the rankings, the negotiation, the intake, the calls and the trail for every value of the
constants.

Contents: [inventory](#inventory) · [modules](#modules-and-the-code) ·
[assumptions](#what-is-assumed-of-the-outside) · [runs](#runs) ·
[bounds](#bounds) · [fairness](#fairness) · [proofs](#proofs) ·
[findings](#findings) · [not modelled](#what-is-not-modelled) · [plan](#plan)

## Inventory

| Component | State it keeps | Operations | Status |
|---|---|---|---|
| **Ledger** `agents/ledger_pydanticai` | A2A tasks (Postgres); a run per message | accept or resume, read position, decide, commit, publish, cancel | modelled, proved |
| **MCP server** `mcp_servers/travel_inventory` | sessions, handlers; `cost_centers`, `budget_ledger`; inventory tables | any tool as sessions, queries and connections; `get_cost_center_budget`, `record_commitment`, `search_hotels`, `search_flights`; other lookups | partly: any tool as it is served, and the tools named; proved |
| **MCP client** `atlastrip_core/mcp_http.py` | a session id, an HTTP client | handshake, `call`, `aclose` | modelled, proved |
| **Concierge** `agents/concierge_langgraph` | A2A tasks (Postgres); a LangGraph thread per task (memory) | eight nodes, six routers, pause, resume, cancel | modelled, proved |
| **Network** (A2A calls) `network.py`, `a2a_client.py`, `a2a_support.py` | none beyond the call | `ask`: one message, one stream of events; `accept_task` | partly: `authorise_spend` between the two agents, one call event by event; not cards and routes; proved |
| **Sentinel** `agents/sentinel_llamaindex` | none; reads clauses and visa rules | `evaluate`, eight clause handlers, entry rules | modelled, proved |
| **Hearth** `agents/hearth_crewai` | none | shortlist, rank, choose | modelled, proved |
| **Skyline** `agents/skyline_adk` | none | search, cabin, rank, choose | modelled, proved |
| **Audit trail** `atlastrip_core/audit.py`, `documents.py` | one TinyDB file per agent, rewritten whole | `record`, `trail` | partly: the writers, and the trail once they are at rest; proved |
| **Pool and task store** `atlastrip_core/db.py` | a connection pool per process; tasks | create on first use, borrow; tasks | partly: not `close_pool`; proved |
| **Intake and sourcing** `intake.py`, `node_source` | the request it read | read with the model or by hand, lookups, two searches | modelled, proved |
| **Narrative, models, CLI, seed data** | none that a later step depends on | print, seed | not modelled |

How they interact. The Concierge is a client of the other four agents and of the
MCP server; Hearth, Skyline and Ledger are clients of the MCP server; Sentinel
reads documents. There are no callbacks: every interaction is a request and a
stream of replies that the caller awaits under a timeout. Shared state is in two
places, the `budget_ledger` table (all Ledger runs) and the A2A task store (an
agent and everyone who sends to its tasks). A human appears twice: as the
traveller who opens a task and as the approver who answers a paused one.

What is hard here, and what makes each component correct:

* **Ledger** reads the budget, decides and inserts in three awaits, and the INSERT
  checks nothing. It must not spend what is not there, must not move money
  without a manager's sanction when one is required, must not let an approval
  carry over to another total, and its verdict must agree with the books even
  when the answer of the INSERT is lost, the task is cancelled or the process
  restarts meanwhile.
* **Concierge** suspends a graph for days between two messages and keeps it in
  memory only. What it confirms must be what Sentinel ruled on and Ledger paid
  for; a trip that needs a manager must have met one; the renegotiation must not
  go round for ever; every open run must come to rest; the journal must be told
  once across pause and resume.
* **Network**: the caller of a call that timed out does not know what the callee
  did. A trip must not be charged twice, a refusal must leave the books alone,
  and each side may take of the other only what the other really guarantees.
* **Sentinel, Hearth, Skyline**: pure judgements whose boundary cases matter (a
  rate equal to the cap, a cap read out of prose, a shortlist cut before the
  choice).
* **Intake and sourcing**: a request read by a model reaches two agents that search by it
  independently; dates, zones, cities and sites have to agree in what comes back.
* **Audit trail**: every process rewrites its file whole, with row ids it remembers.
  No record that was made may get lost or be refused because of another process, no
  record may be made before that of its cause is on file, and a call that is over must be
  in the trail whole.
* **MCP client, server and pool**: an answer must mean that the statements behind it ran
  exactly once, whatever was lost or timed out on the way; nobody may wait for
  ever for a connection; HTTP clients are closed however a block is left; the
  pool is made once, but is made across an await.

`PROJECT.json` lists the hazards one by one, each at its line with the property
that covers it, or why none does.

## Modules and the code

```
CostCentre            an account that is never overdrawn (abstract)
   ^ implemented by, when use is serial
Ledger  <---------- LedgerProofs
   ^
TravelNetwork ------> Concierge <------ Negotiation  <--- NegotiationProofs
   ^                      ^              |   |   |
TravelNetworkProofs ---> ConciergeProofs |   |   Skyline  <-- SearchProofs
   (and LedgerProofs)                    |   Hearth       <-- SearchProofs
                                     Sentinel
                                     Inventory (under Hearth and Skyline)

NegotiationProofs --> ConciergeProofs, SearchProofs; holds Sentinel's theorems too

ToolCall              a call is answered once or not at all (abstract)
   ^ implemented by
ToolServer <--------- ToolServerProofs

Trail <-- Exchange <- ExchangeProofs

Intake ---> Skyline, Hearth (one instance of each per request)
   ^
IntakeProofs
```

**`Ledger`**: `service.py` and `executor.py` of the Ledger agent and the two
budget tools. A run of `LedgerExecutor.execute` is a program counter `step[t]`
with one action for each stretch of code between two awaits:

| Code | Action | `step` before and after |
|---|---|---|
| `execute`, new or current task, `start_work`, payload valid | `Receive` | idle → position |
| `execute`, payload invalid: reject | `ReceiveUnusable` | idle → idle |
| `execute`, `audit.record` raises before `start_work` | `ReceiveUnrecorded` | idle → idle, the task stays open |
| `assess`: `get_cost_center_budget` | `budget_position` | position → decide |
| `assess`: rejected / needs approval | `AssessRejected`, `AssessNeedsApproval` | decide → publish |
| `assess`, `_commit`: call sent | `SendCommit` | decide → committing |
| answer of `record_commitment` | `AssessApproved` | committing → publish |
| any exception in `assess`, the timeout included | `AssessFails` | position, committing → idle |
| `add_artifact` | `Publish` | publish → conclude |
| `requires_input`, `complete` | `Conclude` | conclude → idle |
| `cancel`; restart | `Cancel`; `Crash` | any → idle |

`record_commitment` and `LoseCall` belong to the MCP server: a call that was sent
(`calls`) becomes a row or disappears, independently of whether the run that
sent it is still there. `spent[cc]` is the running `SUM(amount_usd)` of the rows.
`published` says whether the last message has been answered with an artifact, which
is all a caller looks at.
`issued` and `received` only remember the past: the codes Ledger has handed out,
with a pause or as the `authorization_code` of an approval (the two are the same hash),
and the requests it was sent. The authorisation code is a hash of trip, centre
and total, cut to ten hexadecimal digits; it is modelled as the record of the
three, that is, as free of collisions. The language model that words the
explanation has no effect on the decision, and is the await inside `publish`.

**`CostCentre`**: the abstract account, one action: draw an amount that the
balance covers. `Ledger` implements it with `balance = Budget - spent`
(`IsACostCentre`) in the behaviours described by `Serial`.

**`Concierge`**: `graph.py`, `state.py` and `executor.py` of the Concierge. `node[t]`
is the next node of the trip's LangGraph thread and `trip[t]` its state; each
`node_*` action is the node with the router that follows it (`Leave` merges the
update, appends and streams the journal and moves on), and the failing exit of a
node is an action beside it (`SourceFails`, `ScreenFails`, `RenegotiateFails`,
`LedgerSilent`; `Raise` for every exception inside the `try` of `execute`, which the record
of a pause can raise too: then the paused task is failed at once). `Start` opens a trip;
`StartUnrecorded` is its other end, the record of `executor.py:94` that raises outside the `try` and
leaves the task working with no run. `Pause` is the `interrupt` and the
input-required status, `Resume` the message that answers it with
`node_await_approval` run to its end. The code resumes on any message on an existing task; since
the SDK runs the messages of a task one after another, one sent while the trip is still planned
is `Resume` at the pause that follows, and it is not told from an answer. `trip[t] = None` says that there is no
thread: `Restart` makes it so while `task` stays, as `MemorySaver` and the
Postgres task store do, and `StartUnrecorded` never makes one; a message then fails the
task (`ResumeLost`). Stays carry what the other agents decide about them: a
total and whether they break the cap. `Rulings` and `LedgerReplies` say what
replies Sentinel and Ledger can give; Hearth can give any, at the renegotiation
too, so what the Concierge guarantees does not rest on Hearth's obedience.

**`TravelNetwork`**: the two agents with `authorise_spend` and `ask` between them. `Ask`
is a call: the Concierge starts to wait and Ledger's run starts, or dies over its record. `Answer` and
`Silence` are the two ends of the stream: with data or without, and the state of Ledger's task is
not looked at, as `graph.py:227` does not. So a verdict that was published is acted on even when the task
was cancelled or Ledger restarted before it could conclude. Neither side notices when the other
has gone: Ledger goes on after the Concierge's timeout (`Raise`), and the
Concierge waits until its stream ends or times out after a crash of Ledger. Either task can be cancelled at any
time (`Disturb`). A trip's Ledger
task is opened by `node_authorise` and continued by `node_confirm` only, so it
is identified with the trip. The two assume-guarantee properties close the
circle: `LedgerKeepsItsPromise` says the composition implements the Concierge
with its open `LedgerReplies`, and `ConciergeIsALedgerCaller` says it implements
Ledger with its open callers, whose only obligation is to present no token that
Ledger did not hand out. By the second, what is proved of `Ledger` holds in the
network.

**`Sentinel`**: `rules.py`, one operator per clause handler, named as in the code, and
`evaluate` over them and the entry rules. Of a finding's text only the stated cap is
kept, because `_breached_lodging_cap` reads it back. Money is in whole cents, so
printing with two decimals and reading back loses nothing.

**`Hearth`**: the hotel search of the MCP server, then `service.py`: filters, score,
shortlist and choice. The market gives each hotel's price for the whole stay;
`NightlyRate` is the SQL average rounded half up, and `Affordable` compares the unrounded
average as the `HAVING` clause does. Three cuts with three orders follow each other
(`FirstRows` of module `Inventory`): a cut may keep any of the rows its order does not tell apart, since
neither the SQL nor the floating-point scores fix their order. `Proposable` is any room
of a shortlist (the crew may choose any), `TopPicks` the ones taken when it
chooses none.

**`Skyline`**: the flight search, then `service.py`: the cabin is chosen from what the search
returned (`ChosenCabin`: the first row says whether the trip is long haul, the cheapest
fares of two cabins whether the upgrade is `WorthIt`), the rest is dropped, what is
left is ranked and cut. The factor 1.8 is kept as 9/5, so that no rounding is
involved. `TopFares` are the flights proposed when the model chooses none,
`Bookable` those it can choose.

**`Negotiation`**: the Concierge with those three in place of the open peers. `Source` and
`Renegotiate` are `node_source` and `node_renegotiate` with the searches in them,
`Screen` is `node_screen` with Sentinel's ruling of that day. Between any two
steps `MarketMoves` lets a hotel or a flight sell out or change its price and `Midnight` lets a
day pass. `SentinelKeepsItsPromise` says that the composition implements `Concierge` with the
open `Rulings`, whose `OverCap` and `Usd` are defined here from rates and caps. `AtVenue` says
whether the request names a venue: both configurations set it, the theorems hold either way.

**`Intake`**: one sentence on its way to a sourced trip: `parse` (`ParseWithModel`, `ParseByHand`), `lookup_traveller`,
`cheapest_ground`, and the gather of `node_source` as three searches in any order that respects
Skyline's (`FindOutbound` before `FindInbound`; `FindStay`). `Negotiation` starts from one sound request; here the
request is whatever was read, and the `Skyline` and `Hearth` that answer it are instances of those modules whose
flight directions, distances and nights are computed from the request as the two queries do: local
dates (`DepartureDay`), `BETWEEN first_night AND last_night` (`NightsPriced`), a city that is its own
name when the airport is not on file (`DestinationCity`). A search that finds nothing leaves the run nothing but `Fails`.

**`ToolServer`**: `mcp_http.py`, `db.py` and the way `server.py` serves a tool. A use is one
`async with MCPClient()` block. `client[u]` is the POST it awaits, `wire[u]` the POST or
the response on its way:

| Code | Action |
|---|---|
| `MCPClient()`, `__aenter__`, first POST of `connect` | `Enter` |
| `connect` after the answer; after the notification | `Connected`; `Notified` |
| `call` returns; the last one leaves the block | `Answered` |
| `MCPError`, `httpx` error; timeout | `Raises`; `TimesOut`, both with `Fate` for the HTTP client |
| `db.pool` to its await; after it | `FindPool`; `PoolMade` |
| `connection`; `fetch`, `fetch_one`, `execute` | `Acquire`; `Query` |
| the handler returns; the tool, the pool, a further connection or a statement raises | `Return`; `ToolFails` |

`wire` does not change when the client gives up: what was sent stays sent, and its handler goes
on. `Restart` forgets sessions, handlers and pools; a statement that was running is
left to Postgres (`Orphan`). `pool` and `opened` are named after the use whose
handler made them, so a pool that is opened twice shows.

**`ToolCall`**: what a caller may take from that, in three actions. An answer means that all
statements ran and no more will; an error means nothing at all. That is how `Ledger`
models `record_commitment`: the call becomes a row at some time or never, and the
verdict is given only after the row.

**`Trail`**: `audit.record` as `Begin` (the entry gets its id, the file is read) and `Write`
(the file is written back). Between the two other processes move, this one does not:
`record` has no await, and its lock is one of threads. `Collide` is TinyDB's refusal of an
id that is in the file already. `trail` is what `audit.trail` merges, but the code reads the files
one after another: a read during a call can have passed the file of a cause before it was written, and
find the effect in the next. So `trail` stands for a read at rest, or for the part of a read that is
about calls that are over, and the properties speak of what is `kept` and in which order.

**`Exchange`**: `ask` in the caller, `execute` of Skyline, Hearth or Sentinel in the agent, the
stream between them and the records both make. Each `record` is a stop of its own
(`asking`, `answering`, `receiving`, `closing`), left by `Written` or `NotWritten`. The events go
into `stream[c]` in order and `Folded` is `_absorb` (without its branch for a bare
`Message`, which no agent sends). `Cancel` closes any open task, as `cancel` in the executors does: that of a run
under way, which is stopped, and that of a run that died over a record or a restart, whether its caller still
listens or not. The three executors share their
course and differ in one point that is modelled, `Silent`: Sentinel makes no record when
it fails.

## What is assumed of the outside

Not in the repository's source, and modelled from how it is used:

* The A2A SDK persists tasks, runs the messages of one task one at a time,
  refuses a message to a task in a terminal state, and stops a run whose task is
  cancelled.
* LangGraph merges a node's update before the router sees it, keeps threads in
  the process when the checkpointer is `MemorySaver`, and raises when it is asked
  to resume a thread it does not have.
* Postgres runs one INSERT or one SELECT at a time. Nothing more is assumed:
  there is no transaction around a read and a later write, as there is none in
  the code.
* The HTTP timeouts end every await on a call.
* The MCP library keeps its sessions in memory, refuses a tool call on one it does not know
  or that has not been initialised, and does not stop a handler whose client has gone.
  `asyncpg` lets `acquire` wait without limit. The lookups of a tool find what they
  look for.
* A2A events arrive in the order they were sent; a stream ends after a terminal state or
  with the run; a run whose caller has gone goes on. Closing the SDK's client does not raise
  (`a2a_client.py:125`; the HTTP client after it would stay open if it did).
* TinyDB, as `audit.py` describes it: it looks at the file for the next id once and
  counts in memory from then on, refuses an id that is taken, reads the whole file for an
  insert and writes it whole. One write is taken to be atomic: a torn file is not
  modelled.
* Postgres compares `NUMERIC` averages exactly and rounds them half up. Distances
  to the venue are given per hotel, in tenths of a kilometre.

## Runs

| Run | Question | Distinct states |
|---|---|---|
| `ledger` | Is every row sanctioned, does every verdict agree with the books, can every paused task be settled, is every run answered — with lost calls, late INSERTs, failed records, cancels and a restart? | 753,785 |
| `ledger_serial` | Does Ledger implement `CostCentre` while a centre's money is in one pair of hands? | 555,397 |
| `ledger_overdraft` | And without that condition? *Violated*, see findings. | |
| `concierge` | For any replies of the peers: is the confirmed trip the one ruled on and funded, approved where it must be, renegotiated once, told once, and does each run come to rest? | 198,292 |
| `concierge_answer` | Is only a yes taken for a yes? *Violated*, see findings. | |
| `network` | One trip through both agents, each of which may restart, each task of which may be cancelled and every call of which may time out: is it booked when confirmed, charged at most once, untouched without a yes; does each agent deliver what the other assumes? | 5,725 |
| `negotiation` | One trip through the real rules and the real search, while prices and the date move: does a re-ask repair the cap and only help, is what reaches the threshold signed, are Hearth's and Skyline's own choices undominated, do the rules deliver `Rulings`? | 34,368 |
| `relaxed_cap` | Does the ranking stay as near without the cap as with it? *Violated*, see findings. | |
| `intake` | Three sentences and a model that misreads each field in turn or raises, while rooms and flights sell out: is what gets sourced one trip, near the site it names? | 5,900 |
| `tools` | Two clients of the inventory server, timeouts anywhere, lost POSTs, failing statements, two restarts, a pool of one: does an answer mean every statement once, does every handler end, has every error a cause? | 60,063 |
| `exchange` | Two calls at once with broken streams, cancels, records that cannot be written and one restart: is the reply what became of the task, do the records tell the call, do both come to rest? | 426,562 |
| `trail_shared` | Two command lines at once: does one file per writer hold for them? *Violated*, see findings. | |

The invariants, in the words of the domain:

* `MoneyIsSanctioned`: whatever was resent, resumed, crashed or raced, every row
  and every INSERT under way is for exactly a trip, centre and total that needed
  no approval, or whose own code Ledger had handed out before and got back.
* `VerdictMatchesBooks`: approved means a row of that very run; rejected or paused
  means none, now or later; no two rows from one run.
* `SettledAsSaid`: whoever is waited for was told the code that settles the task.
  `EveryMessageAnswered`, `TripsComeToRest`: every run ends its task's work, unless a restart
  takes that very run away (restarts before it excuse nothing).
* `ConfirmedAsRuledAndFunded`, `ConfirmedAfterApproval`, `OverCapIsNegotiated`: the stay that
  ships was screened, not its predecessor; its total was approved; a ruling
  that needs a manager was answered; an over-cap stay was renegotiated first.
* `RestIsDecidedOrAnswerable`: while its thread lives, a completed trip is confirmed or
  rejected, and a paused one waits at the approval with a code of Ledger's to answer with.
  `JournalToldOnce`, `RenegotiatedOnce`.
* `ConfirmedIsBooked`, `ChargedAtMostOnce`, `UntouchedWithoutYes`, `YesBeforeMoney`: the same
  across the two agents.
* `RenegotiationRepairs`: the cap Sentinel prints, the Concierge reads back and the
  search filters on is the one Sentinel judges the second room by. `RenegotiationOnlyHelps`: the
  second ruling objects to nothing new except what the calendar added, and the
  trip is cheaper, whatever the market did between the searches.
* `ThresholdIsSigned`: no trip at or above the threshold is confirmed without an
  answer from its approver. `NoBetterRoomLeftOut`: the three cuts do not lose a room that is
  nearer or cheaper and otherwise at least as good as the one proposed. `CheapestInItsCabin`
  and `UpgradeIsDefensible` say the same of Skyline's cuts, measured against the whole
  timetable: no cheaper flight of the cabin, and no upgrade above 1.8 times any
  economy fare on sale.
* `OneTrip`: nobody validates a request, and Skyline and Hearth never see each other's answer; yet
  what is sourced goes there and back, sleeps where it lands, and pays for as many nights as lie
  between the dates on the two departure boards. A same-day or backward trip dies of an empty
  `BETWEEN` alone. `SleepsNearTheVenue`: whoever names a site on file sleeps within the limit of it, even
  if the model sent the flights to another city (then nothing is sourced).
* `IsAToolCall`: `ToolServer` implements `ToolCall`. `ErrorsHaveACause`: a use fails only under a
  timeout, a fault or a restart of its own time, never because of who else uses
  server and pool. `HandlersFinish`: nobody waits for ever. `LeakIsAHandshake`,
  `NoneBegunAfterTheFirst`: the two leaks the code has stay where they are, with a failed
  handshake and with the first users of the pool.
* `ReplyIsTheTask`: state and data of a reply are those of the task, and a terminal state is never wrong. They
  differ in one case: the run died, the caller was left with an open task, and somebody cancelled it
  afterwards. `RecordsTellTheCall`: no record is begun before that of its cause is on file,
  so that once a call is over the trail has it without gaps, and what ended well is in it whole.
  `NoContention`: no record is refused or lost to another process. `LeakIsUnsent`: only a call
  that was never sent leaves its HTTP client open. `CallsComeToRest`: every accepted task is
  closed and every call comes back, without counting on the timeout, unless a record
  could not be written or a restart took the agent away.

Every property of a passing run is paired in `PROJECT.json` with a mutant: a
definition of the model changed as a plausible bug would change the code, under
which TLC finds that property violated. The mutants are defined next to what
they mutate and used by nothing else.

A confirmed trip's approval is recorded as "not a refusal" (`approve` or `unclear`),
because that is what the code enforces; that the second is let through is the
finding of `concierge_answer`.

## Bounds

* `MaxMessages` 3 (Ledger): with two tasks, one can be paused and resumed while the
  other runs in between, which is the longest exchange in which a third
  message adds something new; two messages are enough for the overdraft.
* `MaxCrashes`, `MaxRestarts` 1: a restart returns runs to idle and threads to
  nothing, so a second one finds the kind of state the first one left.
  0 where a run is about something else (`concierge_answer`).
* One cost centre with budget 4 and totals 2 and 3: each fits alone, 2+2 fits
  exactly, 3+2 does not. `network` adds a total of 5 that never fits.
* Two tasks of Ledger and two trips of the Concierge: every property relates a trip to itself, to one
  other, or to the shared account; the proofs below hold for any number. `network` joins both
  agents for one trip, with every failure; that trips on one account
  do not disturb each other's bookings is `NetworkBooksWhatItConfirms` and its companions in
  `TravelNetworkProofs`, for any number of trips.
* `negotiation` has five hotels of which one lacks an amenity, a search of four rows
  and a shortlist of two (20 and 6 in the code), so that each cut really cuts;
  rates below, at, half a cent above and well above a cap of 140; totals
  below, at and above the threshold of 600; a departure that one midnight brings
  inside the advance purchase window. `MaxMoves` and `MaxDays` 1: a trip makes two
  searches, and one change between them is the case. A cap of 0, for which the
  code falls back to its hint, is not in the instance: no clause has one.
  Two of the constants are scaled down together with the prices (`CapHint` 150 for 280).
* `relaxed_cap` uses the code's own limits, 20 and 6, and a market that stands still.
* `intake` has eight flights around four days, so that each wrong date has flights to fall for, two time
  zones on the far side of the home airport's, an evening flight whose UTC date is the next day, and in
  Tokyo a hotel near the site, one beyond the limit, one without a desk. `Misread` has one request per field
  that can be wrong. The by-hand trip is a day away for two nights (28 and 3 in the code). `MaxMoves` 1.
* `tools`: two uses are the least that compete for a pool, and a pool of one (8 in the code) makes
  every wait happen; one with two calls of one query, one with one call of two queries are the
  shapes the agents have. `MaxRestarts` 2, because a restart between the two POSTs of the
  handshake and one between two calls are different.
* `exchange`: two calls of one caller, so that two runs share the caller's process and file, to
  two agents of which one is `Silent`; `MaxRestarts` 1. `trail_shared`: two callers on one file, no
  restart. One working update instead of two.
* `negotiation` has five fare products (24 rows in the code, 3 here), of which the upgrade is at and
  just above 1.8 times the economy fare.
* In the composition Ledger's `MaxMessages` is twice the number of trips, which is not
  a restriction: the Concierge sends each trip's requests at most twice.

Deadlock is not checked: a network in which every trip has ended and nobody
sends anything really does stop.

## Fairness

Weak fairness is put on what a live run does next by itself: `Advance` of a
Ledger task, the node steps of a Concierge trip. It is justified by the awaits:
each ends with an answer, an error or a timeout, and each end is a disjunct of
the fair action. Nothing is assumed of people, of crashes, or of the MCP server
(an INSERT may stay under way for ever). `EveryMessageAnswered` and `TripsComeToRest`
therefore say that runs end, with the exception the code has: a run swept away
by a restart leaves its task working in Postgres, and nobody picks it up. They are about runs.
A message whose record cannot be written has none: the exception leaves `execute` outside its `try`, and the
task stays open (`ReceiveUnrecorded`) or working (`StartUnrecorded`) until the next message or a cancel.

`Intake` states no fairness: it asks only what a run may end in.

In `ToolServer` only `Handle` is fair, the awaits of a handler: the pool is opened or is not,
a statement ends, a waiter gets a connection that is free. Nothing is assumed of
clients or of POSTs. Weak fairness is enough for `Acquire` here since a connection
that was given back is not taken away again by a waiter that came later for ever: a use
makes a bounded number of calls. In `Exchange` what a caller or an agent does next and the
end of an append are fair; the timeout of the call is not, so `CallsComeToRest` does not
rest on it.

## Proofs

`LedgerProofs` proves, for every set of tasks, trips, centres and amounts, every
budget and every bound:

| Theorem | States |
|---|---|
| `LedgerTypeCorrect` | `Spec => []TypeOK` |
| `LedgerSettles` | `Spec => []SettledAsSaid` |
| `LedgerSanctioned` | `Spec => []MoneyIsSanctioned` |
| `LedgerVerdicts` | `Spec => []VerdictMatchesBooks` |
| `LedgerNoOverdraft` | `Spec /\ []Serial => []NoOverdraft` |
| `LedgerIsACostCentre` | `Spec /\ []Serial => IsACostCentre` |

The assumptions are those of `Ledger`: amounts and budgets are naturals, `NoToken` is
no code and `NoRequest` no request. TLC evaluates them in every Ledger run.

The argument. None of the properties is inductive alone.

* `SettledInv` adds `Control`: a live run is on a working task, it has a verdict
  exactly when it is about to publish or to conclude, and when it concludes the code is out.
* `SanctionInv` adds that a live run's request has been received and presents only
  a token that was issued. Sanctions are never withdrawn because both
  histories only grow (`SanctionStays`).
* `VerdictInv` adds `RunsApart`: no two tasks share a run number, no call or row is from a
  run that has not started, and a run that has not decided has sent nothing.
  That is why an INSERT that lands after a cancel cannot belong to a verdict
  given later on the same task.
* `SerialInv` adds `HolderKnows`: the position a run has read is still the position,
  and an INSERT under way is still covered, as long as nobody else holds the
  centre's money. The step from there to `CostCentre` is that the only change of `spent` is
  `record_commitment`, whose amount the balance covers: it maps to `Draw`, and
  everything else stutters.

`Serial` (a hypothesis of the last two) is a condition on the behaviour that nothing in the code enforces. It holds
when the trips of a cost centre are handled one after the other and none is
cancelled or timed out with its INSERT under way, as in the demo and the tests.
Finding 1 is what happens without it.

The Concierge and the network, for every set of trips, stays, totals and centres and any number of
restarts (of the network the set of trips is finite, since the bound on messages is
twice their number):

| Module | Theorem | States |
|---|---|---|
| `ConciergeProofs` | `ConciergeTypeCorrect` | `Spec => []TypeOK` |
| | `ConciergeConfirmsWhatWasRuled` | `Spec => []ConfirmedAsRuledAndFunded` |
| | `ConciergeAsksFirst` | `Spec => []ConfirmedAfterApproval` |
| | `ConciergeNegotiates` | `Spec => []OverCapIsNegotiated` |
| | `ConciergeRests` | `Spec => []RestIsDecidedOrAnswerable` |
| | `ConciergeTellsOnce` | `Spec => []JournalToldOnce` |
| | `ConciergeRenegotiatesOnce` | `Spec => RenegotiatedOnce` |
| `TravelNetworkProofs` | `NetworkIsAConcierge` | `Spec => LedgerKeepsItsPromise`, a refinement of `Concierge` |
| | `NetworkIsALedger` | `Spec => ConciergeIsALedgerCaller`, a refinement of `Ledger` |
| | `NetworkMoneyIsSanctioned` | `Spec => []MoneyIsSanctioned`, Ledger's, carried over |
| | `NetworkBooksWhatItConfirms` | `Spec => []ConfirmedIsBooked` |
| | `NetworkChargesOnce` | `Spec => []ChargedAtMostOnce` |
| | `NetworkUntouchedWithoutYes` | `Spec => []UntouchedWithoutYes` |
| | `NetworkAsksBeforeMoney` | `Spec => []YesBeforeMoney` |

`IInv` of the Concierge says, node by node, what a thread has behind it (`ThreadInv`: from `authorise` on the
ruling is about the very stay in the state; at `confirm` there is a token and an answer that let it
pass; once settled the budget is of the stay's total) and how task, run and what was told
go with it (`TaskInv`). A restart keeps it by taking the thread away. It needs of Sentinel and Ledger the
promises `Rulings` and `LedgerReplies`, and nothing of Hearth and Skyline.

`NetInv` is that invariant, two of Ledger's (`SettledInv`, `VerdictInv`), and `Link`, which ties the two agents
together trip by trip. While the Concierge waits, Ledger's request is the Concierge's message (`AskedInv`); the
tokens a thread holds were issued for its stay, and an approval it holds is Ledger's last verdict (`ThreadLink`);
and whatever Ledger works on or has charged for a trip is `Licensed`: the Concierge will not ask about that
trip again, nobody declined, and if a signature was needed it was given (`RunLink`, `ChargeLink`). The last
is what makes the charge of a run that outlived its caller right, and unique. Both
refinements follow from `NetInv` action by action: the variables of the other agent stutter. `NoneAssumption` (no
value is `None`) stands for Python's `None`.

The judgements, for every policy book, market, number of nights and set of hotels:

| Module | Theorem | States |
|---|---|---|
| `NegotiationProofs` | `ViolationNeedsManager` | a ruling that is not compliant requires a manager |
| | `StatedCapIsBroken` | a stated cap is that of a lodging clause, and the room breaks it |
| | `BrokenCapIsStated` | a broken lodging cap is stated |
| | `CapIsReadBack` | the Concierge reads the broken cap out of a ruling, and reads one exactly when one was broken |
| | `RulingIsPromised` | a ruling is one of `Concierge!Rulings`, and needs an approval from the threshold on |
| `SearchProofs` | `EnforcedCapHolds` | everything a re-ask can propose is at or below the cap at its rounded rate |
| | `TopPickUndominated` | Hearth's own choice is not dominated by any usable room of the market |
| | `TopFareCheapestInCabin` | Skyline's own choice is the cheapest of its cabin in the whole timetable |
| | `TopFareDefensible` | it costs at most 1.8 times any economy fare on sale |
| `NegotiationProofs` | `NegotiationNoBetterRoom` | `Spec => []NoBetterRoomLeftOut` |
| | `NegotiationCheapestInCabin` | `Spec => []CheapestInItsCabin` |
| | `NegotiationDefensible` | `Spec => []UpgradeIsDefensible` |

The first three are the clauses of `Concierge!Rulings` that are about findings, handler by handler, for any
book; the next two put them together with `_breached_lodging_cap` and the request of `node_screen`.
`EnforcedCapHolds` rests on `RoundingStaysUnderCap`: rounding an average does not lift it
over a cap of whole cents. `TopPickUndominated` is two steps: a dominating room comes before the
dominated one in the search's order, so the row limit cannot keep the second
and drop the first; and it has the better score against any list they are on
(`DominatingScoresBetter`). Skyline's are the same two steps over one order less, with the
cabin chosen in between from the rows that were left: a row limit that drops all of a cabin
drops only dearer rows. What both need of cuts comes first in `SearchProofs`. The lift to `Negotiation`
needs the invariant that a hotel or a flight has a price or is sold out, which only
`MarketMoves` could disturb.

The calls, for any number of clients, calls, agents, processes and files:

| Module | Theorem | States |
|---|---|---|
| `ToolServerProofs` | `ToolServerTypeCorrect` | `Spec => []TypeOK` |
| | `ToolServerImplements` | `Spec => IsAToolCall`, the refinement of `ToolCall` |
| | `ToolServerLeak` | `Spec => []LeakIsAHandshake` |
| | `ToolServerErrors` | `Spec => []ErrorsHaveACause` |
| | `ToolServerPools` | `Spec => NoneBegunAfterTheFirst` |
| `ExchangeProofs` | `ExchangeTypeCorrect` | `Spec => []TypeOK` |
| | `ExchangeReply` | `Spec => []ReplyIsTheTask` |
| | `ExchangeTrail` | `Spec => []RecordsTellTheCall` |
| | `ExchangeLeak` | `Spec => []LeakIsUnsent` |
| | `ExchangeContention` | `Spec => []NoContention`, when no two processes share a file |

`ToolServerImplements` counts: the statements that have run are those of the answered calls plus those the
live handler has run, unless a handler was cut off, and then the use can no longer be answered. The
invariant that carries it says which POST can be on its way and which handler alive for each
place a client can be in. `ToolServerErrors` needs that a client that has not been
hit has a session its server still knows, and is ready.

`ExchangeInv` says, for each place of a run, what the store has for the task, what is kept and what
is on the stream: the events not yet absorbed, folded into the reply, give the task's
state. `Unheard` is the exception: a run that died, whose task was cancelled with nobody on the stream. `ExchangeContention` is about the trail alone and rests on `Undisturbed`: a process finds its
file as it read it, and every id in it below its next one. `OneWriter`, the hypothesis, is
what the finding of `trail_shared` is about.

The negotiation as a whole, for every market and every way it can move, every policy book, timetable, number of
trips and of days:

| Module | Theorem | States |
|---|---|---|
| `NegotiationProofs` | `NegotiationRepairs` | `Spec => []RenegotiationRepairs` |
| | `NegotiationOnlyHelps` | `Spec => RenegotiationOnlyHelps` |
| | `NegotiationThresholdIsSigned` | `Spec => []ThresholdIsSigned` |
| | `NegotiationImplementsConcierge` | `Spec => SentinelKeepsItsPromise`, a refinement of `Concierge` |
| | `NegotiationConfirmsWhatWasRuled` | `Spec => []ConfirmedAsRuledAndFunded`, the Concierge's, with its real peers |
| | `NegotiationConfirmsNothingOverCap` | no confirmed trip has a room over the cap |

None of these is inductive. `NInv` has four parts. The market is priced (`MarketIsPriced`). The Concierge's own
`IInv` holds, which is inherited: every step of the composition is a step of `Concierge`
(`StepIsConcierge`), so the step proof of `ConciergeProofs` applies as it stands. `findings` has an entry for
every trip. And `Negotiated` says what joins the peers together: at `renegotiate` the findings kept for a trip are
those of a ruling on the stay it still holds, which is over the cap; from the re-ask on the stay keeps to the cap;
back at `screen` the findings are those of a dearer stay with the same flights in the same city; and a stay that
has been ruled on and costs the threshold or more has an approval in its ruling. The middle two need each other:
`ReOfferRepairs` goes from the kept findings through `CapIsReadBack` to the cap that `EnforcedCapHolds` then holds
the search to, and the cap of the new room is the same because both rooms are in one city.
`NegotiationOnlyHelps` compares the two rulings handler by handler (`NothingNew`): a handler sees either what it
saw before, or a cheaper room and a smaller total, or the calendar. That a step of another trip, a restart or a
cancel is none of these is `OwnMove`. `NegotiationConfirmsNothingOverCap` is
more than the Concierge alone promises (`OverCapIsNegotiated` lets such a room pass once a human has agreed):
with the real Hearth the case does not arise, because a re-ask that finds no room under the cap fails the trip.

What these rest on beyond the earlier assumptions is `BookAssumption`: the book has `TRV-003` as a lodging cap and
`TRV-005` as a spend threshold (the code reads the first back by name, the second is the clause `ThresholdIsSigned`
is about), thresholds are amounts, and caps are amounts above zero, all as in `policies.json`. The last cannot be dropped: a cap of 0 would be replaced by the hint
(`graph.py:193`), and a re-ask under the hint does not repair.

The intake, for every sentence, model answer, timetable, directory and market:

| Module | Theorem | States |
|---|---|---|
| `IntakeProofs` | `SourcedIsOneTrip` | `Spec => []OneTrip` |
| | `SourcedNearTheVenue` | `Spec => []SleepsNearTheVenue` |
| | `SourcedSpendsANight` | a sourced trip's return is after its departure |

`IInv` of `Intake` says which answers a run can hold: none before `source`; from then on a flight that leaves on
the request's date between its airports, and a room in the city of its destination, near its site, for at least
one night. That the room implies a night is `NoNightsNoRoom`: without one `BETWEEN` selects no rows, the count of
rows is 0 and `StayNights` is 1. `DatesAssumption` says that dates are dates, `TimetableAssumption` that flights go
from one airport on file to another (the foreign keys of the table, and `routes.json`).

Only model-checked are the liveness properties, `EveryMessageAnswered`, `TripsComeToRest` (twice),
`HandlersFinish` and `CallsComeToRest`: they rest on fairness, and ENABLED is outside the prover. Every other
property of a passing run is stated by a theorem.

## Findings

1. **Two trips can overdraw a cost centre** (`ledger_overdraft`). `assess` reads the
   position (`service.py:56`), compares (`:86`) and commits (`:106`) in separate awaits,
   and `record_commitment` inserts unconditionally. Two runs that read the same
   remaining 4 commit 3 and 2. `tests/agents/ledger/test_authorisation.py:90`: "No
   level of approval can spend money the cost centre does not have."
2. **An unclear answer is an approval** (`concierge_answer`). `_read_decision`
   (`executor.py:249`) says yes unless the text contains one of five words; its doc
   comment (`:245`) says it works out "whether the human said yes". A question
   on a paused trip moves the money.
3. **A wider budget can move the traveller farther away** (`relaxed_cap`). `rank`
   (`service.py:98` of Hearth) trades distance for price and stars. With rooms of three and
   four stars at 0.2 km for 140 and 180, five stars at 0.3 km for 210 and three
   at 0.5 km for 100, the choice under a cap of 150 is at 0.2 km and without the
   cap at 0.3 km. The repository's `README.md:543` says "relaxing the cap never moves the
   traveller further from the venue"; `tests/network/test_specialists.py:109` that "a larger
   choice set can never produce a worse answer on the axis Hearth is ranking". What does hold
   is `NoBetterRoomLeftOut`.

4. **Two plans at once share a file** (`trail_shared`). Every process of `atlastrip plan` asks as
   `traveller` (`scripts/atlastrip.py:103`) and so appends to `audit_traveller.json`, with row ids it
   remembers. When one records its first row between the two of another, the other's next id
   is taken: TinyDB raises, and `ask` fails after the trip has been planned.
   `audit.py:8`: "Each service writes to its own TinyDB file"; `audit.py:10`: "one file per writer
   removes the contention entirely"; `docs/ARCHITECTURE.md:253` repeats it. For distinct files
   `ExchangeContention` proves it.

Smaller ones, seen while modelling and without a run of their own: `audit.py:3` says each agent
writes one record when it finishes, but Sentinel makes none when it fails (`Silent`);
`db.py:23` speaks of the process-wide pool, of which several first users make several
(`NoneBegunAfterTheFirst` bounds it); `db.py:33` says `close_pool` is called from each
service's shutdown hook, and the MCP server, which uses the pool most, has none. Three are in the reach of `Intake`:

* `parse` copies the model's `venue_id` (`intake.py:92`); for one that is not on file `search_hotels` measures
  nothing and Hearth counts that as 0 km (`service.py:64`), so a hotel outside the limit can be proposed.
  `intake.py:6` says the conversion is "checked against the directory rather than trusted". That is
  why `SleepsNearTheVenue` speaks of sites on file.
* When the model raises, `parse` goes on by hand (`intake.py:107`): the first city it recognises, in four weeks, for
  Mira Halvorsen and on her cost centre, whoever asked. `intake.py:78` says "fail loudly enough to be fixed".
* The return may leave before the outbound lands: `assemble` picks each from a shortlist that knows its date
  only. On an overnight trip to Tokyo, out at 11:00 lands at 15:15 the next day, and the flight
  back at 15:00 that day is on its list. `README.md:324`: "it cannot quote an unbookable itinerary".
  `OneTrip` therefore compares dates and not hours.

## What is not modelled

* The language models: what intake's answers, wording, and the choice among a shortlist are open. The
  services ignore an unusable choice; what intake's model says is taken as it is.
* A trip without a venue in the runs of `Negotiation` (the proofs cover it; `NoBetterRoomLeftOut` and
  `Intake` have it); the minimum of stars, which the
  Concierge never asks for; caps and prices that are not whole cents.
* Expiry of fares and of the ruling during a pause: the code has no notion of either,
  and confirms what was ruled on (`ConfirmedAsRuledAndFunded`) however long ago.
* A file torn by a crash in the middle of a write, and a reader that meets one: nothing
  in the code says what should happen then. Nor a read of the trail file by file while calls are under
  way: nothing is promised of one, and the trail is read by hand, after the fact.
* A bare `Message` as the reply to a call, which no agent sends, and a `close` of the SDK's client that raises.
* `documents.clear`, `replace_all`, `reset_all`, `audit.clear`: run by hand, between demos.
* Cards, routes, configuration, console, seeding, diagrams, videos: no state that a later
  step depends on.

## Plan

Done: everything in the table of the inventory but its last row. What would be next:

1. `Ledger` with `ToolCall` in place of its `calls`, so that the refinement proved for
   `ToolServer` is used as well as stated.
2. `Negotiation` and `TravelNetwork` over one Concierge: both refine it, from two sides, and the theorems of each
   then hold with the peers of the other in place.
