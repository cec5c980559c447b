# TLA+ specifications of the OIG portal

The OIG portal checks the block producers ("guilds") of the WAX chain. Python
scripts in `backend/` look up every guild's nodes, probe them, score the answers
and store them in PostgreSQL; a Fastify server (`frontend/fastify/`) and a React
application (`frontend/react-front/`) show them, and let a guild ask for a
re-scan. This directory holds TLA+ models of the path a result takes, from the
call of cron to the page that shows it, the TLC runs that check them, and TLAPS
proofs of every invariant and action property that the runs check, and of both
refinements, for all values of the constants.

`PROJECT.json` is the index: components, runs, the lines of code behind every
definition (`map`), the bug that each property would notice (`mutants`),
disagreements between code and documentation (`findings`), what is hard to test
in this code (`hazards`), and the theorems.

To repeat everything:

    tlc -workers 2 -config RescanQueueService.cfg RescanQueue.tla   (any run)
    tlapm RescanQueueProofs.tla

## 1. The system

### Inventory

| Component | Code | State | Operations |
|---|---|---|---|
| Re-scan service | `backend/main.py` | `task_queue`, the global `worker`, the threads | `/run`, `process_queue`, `restart_worker`, `auto_restart_worker`, `stop_worker` |
| Check run | `backend/start.py`, `services/nodes.py`, `services/producers.py` | the tables `oig.producer`, `oig.nodes`, `oig.results`; `finaltuple`, `node_list`, `producersList` of each process | `main`, `finalresults`, `node_list`, `producer_chain_list` |
| Run scheduling | `files/cron`, `backend/run_checks.sh`, `start.lastCheck` | the pid file; the dates in `oig.results` | the hourly call, `lastCheck` |
| Database access | `backend/db_connect.py`, `postgresql.sql` | the tables | one transaction for each function |
| Endpoint checks | `services/api.py`, `history.py`, `atomic.py`, `cpu.py`, `chainjson.py`, `chaininfo.py`, `delphi.py` | none | one decision for each check of a guild |
| Scoring | `services/score.py` | none | points of a result |
| Chain access | `utils/eosio.py`, `requests.py`, `core.py` | node lists read at import | requests with timeouts, calls to random nodes, with retries |
| P2P client | `utils/p2p.py`, `serial_buffer.py`, `services/p2pnew.py` | a socket, `handshake` | connecting, receiving, dispatch, handshake |
| Portal API | `frontend/fastify/server.js`, `pgquery.js` | one database client, `got` | the routes: tables, nodes, missing and empty blocks, login, relay of re-scans |
| Portal session and notifications | `Header.tsx`, `GuildInfo.tsx`, `NotificationSlice.ts` | local storage, header, notification | login, logout, scan, close, timers |
| List of results | `GuildsCheckResults.tsx`, `Pagination.tsx`, `GuildCard.tsx`, `AvgResults.tsx` | page, filter, search, columns | clicks and typing |
| Portal pages | `App.tsx`, `HomePage.tsx`, `GuildDetails.tsx`, `EmptyBlocks.tsx`, `services/api.ts` | queries of the store, `dateRange`, charts | navigation, dates, answers |
| Presentation | charts, icons, `Services.tsx`, `Producers.tsx` | none | markup |
| Telegram and Notion import | `services/telegram.py`, `notion.py` | - | not called |
| Deployment | Dockerfiles, `files/` | - | set-up |
| Old scripts, generated site | `backend/old`, `site/` | - | not run |

### How they interact

    cron --hourly--> run_checks.sh --pid file--> start.py --+
                                                            |  oig.producer
    portal page --> Fastify --> GET /run (main.py)          +--oig.nodes
                                  |  task_queue             |  oig.results
                                  v                         |
                              worker thread --start.main----+
                                  ^
             restart_worker: failing worker, auto-restart thread, shutdown

The process that cron starts and the worker thread of `main.py` run the same
`start.main` and share the tables and nothing else: no lock and no transaction
spans two calls of `db_connect.py`. `oig.producer` is also written by the OIG,
through the admin page (`docs/admin.md`).

### What is hard, and what makes each part correct

* **Re-scan service.** Three kinds of thread call `restart_worker`, which reads
  and writes the global `worker` step by step without a lock; a pill (`None`) in
  the queue asks whichever worker takes it to end; `sys.exit()` in `start.main`
  ends a worker without anybody noticing. Correct: no request is lost, repeated
  or overtaken; pills and workers balance, so that neither no worker nor an army
  of them is left; the position a user is told is not too optimistic; each
  request starts, if check runs end.
* **Check run.** A refresh deletes `oig.nodes` and refills it guild by guild in
  two parts while other processes read it; two refreshes may overlap; an
  exception anywhere leaves what was deleted deleted; `active` is read, kept
  for minutes and written back. Correct: after the refreshes the table is
  complete (and, without overlap, exact); retired guilds stay retired and are
  not checked; every active guild is checked again and again.
* **Run scheduling.** `lastCheck` decides by the tenth youngest row of a table
  that re-scans write too, with a strict comparison that is a minute late, in a
  script called at full hours that comes to it only after an import of unknown
  length (`start.py:28-37`), and whose runs may last longer than an hour and may
  fail. Correct: full runs keep their distance, and an overdue one starts.
* **Endpoint checks and scoring.** Nineteen checks in a row over answers of other
  people's servers, with timeouts of 7 to 20 seconds and `try` clauses that leave
  some lines out; nothing around them catches an exception, so what one node
  answers may end the run of all guilds. Correct: only a guild that is out of
  order, an outage of the portal's own services or a change in the middle of one
  check can do that; a healthy guild passes, silence passes nothing and earns
  nothing, checks of one node agree.
* **P2P.** A stream read as if it came in messages, a peer that never stops.
  Correct: a check ends, and its result belongs to the answer.
* **Portal API.** One process, one event loop, one database connection for the
  queries of all requests; callbacks that throw end the process; ky and got both
  repeat requests, one of which is not idempotent. Correct: each answer reaches
  the handler that asked, an error costs no more than the route's style allows,
  what a page is told is true, a click queues a bounded number of checks, and
  every call ends.
* **Portal pages.** Tabs that share a storage and not their state, answers out of
  order, closures over old state, timers of an earlier request, components that
  stay mounted under another address. Correct: the page shows the data of what is
  selected, a notification goes away and takes no newer one's timer with it, the
  header shows the account whose token a re-scan uses. Each has exceptions in the
  code; the properties name them, and section 5 lists them.

## 2. Modules

| Module | What it is |
|---|---|
| `RequestService` | what the re-scan service promises: requests are taken up in the order of acceptance, none is lost, and the run of each begins at most once |
| `RescanQueue` | `main.py`, thread by thread |
| `RescanQueueProofs` | theorems about `RescanQueue` |
| `CheckRun`, `MCCheckRun` | `start.main` in two processes over the shared tables |
| `CheckRunProofs` | theorems about `CheckRun` |
| `Cadence` | cron, `lastCheck` and the dates of the results |
| `CadenceProofs` | theorems about `Cadence` |
| `SeedNode` | the check of one guild's seed node over a TCP stream |
| `SeedNodeProofs` | theorems about `SeedNode` |
| `GuildCheck`, `MCGuildCheck` | the other checks of one guild, in turn, and its score |
| `GuildCheckProofs` | theorems about `GuildCheck` |
| `CallService` | what the server promises a page: a call is concluded at most once, with an answer of its route |
| `PortalServer` | the Fastify server, its database client and the calls of the pages |
| `PortalServerProofs` | theorems about `PortalServer` |
| `PortalSession` | login, logout, re-scans and the notification in several tabs |
| `PortalSessionProofs` | theorems about `PortalSession` |
| `ResultsList`, `MCResultsList` | the list of results with pages, filter and search, and results that change beneath it |
| `PortalPages`, `MCPortalPages` | the pages, the queries behind them and their dates |
| `PortalPagesProofs` | theorems about `PortalPages` and about `ResultsList`, which the pages contain |

A module `MC...` holds the values of constants that a `.cfg` cannot express.

The models meet at their edges. `RescanQueue` leaves out what `start.main` does and
`CheckRun` leaves out how it is called: the worker of `CheckRun` starts a re-scan or
a full run whenever it is idle, which covers everything that queue and restarts can
do as long as one worker runs at a time (theorem `ChecksBounded` says when that
is). `Cadence` says when the process of cron makes a full run; `CheckRun` lets it
make one at any time. `GuildCheck` is what `CheckGuild` of `CheckRun` stands for,
and a step to "raised" is an `Abort` there; of `GuildCheck` in turn, `SeedNode` is
the check "seed_node". `PortalServer` queues a re-scan with the service that
`RescanQueue` models; its calls are those that `PortalSession` (login, scan) and
`PortalPages` (queries) make, reduced there to an answer or a failure at any time.

### RescanQueue

Each step of a thread is an action; between two of them every other thread may
run. `queue` is `task_queue`, with `Pill` for `None` and the n-th accepted
request as the number n. `worker` is the module global. `pc` says where each
thread is: a worker in `get`, with a request it has `taken` and not begun, or in
`run`, and a caller of `restart_worker` before
`put`, before the test, before or in `join` (the global is read again there, and
the thread it names stays in `target`), before the new `Thread`, before `start`
(the global is read a third time). `join` on a thread that is not started and
`start` on one that is raise a RuntimeError, which ends the calling thread.
`start.main` is abstracted to how it ends: it returns (`RunReturns`), raises
(`RunRaises`) or calls `sys.exit()` (`RunExits`, for `FullRequests` only).
`taken` counts the requests that workers took out of the queue and `begun`
is the set of those that were handed to `start.main` (`RunBegins`): while two
workers serve, the one that took its request later may begin earlier. `lost`,
`begun` and `ticket` are history.

`RequestService` has the requests themselves, as three sets: waiting, in hand
and begun. `Take` takes the oldest that waits, `Begin` begins one in hand, once.
A queue that is a stack, or a request that is run again after an exception, does
not implement it.

Thread objects are a finite set and are used again once nothing refers to them;
`Fresh` is what Python's allocator has an endless supply of.

### CheckRun

`producer` and `nodes` are the two tables, reduced to the column `active` and to
which rows exist; `pc`, `net`, `todo`, `rows`, `acc` and `scope` are where a run
is in `start.main` and its local variables. A call of `db_connect.py` is one step,
so is each guild that is listed, fetched or checked. `Outages` adds unreachable
files, deletes that fail and are swallowed, and an exception at any point
(`Abort`, which also stands for a connection that fails in a function of
`db_connect.py`); guilds in `Poison` have a `wax.json` that makes `node_list`
raise; those in `Shared` list nodes of both nets that are equal in all columns of
the unique index of `oig.nodes`, which lacks `net` (`db_connect.py:195`), so that
the row stored last is taken for the other one (`Stored`, `Has`). In
`producer_chain_list` a bare `except` stands for a guild that is new and for a
status that could not be read: `ListGuild` makes both active. `full` says whether
the worker makes full runs at all: the portal only asks for re-scans, but `/run`
without `bp` is a full run. `listed` is what the guilds' files contain and changes
with `EditJson`; `SetActive` is the OIG. `outdated`, `clean`, `retired` and
`misread` are history: whether `oig.nodes` has any right to be complete, which
guilds were retired throughout a run, and for which of them that run failed to
read it.

### Cadence

Time passes in ticks, `Hour` of them to the hour; a tick is the minute in which
`lastCheck` compares. Cron's call at the full hour (`CronStarts`, `CronSkips`)
only starts `start.py`; it comes to `lastCheck` after an import of up to
`MaxImport` ticks, and then begins the run (`RunStarts`) or ends (`TooEarly`).
`results` keeps the ages of the `Nth` youngest rows only, because the query reads
nothing else; `ByAge` puts rows in the order of the query by counting, for each
place, the rows that are younger. `Tick` waits for the call of cron, for an import
that takes `MaxImport` ticks and for a run that takes `MaxRun`. `since`, `begun`,
`scans` and `failed` are history. The rows hold `utcnow()` and `lastCheck` takes
`now()`: the model is that of a server whose clock shows UTC.

### SeedNode

`verify_block_from_p2p` reads the head block of the network, connects and
receives until a message gives a verdict. TCP is `stream`: the peer appends each
message in two parts, `recv()` returns any number of parts, and the client looks
at the first part only, as `handle_net_message` does. A chunk that begins with a
whole message is handled (`Handle`) and what follows it is dropped; a message
that is cut is handled or raises (`HandleCut`); where a chunk begins in the
middle of a message any byte may be taken for its type (`HandleRest`). The one
thing that is left out is a middle that reads like a handshake of the right
chain, which takes 32 bytes to be the chain's number by accident.

The peer sends any messages in any order, may fall behind the network or catch
up, and may close the connection. `sent`, `whole` and `refused` are history: what
the peer said, whether TCP delivered it message by message, and whether a
connection failed.

### GuildCheck

`row` is what `getQueryNodes` finds for each service a guild lists: which URLs it
has and whether it declares full history. `node` is how that node answers: with a
delay, and in a way that some check tells from others (`Kinds`; "page" is HTML with
status 200, "list" JSON that is no object, "noSocket" a node that answers HTTPS
and takes no bare connection by IPv4, "short" an index with fewer blocks than its
last one, and so on). `endpoint` is the guild's `p2p_url`, and `known` says whether
`oig.producer` has the guild, which a re-scan does not ensure. Each check is a pair
of operators, when it raises and when it passes, read off its function with every
early return; an action runs the check that is due. `tlscheck` and `http2_check`
take two: they ask the node (`AskHttps`) and then connect to it again
(`ConnectSocket`), and the node may change in between. `NodeChanges` lets a node
become slow or quick once, and `changed` keeps whether that was between two steps
or `connecting`. `DatabaseFails` and `HeadBlockUnknown` are the portal's own
database and node of the chain, which fail once at any check. Of `delphi.py` and
`chainjson.py`, which decide by data of the whole network, there is only that they
pass or fail, of `cpu.py` that it raises for a guild without a row, and of the check
of the seed node what `SeedNode` shows it to come to; metadata checks are constants
in `start.py:135-141`. In the score, `Worth` gives the same points to
`rounds_availability` whatever the results, as `score.py:17-18` does.

### PortalServer

An action is the piece of a handler between two awaits. `queue` holds the queries
of all requests in the order of the one `pg` client, each with the call and the
attempt it belongs to; `at` is what a handler waits for. Routes with a callback
may throw in it (`Crash`: queries and handlers are gone, nginx answers 502 to all
who were being served, supervisord restarts); routes that await answer with an
error. `Hear` is ky: another attempt after an error, up to `KyRetries`, while a
call that times out (`GiveUp`) is not repeated and its handler goes on. `again`
counts the attempts of got. Rows, keys and URLs are reduced to the outcomes the
handlers tell apart; `guild` says whether the account of a login is known to
`oig.producer`. `accepted`, the re-scans queued for a call, is history.

`CallService` is what is left of this for a page. A call is idle, pending or done
(`SeenState` maps the states of `PortalServer` to these); it is concluded with an
answer of its route (`Outcomes`), a token only for a guild, "scanned" only if a
re-scan is queued; re-scans are queued while the call is pending or, since a
handler goes on when ky has given up, later, but no more than `MaxRescans`; what
ends the process fails several calls in one step. Attempts, handlers, queries, the
process and its database do not occur.

### PortalSession

`stored` is the local storage, `page` the state of `Header` in each tab, `wallet`
what UAL reports there. A token and a name are each represented by the account
they belong to. `scans` are requests under way: clicks on Scan for the same guild
share one, as RTK Query does, and each starts its own timer when it is answered.
`overlapped`, `stale` and `refused` are history: whether a tab had two logins under
way at once, whether another tab wrote the storage after it, and whether it had a
login refused since it last read or wrote it. In the last two cases its header may
show something else than what a re-scan is authorised with.

### ResultsList

`producers` is fixed when the list is mounted, `results` are not: the history may
lead from the page of one guild to that of another with the list kept in between
(`ResultsChange`, which is what `Jump` of `PortalPages` does to the list).
`Pagination` loses its page when the rows fit on one, the list keeps its offset;
`moved` is history, whether the two have lost each other. `Remainder` and
`Slice` are those of JavaScript, negative numbers included, because Previous and
Next are disabled for the mouse only. `Filter(s, P)`, the `filter()` of
JavaScript, takes the elements in the places `P` in the order of their places, the
smallest first (`InOrder`). Names that `PortalPages` has, too, bear the
prefix List (`ListInit`, `ListNext`), so that one module can extend both.

### PortalPages

`Table` is `oig.results` as times of checks; `Truncated` and `TotalCount` are the
two queries over it, `BuildChartData` the points of a chart. The ranks and limits
of the first query are counted (`Newest`), and so is the order of the points
(`NewestFirst`): a set of times with its order stands for a sorted sequence.
`query` and `kept` are the store of RTK Query, `view` the state and hooks of
`GuildDetails`, `empty` those of `EmptyBlocks`. `Render` runs with every change:
it throws where the code reads `results[0]` of an empty list, and otherwise brings
the charts up to date. The home page reads it, too, and throws when the latest
results are empty (`HomeThrows`). A navigation either mounts a page anew (`Mount`:
a new document, a link, or an entry of the history whose component is another one,
`Return`) or, between two guild pages of the history, keeps the component
(`Jump`). `passed` and `jumped` are history.

## 3. Runs

Each run takes less than a minute, except `guild_check`, `portal_pages` and
`portal_server`, which take two or three. A run named *violation*
shows a behaviour of the code that contradicts the quoted comment or document
(section 5).

| Run | Instance | Shows |
|---|---|---|
| `rescan_service` | 5 thread objects, 2 requests, one of which may exit | queue order, balance of workers and pills, honest positions, that `RescanQueue` implements `RequestService`, and that, if no check run lasts for ever, each request starts as long as the auto-restart thread lives |
| `rescan_stranded` | 5 thread objects, 2 requests | *violation*: a request never starts, although all check runs end |
| `check_tables` | 2 guilds, the nodes of one equal in both nets, with and without full runs of the worker, outages, 1 change | overlapping refreshes leave a complete table; without them it is exact, and a retired guild is not checked unless its status could not be read |
| `check_recovery` | 2 guilds, one with a bad `wax.json`, 2 changes | after that guild is retired the other is checked again and again, if full runs begin again and again |
| `check_lost_update` | 1 guild, 1 change | *violation*: a retired guild becomes active again |
| `cadence_runs` | hour of 2 ticks, 4 guilds, third youngest row, imports and runs of up to an hour and a half, failures, re-scans | distance between full runs, overdue runs, three-hour rhythm |
| `seed_node` | 2 blocks, 2 messages on their way | verdicts are deserved, a healthy peer passes, silence ends the check, only an unknown head block ends the run |
| `guild_check` | none, one or both Hyperions of the services; one thing in trouble: a node with any answer and delay, the seed node's address, or the guild's row; one change of speed, one outage | what ends the run of all guilds; verdicts are deserved, and what is silent earns nothing |
| `portal_server` | 2 calls, ky and got repeat once, 1 outage, 2 producers in an answer | answers reach their handler and are true, errors stay where the route's style lets them, every call ends; `PortalServer` implements `CallService`: late answers change nothing, and re-scans are bounded |
| `portal_session` | 2 tabs, 2 accounts, 2 announcements of wallets, 2 clicks | the header shows what is stored, unless the tab was overtaken or had a login refused; every notification has a timer and goes away |
| `results_list` | 2 guilds, 2 cards to a page, up to 5 rows, 2 steps beyond the pages, results that change | the cards are those of the page or of the filter, in the order of the results, except for a page left over from another guild |
| `portal_pages` | 4 addresses (top 21, standby, without results, unknown), 3 ranges, 2 requests under way | charts, averages and missing blocks fit guild and dates, with named exceptions; pages break only for want of results |

### Bounds

* *Threads.* Four objects are enough for two callers of `restart_worker` to have
  created a successor each while the old workers still run. If they ran out,
  `RestartNew` would be blocked, which the liveness property would report; there
  are five. The theorems of section 4 hold for any number.
* *Requests.* Two: one that fails or exits and one behind it, which may arrive
  during the restart. The theorems hold for any number.
* *Guilds.* A refresh that is between two guilds needs two; all conditions in
  the code concern one guild and its nodes. One guild is enough for the lost
  update.
* *Changes.* `MaxChanges` bounds what the OIG and the guilds do: one change is
  what a refresh must survive at each of its steps; two retire a guild and bring
  it back, or retire one while a file is edited.
* *Blocks and messages.* A peer is behind the network or not, so two heights are
  enough; `recv()` may join two messages, cut the first or the second, or both,
  which needs two of them in the stream at a time. The number of messages in a
  check is not bounded.
* *Rows and ticks.* `Nth` is 10 in the code and 3 here, `Hour` is 60 and 2 here;
  what matters is that there are at least `Nth` guilds, that `Nth - 1` re-scans
  are possible and that import and run can each meet the next call of cron.
  `MaxImport` and `MaxRun` bound what the code does not; the three-hour rhythm is
  stated with both. Ages stop at `MaxAge` and `MaxSince`, beyond every comparison.
  The theorems hold for 60 and 10, and for every `MaxImport` and `MaxRun`.
* *Nodes of a guild.* A check reads one service, except that a Hyperion check of
  the testnet also asks the mainnet node; the listings have each service alone and
  those two together. One thing in trouble at a time (`MaxTroubled`) shows what it
  does to the run; the delays lie on both sides of each timeout (7, 10, 15 and 20
  seconds).
* *Calls.* Handlers meet only on the queue of the client, in the process that ends
  under them and in the `got` that is not imported yet, for all of which two calls
  are enough. One repeat of ky and got stands for two in the code; two producers
  are one whose logo comes and one that is still to come.
* *Tabs, announcements, clicks.* Two of each: one that acts while the other's
  answer or timer is pending.
* *List.* Pages of two over five rows have a last page that is not full, so that
  the remainder is a multiple of the page size for some steps beyond and not for
  others. Guilds with one to five rows lie on both sides of what `Pagination` needs.
* *Pages.* The table has a day with more checks than are sent, more checks than
  the limit, a range that cuts a day and one without any result of a guild.
  `MaxAsked` bounds requests for missing blocks under way: two come in either order.
* `CHECK_DEADLOCK FALSE` where the system may stop: the re-scan service may have
  been shut down or its last worker may have ended, the check of a seed node
  ends, the calls of `PortalServer` are all done. In `PortalSession` a tab can
  always be reloaded, and a reload that changes nothing is no step that TLC would
  have to find.

### Fairness

* `RescanQueue`: weak fairness of what each worker does by itself, of the
  auto-restart thread (its sleep ends) and of the handler between `qsize()` and
  `put()`: the interpreter schedules every runnable thread. Nothing is assumed of
  the arrival of requests, of the shutdown, or of the end of `start.main`, which a
  peer that keeps talking (`p2p.py:33`) or an API that never answers right
  (`eosio.py:346`) holds for ever. That every check run ends is the premise
  `RunsEnd` of the two properties about the start of a request.
* `CheckRun`: none. That full runs of cron begin again and again is the premise of
  `ChecksRecover`: ten re-scans in two hours hold them off (`db_connect.py:108`),
  `Cadence` says when they do not (`OverdueRunStarts`), and a run that never ends
  lets none follow.
* `Cadence`: none, as its properties are about steps and ages. `MaxImport` and
  `MaxRun` bound what is taken to end.
* `SeedNode`: weak fairness of the client, which runs by itself and whose
  `recv()` returns after 15 seconds at the latest. Nothing is assumed of the peer.
* `PortalServer`: the event loop handles every request, database and services
  answer what they are asked or fail (a broken socket is an error, too), the lost
  connection is noticed, supervisord restarts the process (`files/start.sh`), and
  outages end. Nobody has to make a call, to give up or to import got in time.
* `PortalSession`: the timers of a tab fire. Nothing is assumed of users, wallets
  or servers.
* `GuildCheck`, `ResultsList` and `PortalPages` state no liveness.

## 4. Proofs

Each of the nine modules that model code has its theorems in a module that EXTENDS
it; `ResultsList` shares that of `PortalPages`, the pages that contain the list. A
theorem holds for every value of the constants that satisfies the assumption
named in the module; the runs of section 3 check the same formulas, and the
inductive invariants, on one instance each. Every theorem is proved the same way:
an invariant `IInv` that is inductive (`Init => IInv`, then one lemma for each
action or group of actions, joined in the lemma about `Next`), the property as
one of its conjuncts or as a consequence, and a temporal step at the end. The
action properties are proved from `IInv` as well.

What is assumed of the constants is what the code has: some finite set of calls
(`BoundsAssumption`), at least one thread and one tab, a guild or request that
is not `None`, in `GuildCheck` a delay below every timeout, a longest delay and
a point system with finitely many entries; at least one card to a page and one
row of a guild. Sets of guilds, tabs and messages,
the lengths of streams and queues and all numbers are otherwise arbitrary.

### RescanQueueProofs

| Theorem | States |
|---|---|
| `TypeCorrect` | `TypeOK` |
| `QueueOrder` | `QueueHoldsWaiting` |
| `Implementation` | `RescanQueue` implements `RequestService` |
| `PositionsHonest` | `NeverTooOptimistic` |
| `WorkersConserved` | `Balance` |
| `ChecksBounded` | `ConcurrencyBound`: at most one more check runs at a time than pills wait |
| `SomebodyServes` | as long as nothing was lost there is a live worker, or a restart that will start one |

The inductive invariant is `IInv == TypeOK /\ HandlerInv /\ QueueHoldsWaiting`.
`QueueHoldsWaiting` says which requests the queue contains, as a set, and that
they ascend; from both follows `HeadIsOldest`: the request at the head is number
`taken + 1`. For the refinement `HandInv` says where requests go from there: each
that a worker has in hand was taken, has not begun and is in nobody else's hands,
and what has begun was taken. So the step that takes a request is `Take` of the
service, the oldest one that waits, and `RunBegins` is `Begin` of one that has not
begun. `HandlerInv` keeps a request that was told its position
within the bound. The lemmas of the first part of the module say how `Append`
and `Tail` change the set of a sequence's elements.

`NeverTooOptimistic` is not inductive: `TicketInv` adds what is known of the
ticket of the request that is between `qsize()` and `put()`.
`Balance` is inductive relative to `IInv`: a step moves at most one thread and
one pill, and the `Census...` lemmas say how the two cardinalities change when
one caller, or a caller and the thread it starts, change their place.
`ChecksBounded` follows from it, because a running worker is a live one.
`SomebodyServes` follows by arithmetic, since the pills are never fewer than 0
(`PillsCounted`).

### CheckRunProofs

| Theorem | States |
|---|---|
| `RunTypeCorrect` | `TypeOK` |
| `RefreshComplete` | `NodesComplete` |
| `RefreshExact` | `NodesExact` |
| `RetiredUnchecked` | `RetiredNotChecked` |

`NodesComplete` speaks of the moment when no refresh goes on, so the invariant
says what holds during one: `NothingMissed`, every wanted node has its row or
*some* refresh still brings it (`StillBrings`: the loop has yet to come to it, has
it in hand, or will delete and begin again). A row that one refresh deletes is
brought by that refresh, which is why overlapping ones do no harm, and why each
must have begun after the last change (`Sound`). A node "has its row" also where
the unique index takes the row of the other net for it (`Has`). The other
direction needs cron alone: `NothingUnwanted` says that what is in the table, or
in a local variable on its way to it, is wanted, for which `OnlyCronRefreshes`
says where the worker can be, and `RetiredInv` does the same for guilds that were
retired before the run and whose status it could read: the table, the row that the
run will write and the list of its checks agree. `LocalsInv` says that variables
of a step that is over are empty.

### CadenceProofs

| Theorem | States |
|---|---|
| `CadenceTypeCorrect` | `TypeOK` |
| `ResultsStayFresh` | `ResultsEveryThreeHours` |
| `RunsKeepTheirDistance` | the action property `FullRunsApart` |
| `OverdueRunsStart` | the action property `OverdueRunStarts` |

`lastCheck` reads a row, the properties speak of time that has passed, and the
invariant ties the two together. `StartSeen`: the row that decides is not older
than the beginning of the last full run that saved its results, whenever the
import lets `start.py` look at it; so a run that begins finds that beginning more
than two hours and a minute ago. `RescansOnly`: only re-scans are younger than the
last run, so with fewer than `Nth` of them the row that decides is as old as the
run, provided that rows do not get lost (`RowsStay`). `InTime` is the budget
behind the three hours: how old results can be while nothing runs, while cron is
due, during an import and during a run. `RunInv` says what `start.py` has in its
buffer, and that it does not import and check at once. The lemmas about `ByAge`
say that it sorts, keeps its rows and bounds each of them by counting
(`ByAgeAtMost`, `ByAgeAtLeast`).

### SeedNodeProofs

| Theorem | States |
|---|---|
| `SeedTypeCorrect` | `TypeOK` |
| `PassDeserved` | `PassIsDeserved` |
| `GreetsOnce` | `OneGreeting`: the client introduces itself at most once |
| `RaisesEarly` | `RaisesBeforeContact` |
| `HealthyPeerNotFailed` | `HealthyPeerPasses` |

`PassIsDeserved` speaks of what was sent, the client only sees the stream, so the
inductive invariant `IInv` has `StreamSent`: all parts in the stream belong to
messages that were sent. `PhaseInv` (the peer says nothing before it is asked)
carries `RaisesBeforeContact`, `GreetingInv` (`greetings` is 1 exactly where
`handshake` is set) carries `OneGreeting`. `RecvKeeps` says that `recv()` only
takes from the stream, and `OutcomeKeeps` what a message may do to the client,
whichever way it was read.

### GuildCheckProofs

| Theorem | States |
|---|---|
| `GuildTypeCorrect` | `TypeOK` |
| `DisorderEndsTheRun` | `OnlyDisorderRaises` |
| `VerdictsFitTheNodes` | `VerdictsDeserved` |

The verdicts are a set that grows check by check, so the invariant says of each
check that has had its turn that it would come to the same verdict again while no
node changes its speed and nothing of the portal's own fails (`Repeatable`), that a
silent service has passed none of its checks (`SilentFails`), and that a check that
is about to connect again had its answer (`Connected`). `OnlyDisorderRaises` is a
part of it, by `RaisesInDisorder` for the checks of one step, by `ConnectMade` for
those of two, and by `DatabaseMade` for the outages. `VerdictsDeserved` is a matter
of the last state, where all checks are done, and of facts about the checks: what a
quick and what a slow answer do (`QuickAndSlow`), and that a guild which passes the
API check and has a certificate passes the HTTPS check (`ApiPassesHttps`). Its part
about the score, that a silent service earns nothing (`SilentScore`), is a fact
about a sum over a point system of any size. The lemmas on `SumFunction` say that
its recursion has a solution, that sums are integers and grow with their terms; they
take a smallest counterexample (`SmallestNumber`) where a text book would
use induction.

### PortalServerProofs

| Theorem | States |
|---|---|
| `ServerTypeCorrect` | `TypeOK` |
| `EveryHandlerIsAnswered` | `NobodyWaitsInVain` |
| `RepliesAreTrue` | `AnswersTrue` |
| `OneClickFewRescans` | `RescansBounded`: one click, at most (1 + `KyRetries`) * (1 + `GotRetries`) re-scans |
| `OnlyCallbacksEndTheProcess` | the action property `ErrorsContained` |
| `ServerImplementsCalls` | `PortalServer` implements `CallService` |
| `AnswersAreFinal` | the action property `AnswersFinal`: a call that is over keeps its answer |

Two calls is what TLC can check, and `NobodyWaitsInVain` is about many that share
one queue. `QueueInv` says that each query bears an attempt that was made, that
none bears that of a call which waits to be received, and that those of a handler
that runs are for what it waits for: an answer to an earlier attempt cannot be
taken for its own. `CallInv` ties the state of a call, its handler and its result
together. `BudgetInv` says how many re-scans the attempts so far may have queued,
counting the one under way as far as got has come, and gives
`RescansBounded` at the end. Most of the module is about counting: how the number
of equal queries in the queue changes when the head is taken
(`CountTail`) and when some are added (`CountCopies`).

The refinement goes through the step by which a call hears how an attempt came out
(`HearConcludes`): it is repeated, which a page does not notice; it comes too late,
which nobody notices; or it concludes the call. That it then is an answer of the
call's route is `CallInv`, since a handler waits only for what its route asks for.
`CrashBreaks` turns the end of the process into one step that fails all calls
which are not repeated. Where a re-scan is queued, the service may queue one more
only below `MaxRescans`; that is `RescansBounded` of the next state, which follows
from `BudgetInv` (`WithinBudget`). `AnswersFinal` is read off the steps of
`CallService`, which are fewer than those of the server.

### PortalSessionProofs

| Theorem | States |
|---|---|
| `SessionTypeCorrect` | `TypeOK` |
| `HeadersFitStorage` | `SessionsFit` |
| `NoticeIsTimed` | `VisibleHasTimer` |

The storage is written as a whole (`StoredFits`). That the header of a tab which
is neither `stale` nor `refused` shows exactly what is stored is inductive with
that; the other tabs keep at least the name of the token they have, as long as no
two logins of the tab overlap: `OneLogin` says what is
true until then: at most one login is under way, and none while there is a token.
`VisibleHasTimer` is inductive as it stands, since the youngest timer belongs to
the notification that is shown.

### PortalPagesProofs

| Theorem | States |
|---|---|
| `PagesTypeCorrect` | `TypeOK` |
| `ChartsShowTheSelection` | `ChartsFollow` |
| `AnswersFitThePage` | `AnswersFit` |
| `PagesBreakForWantOfResults` | `OnlyNoResultsBreak` |
| `ListTypeCorrect` | `ListTypeOK` |
| `CardsFitTheSelection` | `CardsAsSelected` |

`ChartsFollow` has two halves. That the charts are those of the rows, the dates
and the latest results which the page has, after every render, is the invariant
`ChartsFit`; whose rows these are is `RowsFit`: those of the guild of the address
as soon as the store has them, before that nobody's, or, after a jump, those of a
guild of the history. That such a chart shows exactly the selected checks, oldest
first, is a lemma about the operators (`ChartProperties`): in a set of n times
each has a rank, different times have different ranks, and a one-to-one map from n
times to n ranks takes every one of them (`RankOnto`), so that the points of a
chart are the times in their order. `AverageFits` and `LastAskedFits` say which
guild and dates each answer is for while others are still under way; the
exceptions of `AnswersFit` are those of the properties it joins: an answer that
was overtaken or failed, a page reached by a jump, and the chain of the dates a
page begins with. `PageOpened` says that the page of a guild is among those that
were opened, which `TypeOK` needs for the answers that the store keeps.

For the list of results the invariant is `ListInv`: its type, `PagesInv` and
`FilterShown`. `PagesInv` says that the cards are those from the offset on,
whatever results came meanwhile, and that, unless the two have lost each other
(`moved`), the offset of a highlighted page that there is begins that page. Beyond
the pages it is a remainder, which may be negative. That such an offset lies
between the ends of the list (`RemainderProperties`) bounds the cards of a page
(`SliceProperties`); that a page of the pagination begins before the last row
(`PageWithin`) makes the remainder the product that `HighlightedPageShown` speaks
of. `CardsOfResults` follows from the first part of `PagesInv`, also where the
pagination shows another page. `FilterShown` is inductive, as every toggle and
every search filters anew from all rows; its lemmas say that `Filter` keeps the
elements in the given places, no others, and their order (`PlaceOrder`,
`PlaceOnto`, `FilterProperties`), and that two filters in a row do
(`FollowsAgain`, `FilteredProperties`).

### What stays with TLC

* Liveness under fairness: `EveryRequestStartsWhileArmed`, `ChecksRecover`,
  `SilenceEnds`, `EveryCallEnds`, `NoticeGoesAway`. The prover has no ENABLED.
* That the order statistics `ByAge`, `Newest`, `NewestFirst` and `InOrder` are
  what SQL and JavaScript compute is read off the code; the lemmas above say that
  they sort and select as those do.

`ConcurrencyBound`, `SomebodyServes`, `OneGreeting` and `AnswersFinal` are proved and
not part of a run; `RescansBounded` is part of one as the bound of `CallService`.

## 5. Disagreements found

* `restart_worker` has no lock (`main.py:29-35`). If a failing worker has
  created its successor and not yet started it when the auto-restart thread
  joins the global `worker`, that thread dies of a RuntimeError, its pill
  remains, and the workers end one after the other; a request that was answered
  with "Checks have been scheduled" is never run. `rescan_stranded` is the trace.
* The upsert of `oig.producer` writes an `active` that was read minutes before
  (`producers.py:134`, `db_connect.py:173`), so a guild that the OIG retires
  meanwhile is active again (`docs/admin.md:27`). `check_lost_update` is the trace.

The models are written from the code, so they contain what else it does that a
reader may not expect. No run is needed to see these, some of them against a
document or a comment:

* The bare `except` of `producer_chain_list` (`producers.py:136`), meant for a guild
  that is new (its comment), makes a guild active whose status could not be read, so
  that an error of the database during the import of the producers re-activates a
  retired guild (`docs/admin.md:27`). `RetiredNotChecked` excludes it by `misread`.
* Checks run every three hours and not every two (`docs/index.md:13`): what is
  stored after a full hour is not yet two hours old two hours later
  (`start.py:50`).
* One node without `node_type` in one `wax.json` ends the full run of all guilds
  (`nodes.py:64`), again and again, after `oig.nodes` was deleted.
* Ten re-scans within two hours make cron skip the full run (`db_connect.py:108`),
  and with fewer than ten rows in `oig.results` `lastCheck` raises an IndexError,
  so on a new database no run ever fills the table (`start.py:46`).
* A peer that sends something every few seconds, as nodes do to measure their
  clocks, holds the check of the seed node for ever unless its handshake comes at
  the beginning of what a `recv()` returns (`p2p.py:33`).
* These end the run of all guilds: a guild whose API has no https URL
  (`api.py:115`), or takes HTTPS and no second connection by IPv4 within five
  seconds (`core.py:92`); HTML with status 200, or "actions": null, from a history
  node (`history.py:181, 187`); a malformed seed node address; a database that takes
  no connection (`db_connect.py:312`); a re-scan of a guild that `oig.producer` does
  not have (`cpu.py:56`).
* The unique index of `oig.nodes` lacks `net` (`db_connect.py:195`): a testnet node
  equal to one of mainnet in the other columns is never stored as such.
* Nothing looks at `min_requirements` of the point system, or at 1000 points
  (`score.py:9-18`, `docs/index.md:16`).
* `hyperionindexedBlocks` passes a node that does not report missing blocks as long
  as it has not indexed fewer blocks than its last one (`eosio.py:281`), where
  `docs/technicalchecks.md` says that the two numbers match.
* `api_security` takes every answer with a good status for an open API, whether
  or not it is JSON (`api.py:80`).
* A login that was refused still shows the user as logged in (`Header.tsx:28-31`,
  against the comment at line 75), and a tab does not notice that another one logged
  in or out.
* A list of results that stays mounted keeps its offset when the history leads from
  one guild page to another (`GuildsCheckResults.tsx:47-55`): after a guild whose
  rows fit on a page the first page is highlighted over rows far down the list.
* The charts of the guild before stay under the new address, for ever if the rows of
  the new guild fail to come (`GuildDetails.tsx:71`).
* Without any latest results, as on a new database, the home page breaks
  (`GuildsCheckResults.tsx:120`).
* One click may queue up to nine checks, three for each of ky's three attempts,
  where answers get lost (`server.js:178`, `api.ts:22`).
* `tls_check` is compared with 'TLS v1.2' for the averages (`pgquery.js:164`), while
  Python writes 'TLSv1.2' (`core.py:119`), so that this average is always 0, and not
  that of the column below it (`docs/guild.md:6`).
* An error of the block service is shown as a range without empty blocks
  (`EmptyBlocks.tsx:77-81`).

What the code gets right is as much a result: overlapping refreshes never leave
a hole in `oig.nodes`, since every row is inserted by the refresh that deleted
last or after it; restarts never touch the order of requests; failed runs do
not count for `lastCheck`; however TCP cuts the stream of a peer, no guild passes
without a handshake that deserves it; dead, slow and lagging nodes cost their own
guild's points and nothing else, unless they die between two connections of one
check; no answer of the database reaches a handler that
did not ask for it; every notification goes away; wherever the keyboard leads the
pagination of one guild, the highlighted page is the one that is shown.

## 6. Not modelled

* The retries over random nodes (`eosio.py:115-170, 338-434`) as such: loops of one
  process that read nothing another actor changes. That they take any time before
  `main` is the import of `Cadence`, that they may never end is why nothing assumes
  the end of `start.main`.
* What `delphi.py`, `cpu.py` and `chainjson.py` compute: data of the whole network
  against one guild, without state.
* The bytes of the P2P messages (`serial_buffer.py`), apart from whether a message
  is whole.
* `oig.results` in one piece: the backend reads it back in `lastCheck` only
  (`Cadence`), the portal in two queries (`PortalPages`).
* That overlapping refreshes may leave a row of `oig.nodes` twice (its unique
  index contains a column that is NULL for some): `nodes` is a set. What the upsert
  changes in a row it takes for another one: only which rows there are is modelled.
* The columns of cards and averages (`GuildCard.tsx`, `AvgResults.tsx`): constant
  lists, which no step changes.
* Query functions of `pgquery.js` that no route uses (95-116, 138-150, 273-300).
* Components that only render: charts, icons (about 1,260 lines), footer, badges,
  `Services.tsx`, `Producers.tsx`; dates as text; styles; types.
* Telegram dates (`start.py:330` switches them off), `printOuput`, Notion, the
  scripts in `old/`, deployment: dead code, output or without state.
* Code that is not of this program: the search library of the generated site
  (`wordcut.js`, `tinyseg.js`), the mock service worker. With the icons these are
  two thirds of all JavaScript and TypeScript in the repository; the models cover
  the server and the stateful components of the rest.

## 7. Plan

Done: the models and runs of all parts that keep state, the abstract
specifications of the re-scan service and of the server, and the proofs of every
invariant and action property of the runs and of both refinements. What is left, in
this order:

1. An abstract specification of the tables: a refresh as one step that makes
   `oig.nodes` what the guilds list, which `CheckRun` without outages implements
   once no refresh goes on. `NothingMissed` and `NothingUnwanted` are
   what its refinement needs.
2. The path of a re-scan as one specification, `CallService` beside
   `RequestService`: which click a check run that starts belongs to, and that no
   click starts more of them than `MaxRescans`.
