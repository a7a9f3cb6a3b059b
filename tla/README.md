# Sanctum Router: specification and proofs

Sanctum Router is an OpenAI-compatible proxy: one asyncio process (FastAPI, `--workers 1`)
that takes `/v1/*` requests, chooses among configured providers, fails over from one to
the next, and is administered over `/admin/*`. Its configuration is in SQLite; health and
credit of the providers are maps in memory, written by two background tasks and by failing
requests. This directory holds TLA+ models of it, the instances TLC checks and the
theorems TLAPS proves. Paths below are relative to `src/`.

## 1. The system

| component | state | operations | talks to |
|---|---|---|---|
| request path, `router/proxy.py`, `router/adapters/` | locals of `_try_candidates`, one set per request | `POST /v1/chat/completions`, `/v1/embeddings` | routing engine, database, upstream over HTTP |
| routing engine, `router/routing_engine.py` | none | `resolve_candidates`, `mark_provider_unhealthy` | reads tables and maps |
| admin API, `router/admin.py` | none | create, update, delete a provider, override, routing config, read-only views | database |
| database, `router/db.py` | six SQLite tables, survive the process | one transaction per function | |
| bootstrap, `router/bootstrap.py` | none | seed an empty table from YAML at start | database |
| health loop, `router/credit_health.py` | `_health_healthy`, the round under way | probe each provider, every 60 s | database, endpoints |
| credit loop, `router/credit_health.py`, `router/monitors/` | `_credit_state`, `fail_count` (a local), the round under way | read each balance, every 300 s | database, billing API |
| lifespan, `router/main.py` | the two tasks, the shared HTTP client | start, shutdown | all of the above |
| authentication, `router/auth.py` | two environment variables, read once | who may ask, and for which session | |
| encryption, `router/crypto_utils.py` | one environment variable, read at each use | encrypt, decrypt an API key | |
| CLI and SMCP plugin | none | one HTTP request per command | admin API |

What interleaves. There is one event loop and no thread, so code runs undisturbed from one
`await` to the next. The awaits that matter are three: the upstream call in
`_try_candidates`, the probe in `run_health_check`, and the monitor's reading in
`run_credit_loop`. Around each of them everything else may happen: other requests, admin
writes, both loops, the shutdown. Admin handlers do not await between their transactions, so
they are atomic to every other task; a crash, however, can come between two of their commits.

What makes each component correct:

- *request path*: a request is sent to each candidate at most once, passes over one only when
  it has been deleted, is refused only when nobody is left, and ends; the status a client
  gets is explained by the calls made for it; its answer arrives readable;
- *request path and health loop together*: a mark and a refusal have a cause;
- *health loop*: no innocent provider is marked; the map settles on the truth; everybody is
  probed;
- *credit loop*: a failing billing API does not disturb what is known; verdicts settle on
  the truth; an unknown balance excludes nobody;
- *tables*: every listed provider has a rank, nothing refers to what is gone, an order
  that was PUT stays in force, and a provider is sent the API key last given for it;
- *bootstrap*: a first run comes up with all the seeds;
- *lifespan*: a shutdown ends and leaves nothing running or open;
- *sessions*: what an agent selects is what its requests are pinned to.

The file `PROJECT.json` lists, under `hazards`, where in the code each of these can go wrong and
which property watches it.

## 2. Modules

| module | models | state and actions |
|---|---|---|
| `ProviderTables` | the tables of `db.py`, `_provider_order` | operators only: `Upsert`, `Remove`, `Routed`, `SortKey`, `Listings` |
| `RoutingEngine` | `routing_engine.py` | operators only, named after the functions |
| `Auth` | `auth.py` | operators only, named after the functions |
| `Proxy` | `proxy.py`, with the admin API, the loops and restarts as its surroundings | below |
| `Failover` | what the router promises a client; abstract, no code | `Arrive`, `Reject`, `Fail`, `Serve`, `Break` per request, `Administer` of the known providers, `Die` |
| `HealthLoop` | `run_health_loop`, `run_health_check`, `_check_health` | below |
| `Router` | `Proxy` composed with `HealthLoop` | below |
| `CreditLoop` | `run_credit_loop`, `set_credit_state`, the monitors | below |
| `ConfigStore` | `db.py`, the writing handlers of `admin.py`, `bootstrap.py`, `crypto_utils.py` | below |
| `Lifespan` | `lifespan` of `main.py` and how the loops take a cancellation | below |
| `AgentControl` | `select_provider` of the plugin, the CLI, `post_override`, the agent's requests | below |
| `Delivery` | an answer's body and headers on the way back | below |
| `MC...` | instances for TLC | values of the constants, and the count of outside events |
| `TableProofs`, `...Proofs` | theorems | section 4 |

**Proxy.** `providers`, `priority`, `override` are the tables (functions from ids), `healthy`
and `below` the two maps as the routing engine reads them, with the default written out. Of
each request the locals of `_try_candidates` are kept: `cands`, `chosen`, the position `at`,
`lastError`; `pc` is `"new"`, `"calling"` (in the await), `"answered"` or `"lost"`; `reply` is what the
handler returns; `calls` is a history variable. `Reject` is what comes before: the 401 of the
dependency, the 400 for what is no JSON, the 500 for JSON that is no object. `ResolveRaises` is the 500 of a resolution
that meets a row whose `models` is a JSON scalar. `Receive` is the handler up to its first await
(resolution, the `no_provider` answer, the first candidate still in the table); `UpstreamOk`,
`UpstreamFail` and `UpstreamRaise` are the three ways out of the await (below 400; 400 and more, with
504 and 502 for timeout and connection error; an exception the adapter does not map), each with
the rest of the loop to the next await or the return. The admin actions bear the handlers' names
and are atomic; `set_healthy` and `set_credit_state` write any verdict at any time, a superset of
what the two loops write; `Restart` loses the maps and the requests in flight. Candidates of equal
rank may be listed in any order: neither query has a tie-breaking `ORDER BY`. Requests for chat and
embeddings differ in their needs only. Who asks is one of `Sender`: a bearer token, an `X-API-Key` and
a session header, each possibly absent; `Auth` turns that into a yes or no and into a session. A digest
is told by the token it is made of, and a header that repeats a digest names the session of that token, as in the code.

**HealthLoop.** `todo` is what is left of the round's snapshot, its head the provider being probed,
each entry with the endpoint and key that were read (`Target`); `wire` holds the answer between the
endpoint and the task, so that everything may happen between
the two. `Continue` is the step of the `for` statement: a probe that raises a `ValueError` ends the round,
one that raises `httpx.InvalidURL` the task. `SnapshotFails` is the table that cannot be read: a `sqlite3.Error` kills the task, an
`OSError` skips the round. `blamed` is history: who answered badly, at its row's target or at
one that a running round still names, or failed a request.

**Router.** `Proxy` and `HealthLoop` in one process, joined in the two places where the code joins them: the
providers table (`Create`, `Patch`, `Delete` are one handler seen from both sides) and the map `_health_healthy`,
which is one variable, written by failing requests (`FailOver`) and by the loop (`Checking`). What `Proxy` alone
allows, any report at any time, is here a report that a probe has brought. Credit reports stay free.

**CreditLoop.** The same shape as the health loop. Each entry of the snapshot carries the type, the API key and the threshold
read with it, and the monitor asks for the account of that key (`funds`), whatever the row holds by then. `Read` is what
`VeniceMonitor` makes of an answer, with Python's `or` between its fields: a 0 is taken for a missing field, so an answer that says
a plain 0 is an unknown balance (section 5). `poor` is history: the providers whose account did read below the threshold while their row or a running
round named both. `ImportMonitors` is the task's first step; whether it succeeds is the constant
`MonitorsLoad`. In the commit modelled it does *not*: `monitors/venice.py:59` opens a parenthesis that is never
closed, the import raises a `SyntaxError`, and the task dies. The run `credit_import` shows that; the run
`credit_loop` checks the loop as written, with the import working. In `Proxy`, credit verdicts may
come at any time, which includes their never coming.

**ConfigStore.** `job` is the list of transactions the running handler, or the bootstrap, has still to
commit. A handler's action decides the list; the actions named after functions of `db.py` commit its
head; `Crash` drops it; `Boot` starts the process over the tables left, with one
encryption key, another or none, and seeds an empty table. An API key is stored as a token that names the key it
was encrypted with; only that one opens it. The admin actions of `Proxy` are the jobs of this module carried out at once.
That this is right is the refinement `HandlersAreSteps`: `Atomic` is `Proxy` without requests, over the tables
as the job under way will leave them (`providersSoon`, `prioritySoon`, `overrideSoon`). The first transaction of a handler is then
the abstract step and the others change nothing; an order counts as written when its handler begins, a creation when its row is. The
bootstrap creates one provider after the other. Only `Torn`, a death in the middle of a handler or of a seed, is no step of `Proxy`. History: `cut` (ids whose creation a crash cut in
two), `ghosts` (ids named without a row), `asked` (the last order PUT), `given` (the last API key accepted), `ran`.

**Lifespan.** `main` is where the coroutine stands, `task` how each of the two tasks does, `rest` how many providers its
round has still to ask, `asked` whether `cancel()` was called. A cancellation is raised where the task awaits, at its
next step; `Dies` is what no `try` of the loop catches, for the loops in `Lethal`: an error of the database at the
start of a round, a malformed endpoint at the next probe, the import of the monitors. The open client of a start that failed half way
(`StartsUnmonitored`) does not exist: making it is the only step that can fail.

**AgentControl.** One tool call of an agent is `select_provider` (the plugin starts the client), `post_override` (the router
handles its request), `Returns` (the plugin hands over what was printed) or `Fails`. `picked` is what the agent was
told. The sessions are those `Auth` computes from what the client and the agent's inference requests really send.

**Delivery.** One answer, in the four hands it passes through. A body is which bytes (the upstream's or the rendered
ones), compressed or not, of a length that `Size` gives; of the headers, the three that say how to read it.

## 3. What TLC checks

| run | shows | bounds |
|---|---|---|
| `proxy_failover` | `TypeOK`, `LoopInv`, `ReplyExplained`, `CallOnce`, `NoneSkipped`, `CallsEnd` | 2 requests, one without the key, 3 alike providers and a row that cannot be searched, any start tables, 2 outside events |
| `router` | `RefusedForCause`, and `Router` implements `Failover` | 2 requests, 2 providers, rows and needs that differ, any one outside event, then one deletion or creation |
| `health_loop` | `TypeOK`, `NotSlandered`, `Converges`, `EachProbed` | 2 providers, 3 targets (one malformed), good and absent answers, 3 events |
| `credit_loop` | `TypeOK`, `ExcludedForCause`, `LastKnownGood`, `Settles` | 2 providers, 2 API keys, accounts that answer a plain 0, 0 and then 1, or 2, no threshold or 2, 2 events |
| `store_tables` | `TypeOK`, `RankedUnlessCut`, `NoOrphans`, `OrderKept`, `KeyKept`, `SeededInOrder`; `ConfigStore` implements the tables of `Proxy`, deaths in mid-handler aside (`HandlersAreSteps`) | 2 providers, seeds of ranks 1 and 2, rank 1 for an operator, orders up to 2 ids, 2 API keys, 2 encryption keys, unbounded requests and crashes |
| `lifespan` | `TypeOK`, `ClosedUnused`, `NothingLeftBehind`, `ShutdownEnds` | 6 providers |
| `proxy_override_forced` | violated: an honoured override is not used (`proxy.py:83`) | |
| `health_poison` | violated: one bad API key ends every round (`credit_health.py:272`) | |
| `credit_import` | violated: no credit is ever read (`monitors/venice.py:60`) | |
| `store_seeded_whole` | violated: a seeding that stopped half way is never finished (`bootstrap.py:19`, `:38`) | |
| `agent_selection` | violated: a selection made through the plugin pins nobody's requests (`cli.py:31`) | 1 agent |
| `delivery` | violated: an answer is sent under the headers of other bytes (`adapters/openai_compatible.py:89`) | 1 answer |

*Bounds.* What happens around a request or a round (admin writes, reports, restarts) is bounded by
`MaxEvents`, counted in the MC modules. Proxy starts from every database, so one event is enough to change
what a request has resolved, and two for a deletion followed by a creation, or a write
followed by a restart. Three alike providers make a list whose middle can disappear; two requests
suffice to let one's failure mark what the other has listed. In the health loop three events make a move to another endpoint, its
failure and a mark, each at any point of a round. In the credit loop two events make two failures, a success
and another failure; the three answers are an account whose 0 reads as unknown, one that is low by its second field, and one that stands at the threshold. `MaxOrder`, `Rank`, `Status`, `Response` and `ApiKeys` are the other bounds: the
code distinguishes no more of them than below 400, 502, 504 and the rest, or good and bad. `store_tables` has no
bound on events: ranks, ids and keys are finite and so is the state space. One rank for operators is enough: a PATCH to it changes
the seed of rank 2, and an order writes the positions 0 and 1.

*Deadlock.* The two runs of `MCProxy` do not check it: clients need not send and operators need not write, so
the system may rest. Nor do the loops' runs with `StoreFails`: a dead task is a legal end. Nor do `lifespan` and `delivery`,
which come to an end, or `credit_import`, whose task is dead. The other runs check it.

*Fairness.* Weak fairness, of what the code itself drives only: an upstream call, a probe or a
reading ends because httpx gives each read a timeout (60 s, 10 s, 30 s); the interval passes; the
event loop comes round to a task that can run; a handler runs to its end. A server that sends a byte within every
timeout for ever is outside this assumption. Nothing is assumed of clients, operators, accounts, crashes or of the
server's being stopped.
`Converges`, `Settles` and `EachProbed` say what happens while the task lives, for `sqlite3.Error` kills it.

*Mutants.* Next to a definition stand variants of it named `<definition>_<fault>`, each a plausible bug that
one of the properties detects. They are not part of any specification.

## 4. What TLAPS proves

Every safety property of the passing runs is a theorem, for any finite set of providers, any number of requests, rows, ranks,
names, statuses, keys, amounts and targets, without any bound on events, and orders of any length. Each proof module has the same
layout: the inductive invariant in named parts, a lemma for `Init`, one for `Next` with one step per action, then the
theorems. `TableProofs` has the lemmas about tables and lists that several of them need, and two about numbers, `Least` and `Greatest`,
which take the place of an induction where one is wanted: a minimal counterexample by well-foundedness of `<`.

| module | theorems | inductive invariant, and what its parts are for |
|---|---|---|
| `ProxyProofs` | `TypeCorrect`, `LoopStands`, `RepliesExplained`, `CalledOnce`, `SkipsOnlyDeleted`, `BestFirst`, `FirstHasItsTurn`, `ForcedUnpinned`, `ProxyKeepsPromise` | `TypeOK /\ LoopInv /\ ReplyExplained`. That a failing request's answer is explained needs to know where the loop stands (`LoopInv`); the two actions that run the loop share the lemma about `TryFrom`. No provider is called twice because a list has no repetitions and calls stand at or before the position. Who is called first rests on `ReceiveCallsHead`: nobody is deleted between resolution and the first call. `BestFirst`: it is a fit provider that no other fit one precedes; `FirstHasItsTurn`: whoever else is called, that one has been; `ForcedUnpinned`: `OverrideForced` holds while no sender of a request has a pin. |
| `HealthLoopProofs` | `TypeCorrect`, `NobodySlandered`, `SettledStays`, `RoundSettles` | `TypeOK /\ NotSlandered /\ Recorded`: whoever a probe could find bad now is on record already, and so is the provider a bad answer is on its way for. The last two are the safety half of `Converges`, about the steps from which the outside is absent: what is under way for a provider is `Aligned` with its row and endpoint from the beginning of a round, a round in peace keeps `Covered` (aligned, and the flag right or the provider still to be probed), and the flag, once right, stays so. `RoundSettles` assumes that no target raises, which `health_poison` shows to be needed. |
| `CreditLoopProofs` | `TypeCorrect`, `NobodyExcludedWithoutCause`, `ZeroExcludesNobody`, `KnownStaysKnown`, `SettledStays`, `RoundSettles`, `NobodyExcluded` | `TypeOK`; `fail_count` is the number of failures in a row: the count that the code keeps, through deletions and creations, is the one the property speaks of; and `ExcludedForCause` with `Recorded`: whoever a reading could find wanting now is on record, and so is the provider a low reading is on its way for. `ZeroExcludesNobody` is the other side of it: nobody is on record while every account is dry and says so with a plain 0. The safety half of `Settles` goes as in the health loop, about what is *read* of an account; a balance that cannot be read takes `N` rounds, and only that it settles at all is left to the run. `NobodyExcluded` is about the code as it stands, whose monitors cannot be imported. |
| `ConfigStoreProofs` | `TypeCorrect`, `UnrankedOnlyByCrash`, `NothingOrphaned`, `LastKeyKept`, `OrderStaysInForce`, `SeedsInOrder`, `SeededWholeUnlessCut`, `HandlersRefine` | What is stored is only right together with what is still to be committed: `Paired` (an insert is followed by its rank), `Ranked`, `Alone` (a deletion is a job of its own), `Sourced` (what a job names exists or is a ghost), `Keyed` (a row's token is the last one given, or about to be). For the order, a second invariant `Ordered`: its first `m` positions are written, and the others stand in the job as a window in which nothing else writes. For the seeds a third, `BootInv`: while the process boots, `n` seeds are stored and the job is the rest of the file (`Booting`), and before it has ever been up the tables hold what starts that failed have left (`NotYet`). For the refinement, `Headed`: a handler's job begins with its one transaction that is not a rank, conditions or the strategy. `HandlersRefine` has a lemma per handler for its beginning (`CreateIsStep`, ... `OrderIsStep`, where the last position at which an id is listed is the `Greatest` of a set), `PriorityKept` and `RowsKept` for the transactions after it, `BootSimulates` and `ProcessSimulates` for the rest. `SeededWholeUnlessCut`: of a first run that misses seeds, a start cut short is the only cause. |
| `LifespanProofs` | `TypeCorrect`, `ClosedAfterUse`, `CleanShutdown`, `NeverRaised`, `AwaitedOnlyEnds` | `Stage`: for each place of the coroutine, the client and both tasks; `Mortal`: only what can die is dead. `NeverRaised`: where nothing can kill a loop, every shutdown is clean. `AwaitedOnlyEnds`, the safety half of `ShutdownEnds`, adds `Asked`: lifespan waits for a live task only after cancelling it, so that the task can do nothing but end. |
| `RouterProofs` | `RouterInvariance`, `RefusalsHaveCause`, `RouterKeepsPromise` | The invariants of the two halves, instantiated, and the table they share. Each action of `Router` is one of `Proxy` and one of `HealthLoop`, or leaves a half as it is; so both specifications are implemented and the theorems of both carry over. |
| `InterfaceProofs` | `SelectionOfOne`, `ReadableIfFits` | What holds of the properties that `agent_selection` and `delivery` violate. With one agent, one key for both interfaces and no session header, the selection takes effect. An answer arrives readable if and only if it `Fits`: it is an error, or it was not compressed and is streamed, chunked, or rendered to its old length. `Held` says, stage by stage, whose headers stand over which body. |

`ProxyKeepsPromise` is the refinement of `Failover` by the mapping at the end of `Proxy` (`phase`, `current`, `left`); each
action maps to one abstract action or to a stutter. `HandlersRefine` is that of `Proxy`'s tables by the mapping at the end of `ConfigStore`. What
`Torn` can leave, a creation or a PATCH without its rank or the head of an order, is no one step of `Proxy` where the handler is. The first
`Proxy` covers by its `Init`, which ranks any subset of the providers, and the last as the PUT of a shorter order; a PATCH cut short
is left to `ConfigStore`.

The assumptions used are the named `ASSUME`s of the modules: `None` is no id, the set of providers is
finite, the aliases lead to names, rows, senders and statuses have their types, 502 and 504 are among the statuses, the YAML file names no
provider twice (it is a mapping). TLC evaluates them in the runs. Left to TLC is all liveness (`CallsEnd`, `Converges`, `EachProbed`, `Settles`,
`ShutdownEnds`), which is beyond the prover: of `Converges`, `Settles` and `ShutdownEnds` the theorems named above prove what a step may do, and
the runs that the steps come.

## 5. What the code does and a document says otherwise

The violation runs above are the disagreements chosen to be run. Others were met while reading and
have no run:

- all candidates fail: the client gets the last upstream's status, 400 say, where `docs/plan.md:185`
  promises 502 or 503 (`proxy.py:104`; `ReplyExplained` states what holds);
- every status of 400 or more, a client's own 400 included, marks the provider unhealthy for all clients
  (`proxy.py:92`), though `routing_engine.py:141` says "On timeout/5xx";
- a request for an alias is answered with the canonical id in `model` (`proxy.py:100`), where `docs/plan.md:149` wants the requested one;
- a capability withdrawn by a PATCH while an earlier candidate is being called is not looked at again (`proxy.py:85`), where
  `docs/PRD.md:107` says "**must** route only to providers with `supports_tools=true`";
- a stream is buffered whole before the first byte goes out (`openai_compatible.py:76`); `docs/plan.md:161` says not to;
- an `X-API-Key` opens `/admin/*` and does not count for the session (`auth.py:82`): the override of such a caller pins the session of nobody,
  even where the two keys are the same;
- a 401 has the body `{"detail": {"error": ...}}`, `HTTPException` wrapping it, and not the OpenAI shape `auth.py:4` names;
- two agents that share a key and send no header share a session, and so each other's selection (`auth.py:85`);
- an account that has run dry excludes nobody when the billing API says so with a plain 0: `or` takes the 0 for a missing field and the balance for
  unknown (`monitors/venice.py:52`, and `:50`, `:60`, `:66`), which even lifts the exclusion of its last positive reading, where `docs/PRD.md:349` has the router flip
  when "Venice credits exhaust" (`Settles` speaks of what is read; the theorem `ZeroExcludesNobody` proves the defect for every threshold). It has no run: before it comes that the
  module cannot be imported, which `credit_import` shows;
- the balance is forgotten at the third failed reading, and with it an exclusion lifted, where `docs/PRD_PROVIDER_MONITOR_ADAPTERS.md:161` has the state
  unchanged (`credit_health.py:242`; `LastKnownGood` and, for a billing API that is gone, `Settles` state what holds);
- a crash between the two transactions of a creation leaves a provider that is listed, never routed to, and cannot be created again (`admin.py:101`), and one
  in the middle of a `PUT` of an order leaves its head mixed with the old ranks (`admin.py:275`); no document speaks of either, and the properties exempt them (`cut`, `Torn`);
- one row whose `models` is a JSON `null`, number or `true` makes every request a 500 (`routing_engine.py:67` is outside of the `try`), whichever model it asks for;
- a session header that repeats the digest of another caller's token is in that caller's session (`auth.py:79`);
- an operator who has deleted all providers gets the seeds back at the next start, though
  `bootstrap.py:2` says "on first run";
- a PATCH with an empty API key, or an empty provider type, answers `updated` and changes nothing (`admin.py:144`, `:152`; `db.py:197` takes `None` for
  a column not given);
- `GET /admin/routing-config` lists every id that has a rank, providers or not, though `admin.py:240` calls it the
  effective order;
- a malformed endpoint kills the health task (`credit_health.py:272`), and nobody starts it again;
- `failover_conditions` and `routing_config` are stored and never read by the routing engine;
- the client's `providers add` prints `data.get("id")` of an answer `{ok, provider}`, that is nothing (`cli.py:100`), and makes of
  `--priority 0` a 1; a `--failover` that is not JSON replaces all conditions by none (`cli.py:132`).

## 6. Not modelled

The YAML file (the constant `Seed`), the read-only endpoints, the commands of the CLI and tools of the plugin other than
`select_provider` (one HTTP request each, printed; no state). Of the modelled
parts: errors of SQLite in request handlers (a 500 without a change), log and error texts, and the headers `X-Router-*` and
`openai-*`. `model_aliases` has no writer but the tests, and is a constant.
The several URLs the Venice monitor tries are one reading.

## 7. Where it may go on

1. `CreditLoop` in `Router`, as `HealthLoop` is there now: `RefusedForCause` would then name a balance instead of the flag `below`.
2. `GET /admin/routing-config` and `GET /v1/models` against what the routing engine would do with the same tables.
