# A verification development for CrawlLama

TLA+ models of the parts of CrawlLama whose correctness depends on order, concurrency and failure, TLC
configurations that check them on small instances, and TLAPS proofs of the main results for every
instance. All paths are relative to `src/`.

| question | where to look |
|---|---|
| which part of the program is in which module | [Modules and code](#3-modules-and-code) |
| what was found to hold | [Runs](#4-runs) and [Proofs](#5-proofs) |
| where the code disagrees with its documents | [Findings](#6-findings) |
| what is not covered | [Not modelled](#7-not-modelled) and [Plan](#8-plan) |

To check: `tlc -config <X>.cfg <module>` for each row of the table of runs, `tlapm <module>` for each
`*_proofs.tla`. `PROJECT.json` holds the same lists in a form for tools: components, runs, the mutants that
show that each property can fail, the source lines each definition stands for, findings, hazards, theorems.

## 1. Inventory

CrawlLama answers questions with a local or remote language model, web search and OSINT look-ups. Two
programs share the core: the command line (`main.py`, `cli/`), one thread for queries and one for the health
monitor, and the API server (`app.py`, `api/`), where `async` endpoints run on the event loop and the
agents' blocking calls in worker threads (`asyncio.to_thread`); several server processes may share one Redis. The
arena and the test dashboard are programs of their own. State that outlives a process is in files under `data/`.

| component | state it keeps | operations | hard behaviour | what makes it correct | model |
|---|---|---|---|---|---|
| **Multi-hop agent** `core/langgraph_agent.py` | `ReasoningState` per query | `query`; nodes router … critique | loop through the critique; node that raises | bounded searches and calls; the answer knows the last search | `MultiHop` |
| **Adaptive hopping** `core/adaptive_*.py` | strategy, attempt, history per query | `process_query` | load changes between decisions; failing agent | escalation climbs and ends; response and report belong together | `AdaptiveQuery` |
| **Search agent, session** `core/agent/` | history, results, pages, `session.json` | `query`, `save`, `load`, `clear_*` | worker threads share a session; keys change their type over JSON; partial clear | what is cleared stays cleared; what is at rest is saved | `Session` |
| **Flows of the agent** `core/agent/*_flow.py` | – (work on session, store, cache) | route, refuse, look up, remember, search, load a page | answers of commands are cached; results of another question | a look-up is audited; what was found is shown | `OsintQueries`, `SearchAnswers` |
| **Memory store** `core/memory/` | lists per category, `memory.json`, temp file | `remember_*`, `forget_*`, `clear_*`, `_save`, `_load` | two objects over one file, no lock, crash | readable file, no loss, no duplicates, quotas | `MemoryStore` |
| **Cache** `core/cache.py` | LRU in RAM, a file per key | `get`, `set`, limit, `clear`, `clear_expired` | no lock, two tiers, expiry, crash | nothing stale, tiers agree, limits hold | `Cache` |
| **Model clients, windows** `core/llm_client.py`, `cloud_llm_client.py`, `context_manager.py` | time stamps of requests | `generate`; budgets, packing, truncation | limiter without a lock under nested retries; two computations of one budget | requests per minute; the question arrives | `LlmCalls`, `ContextBudget` |
| **OSINT** `core/osint/`, `tools/osint_tool.py` | terms, audit lines, breach data; robots rules | analyses of domain, company, email, IP, user name | process-wide socket time-out; Tor must hold for all | audited and accepted first; nothing past Tor or robots.txt | `OsintQueries`, `Lookups` |
| **Tools** `tools/` | collection of documents (RAG) | web search with providers, document store | fallbacks, partial batches | the wanted site is shown; nothing told as stored is lost | `SearchAnswers`, `RagStore` |
| **Limits, fetching, pools** `utils/`, `api/dependencies.py` | buckets, windows, breaker, last requests | take a token, fetch, parallel search | read and write in two pipelines; Redis ↔ RAM; tasks that hang | bounded overspend; callers return | `RedisLimiter`, `RequestWindows`, `SafeFetch`, `ParallelSearch` |
| **Keys, roles, tokens, audit log** `core/*_manager.py`, `audit_logger.py` | Redis with a file or dictionaries beside it | issue, validate, rotate, revoke, search | Redis fails and returns between two calls | revoked stays revoked; the latest role; one line per request | `Credentials`, `AccessStores`, `ApiRequests` |
| **API** `app.py`, `api/` | runtime components, `config.json` | startup, middlewares, endpoints, `PATCH /config` | worker threads, kill | components that exist are found; confirmed settings stay | `ApiServer`, `ApiRequests` |
| **Plugins, loaders, registry** `core/plugin_manager.py`, `unified_loader.py` | list, module cache, instances | load, unload, reload | every function of a plugin may raise, over two caches | listed means running | `PluginLoading` |
| **Health, alerts, tests** `core/health/` | metrics, timings, alerts; results of a run | sample, record, check rules; start, stop, clear | statistics deleted under a lock and read without; stop and start next to the end of a run | trouble seen is alerted; over means over | `HealthMonitor`, `TestDashboard`, `MemoryMonitor` |
| **Arena** `arena/` | run directories, `index.jsonl` | write, delete, rebuild, retention | power failure between rename, marker and index | complete means whole; the index tells the truth | `ArenaRuns` |
| **Command line** `main.py`, `cli/` | one dictionary of settings, its file, three agents | start and its checks, menus, commands, restart, sweep and Tor at the start | menus change what the agents share, an agent may fail to be made, others write the file | agents of one making, settings as in the file | `CommandLine`; steps of `Cache`, `Session`, `MemoryStore`, `Lookups` |
| **Robustness, hallucination checks, helpers** | verdicts, health results | retry, verify, text functions | time-out that waits | – | parts, section 7 |

How they work together, as far as order matters:

* a query of the API goes through the middlewares (log, shared limiter, audit, CSRF, headers, CORS) and the
  dependencies of its route (key, window), to `api/routers/query.py` → worker thread → `SearchAgent.query` (store what the message tells,
  cache look-up, routing to OSINT, memory, tools or model, `record_history`, cache store, session save), or → `AdaptiveQueryProcessor.process_query`
  → one of the agents → perhaps the other;
* `remember …` in a query reaches the singleton store from a worker thread, `POST /memory/…` reaches
  `runtime.memory_store` on the event loop, and the monitor reloads the singleton from its own thread;
* persistent files are written as temp file and rename, mostly without a lock and under one fixed temp name (`config.json` has a
  lock, the terms of OSINT are written in place);
* server processes meet in Redis: keys, roles, tokens and buckets, each with a fallback that the others do not see.

## 2. What is hard here

`PROJECT.json` lists 40 hazards, each at the line where it bites, with the properties that would catch it; one has
none (`tools_flow.py:406`: the sources under an answer may be those of another question; nothing in the repository says whether they may). They are of five sorts. *Loops steered by a model*: the reasoning graph and the
escalation go on as long as an answer is called poor. *Files shared
without locks*: memory store, cache, session, terms, arena index. *Two copies of one truth*: RAM and file, LRU and directory, Redis and RAM,
two computations of one token budget. *State of the process used as if it were local*: the default time-out of sockets, Tor's proxies, the time stamps of the model's limiter. *Partial
failure*: swallowed exceptions, nested retries, time-outs whose work goes on, operations of several steps that stop
half-way.

## 3. Modules and code

| module | of | contents |
|---|---|---|
| `ResearchBudget` | multi-hop agent | what a research query promises: bounded searches, an answer written after the last of them |
| `MultiHop` | multi-hop agent | the graph, node by node; implements `ResearchBudget` |
| `AdaptiveQuery` | adaptive hopping, over `MultiHop` | the processor, with the graph walking inside it step by step |
| `MemoryStore` | memory store | stores, file, temp file, threads; crash and restart |
| `MemoryMonitor` | monitor's reload, over `MemoryStore` | the monitor's thread |
| `Cache` | cache | managers, directory, threads; clock and restart |
| `Session` | search agent and session, with the writes of the flows to it | history, results, pages, cache as a map, `session.json`; threads, commands, restart |
| `OsintQueries` | agent's routing, OSINT flow, memory commands | a question from the message to the reply, with terms, audit, breach data |
| `SearchAnswers` | tools flow, web search, ranking, results flow | providers, second searches, limits, pages by number |
| `LlmCalls`, `ContextBudget` | model clients, context manager | limiter and retries; from a window to the prompt sent |
| `Lookups` | domain, email, IP and social intelligence, Tor mode | network steps of the analyses |
| `RagStore` | RAG tool | one collection, threads, fallback mode |
| `RedisLimiter`, `RequestWindows` | limits of the API | bucket over Redis and in RAM; windows per key and address |
| `SafeFetch`, `ParallelSearch` | fetcher, pools | throttle, robots.txt, breaker, retries; callers with a time-out |
| `Credentials`, `AccessStores` | key, role and CSRF managers | stores shared by processes, outages |
| `ApiServer`, `ApiRequests` | application | startup, endpoints, configuration; middlewares and audit log |
| `PluginLoading` | plugin manager, loader | two caches and a plugin that may raise |
| `HealthMonitor`, `TestDashboard` | `core/health` | metrics, statistics, alerts; window, thread, pool |
| `ArenaRuns` | arena store and retention | directories, marker, index; power failures |
| `CommandLine` | `main.py`, `cli/` | start, questions about the settings, saves, restart |
| `Lists` | – | what a list comprehension with a condition keeps, for the modules that have one |
| `MCServices`, `MCQueries` | – | the smaller modules side by side: they share no variable, and a behaviour runs one of them |
| `MCMemoryStore`, `MCMemoryMonitor`, `MCCache`, `MCSession` | – | who calls which store in an instance; symmetries |
| `*_proofs` | – | the theorems of section 5 |

Definitions named "Faulty variant" are plausible mistakes in the action that follows them; no specification
uses them. They exist so that each property can be seen to fail. A variable whose comment begins with "history" is not in the
code: it records what a property has to remember.

### MultiHop

One action per node of `_build_graph`; the conditional edges are `ShouldContinueSearch` and `ShouldImprove`,
evaluated in the action of the node they leave, as LangGraph does before the next node runs. What the model says is a choice:
*complete* or not, and a score that is one of `Scores` or the default of `_parse_marker_score`. Texts are left out:
an answer is known by the value of `current_step` when it was written (0 for `None`), scores are percentages.
`NodeRaises` stands for any exception in a node: model, tool, or LangGraph's own limit on the steps of one
invocation, which the code does not set. `query` turns it into a result with confidence 0. `llm_calls` counts
completed `generate` calls; the code has no such counter, it is what `MAX_HOPS_CEILING` is meant to bound. The
state belongs to one `invoke`, so that concurrent queries do not see one another; one at a time shows everything.

### AdaptiveQuery

`Receive` and `DecideStrategy` are phase 1 of `process_query`; `ExecuteFails`, `ExecuteSearchAgent`,
`ExecuteMultihop`, `WalkGraph` and `MultihopReturns` are `_execute_strategy`; `Judge` is one round of
`_run_with_escalation` with `should_escalate` and, inside it, the second call of `decide_agent_strategy`.
`LoadChanges` may happen between any two of them, because the manager asks the monitor for the latest metrics at each
decision. `SearchAgent.query` is one step with any estimate of `_estimate_confidence`. The module extends
`MultiHop`: while the processor waits in phase `"multihop"` the graph takes its own steps. As in the code,
the hops of a strategy are recorded and compared (`SameStrategy`) but not handed to the agent.

### MemoryStore and MemoryMonitor

A thread calls one store (`Home`). The steps are those at which another thread can come between: the checks of
`remember_*` or `add_note`, the append, `open` of the temp file, `json.dump`, `os.replace`. A file is a value
(`disk`, `tmp`) and a handle follows a rename: a thread that has the temp file open goes on writing into what
has become `memory.json`. A dump next to another writer may leave a mixture (`Garbled`). `SaveFails`
is an exception anywhere in `_save`, which the code logs and forgets; `Crash` ends the process between any two
steps; `Restart` is `_load`, which replaces a file it cannot read by the defaults. A category is a set of
entries with value, user and time; metadata of emails is not kept, changing it only saves. `MemoryMonitor` adds the
reload by modification time: read the time, read the file, later `self.data.update`. `clash` is a history variable: two
saves have overlapped since the file was last loaded.

### Cache

A get is: LRU, open, judge, assign to the LRU, move to the end and trim. A set is: temp file, rename, assign, move and
trim, list the directory, delete one file after the other. Clearing is: list, delete, empty the LRU. The look at the LRU
at the start of a get is one step: what can come between its three accesses only turns the hit into a `KeyError`, which
the agent treats as a miss. Time is a counter, a content is known by the time it was made, `stamp` is the timestamp the code
keeps. Files count one each towards the size limit and are ordered by the time of writing. `raced` (two operations
overlapped since the process began) and `unenforced` (a set ended before it enforced the limit) are history
variables that conditions of properties refer to. `Managers` other than `Serving` stand for the objects
commands make for themselves.

### Session

A query takes the path of `SearchAgent.query`. A hit in the response cache returns at once and leaves no trace: in the
model it is no step. Otherwise the query is *fresh* (`AskFresh`, with or without a place in the cache: context mode and an explicit search have
none) or refers to results of an earlier search (`AskAboutResults`, never cached). It searches (`Search`) or reads pages (`LoadPage`); then the
model is asked and the turn recorded, statement by statement: `AppendTurn` and `Trim` (the slice of `record_history` and its
assignment), `DeletePage` for each page beyond `MAX_CACHED_PAGES`, `StoreAnswer`, and the save in `Dump` and `Replace`, or `SaveFails`.
`QueryFails` is an exception before the answer: `query` apologises and records nothing. A model that fails in `generate_final_answer`
is no exception: the apology is an answer (`ok = FALSE`) and recorded. `ClearState`, `ClearCache`, `Unlink` are the steps of
`clear_session`, `ClearFails` its failure in either of the last two; `Load` is the command, `Restart` the end of the process and the `load_session` of the next
`SearchAgent`.

Data: a turn is its number, and so are the results of its search; a page is its key (kind and number) with an age in place of `cached_at`.
`AsStored` is what JSON makes of the keys: strings, and of two keys that become the same the one written last. `AsYoungest`
puts the integer key last, as a `dict` does with a new key; where both kinds exist the string came from the file and is older. `session.json` is a value or
`Garbled`, as in `MemoryStore`. Steps are the statements between which the code waits for files, network or model, and those of
`record_history`, which two threads can be in at once; `json.dump` is one step (what it misses of a change under its feet, the
other thread's own save brings later, and a `dict` that changes size while it is written is `SaveFails`). The memory store's part of
`clear_session` (`auto_clear_on_clear`) acts on other data and is left out, and so are two processes on one session file.

`unsaved` (a query or a save failed, so that memory is ahead of the file), `crossed` (a clear or a load overlapped something) and
`clash` (two saves overlapped) are history variables that say when a promise of the code applies; `cleared` is the latest turn at the time of the last clear.

### OsintQueries, SearchAnswers

`OsintQueries` follows one question through `SearchAgent.query`: intelligence taken from the message, the cache, the routing (refusal of
injection patterns, OSINT, memory, tools or model), compliance with terms, limit and audit line, the look-ups, and what they leave in store, session and cache.
Since `OSINTCompliance` is made per query its hourly count starts at zero each time, as in the code. The terms file is written in place: readers may see it `"empty"`.
A value stands for its kind; steps inside cache, store and session are those of their modules.
In `SearchAnswers` the three providers are tried in order with the retries of `_ddgs_with_retry`; a second search is made per wanted site that is missing, its
results are merged, ranked (any order) and cut three times. A page loaded by number enters `loaded_pages_cache` and stays there when a new search replaces the results.

### LlmCalls, ContextBudget

`LlmCalls` has the limiter as the code has it: threads read `request_timestamps`, sleep, and append, without a lock, below the retries of tenacity and of `retry_on_failure`. A sleep lasts at least
as long as asked. Cloud providers have no limiter. `ContextBudget` is arithmetic: `_compute_token_budgets`, the packing of sections by priority, `build_prompt`, and the pre-flight check of the client.
A text is its length; `Truncations` are the two lengths a cut may leave, as the cut looks for a space. Tokens are a quarter of the characters, as `TextCleaner` counts without an encoder.

### Lookups

An analysis is the list of its stages (`Stages`), each of which may fail alone; `Enter` and `Leave` of `_socket_timeout` are steps, as is the reading of a robots.txt before the page. `startup` is
Tor mode: activate, set the proxies, verify, then serve or refuse. A request that goes out is recorded in `sent` with the way it took. `overlapped` says that two blocks were open at a time.

### RagStore

Calls of worker threads on one `RAGManager`: a batch after the other, clear in two steps (delete, create), and the exception that turns on `fallback_mode`. `kept` is what callers were told
is stored and nobody removed since, `cut` that something was removed during a call.

### RedisLimiter, RequestWindows

A check of `RedisLimiter` is: time, read (first pipeline), write (second). Tokens are counted in units of 1/`Window`, so that a refill is whole. `burst` counts what Redis admitted in one second, `spent` what a process
admitted from RAM. `RequestWindows` is one step per request, since nothing awaits inside the locks: cut the list, judge, append, and above `TrackedMax` entries drop the idle.

### SafeFetch, ParallelSearch

A fetch is: breaker, robots.txt (cached), throttle (the limiter holds its lock while it sleeps; with a crawl delay each thread sleeps by itself), request with retries and redirects, download. tenacity's `RetryError` is not caught by the
handler for `RequestException`, so the breaker does not hear of it. `ParallelSearch` has the three callers with a pool and a time-out; a task may run forever.

### Credentials, AccessStores

`Credentials`: each call is split at its reads and writes of Redis (by hash, by id with the user's set) or file. `excused` are the keys for which the code gives no guarantee: a validation held the active record when they were
revoked, or Redis was down. `AccessStores`: `backend[s]` is fixed when a process starts; an assignment goes to Redis or to the dictionary of the process. `latest`, `missed`, `newest` say what Redis was told.

### ApiServer, ApiRequests

`ApiServer` is startup with any of its creations failing, the endpoints that need a component, and `PATCH /config`: validate, take the lock, change in RAM, dump, rename, answer. The value of a setting is the number of its update. `ApiRequests` is the way of a request
through the middlewares, in their order, and back to its line in the rotated log; `due` is what ought to be there.

### PluginLoading, ArenaRuns

`PluginLoading`: `init`, `shutdown`, `cleanup` of a plugin may raise in any call; list, instance, loader's cache and module are four pieces of state that each call changes in the order of the code. `ArenaRuns`: an entry of a directory is durable after the directory was synced, a rename after its
parent was; a power failure keeps or loses each entry that is not. Commands may be killed between any two steps. `disturbed` are the runs whose index entry met another writer or a crash.

### HealthMonitor, TestDashboard

`HealthMonitor`: records of durations, statistics cached for their TTL, the check of a rule in the steps gather, judge, cooldown, create. `seen` is what a check had to see, and since when. `TestDashboard`: window (buttons, dialog), thread of the run, pool, and the queue of updates
posted to the event loop.

### CommandLine

The program is one thread, and `prompt` says which question it stands at: start, checks, no server, model not installed, making the agents,
`/settings` and its two questions, restart. A configuration is what the program itself reads or adjusts: provider, model and the range of
`max_tokens`; the editor's other categories change values that only other modules read. `saved` is the file named by `--config`, `settings` the dictionary that the agent and the
editor share, `reread` the one a restart has loaded. A save (`Saves`) succeeds, fails, or was declined. An agent is the number of its making: `agents` has the two that commands act on and the two the processor asks. `apart` is a
history variable: something was not saved, was saved elsewhere, or was written by another program.

## 4. Runs

A run that is expected to pass explores its whole state space. Deadlock is checked in `adaptive_query`, `memory`, `cache`, `session`,
`memory_monitor`, `session_followup` and `question_cut`. The other configurations say `CHECK_DEADLOCK FALSE`: their modules come to an end where a bound on clock, calls or failures is used up (or, in
`ApiServer` and `Lookups`, where the program refuses to start).

| run | module, configuration | bounds | states | shows |
|---|---|---|---|---|
| `adaptive_query` | `AdaptiveQuery` | hops asked for 0 and 9 with a ceiling of 3 (both ends of the clamp); scores and estimates on both sides of the thresholds; attempt limits 0 and 3; any load; agents present or not | 556 230 | `CostBounded`, `AnswerUsesAllHops`, `ReportedStrategyAnswered`, `EscalationClimbs`; liveness `EveryQueryAnswered`; refinement `GraphImplementsBudget` |
| `memory` | `MCMemoryStore`, `MemoryStore` | two threads with a store each, one checked category and notes, one value two users can store, quotas 1 and 2, every failure | 1 371 649 | `NoDuplicates`, `ReadableUnlessClash`, `UndisturbedSaveIsWhole` |
| `cache` | `MCCache`, `Cache` | two threads, one manager, three keys, LRU of two, directory of one file, TTL of one tick and a clock of three values | 739 774 | `HitsAreFresh`, `LruBounded`, `DirectoryBounded`, `TiersAgree`, `ClearEmpties` |
| `session` | `MCSession`, `Session` | two workers and the event loop, one question, two queries, history of one, one page of two, every failure, restarts | 2 286 497 | `ReadableUnlessClash`, `QuietIsSaved`, `ClearedStaysCleared` |
| `services` | `MCServices`, `Services` | ten services, one at a time, bounds below | 362 735 | `WithinQuotas`, `AdmissionBounded`, `WindowLimits`, `RevokedStaysRevoked`, `CompleteIsWhole`, `IndexMatches`, `ListedPluginsRun`, `BreakerEvidence`, `ConfigKept`, `ProgramWhole`; liveness `CallerReturns` |
| `queries` | `MCQueries`, `Queries` | ten parts, one at a time, bounds below | about 1 700 000 | `LookupsAudited`, `AccessIsLatest`, `WantedShown`, `KeptWhileOn`, `CallsPolite`, `RunIsOver`, `SeenIsAlerted`, `RequestsAllowed`, `TrailComplete`, `BuiltPromptFits` |
| `adaptive_endpoint` | `ApiServer`, `ApiEndpoint` | two clients; the agent, or the manager with its processor, may fail to be created | violated | finding 1 |
| `memory_monitor` | `MCMemoryMonitor`, `MemoryMonitor` | event loop, worker and monitor over the two stores of the server | violated | finding 2 |
| `session_followup` | `Session`, `SessionFollowUp` | the command line: one thread, four queries, three pages | violated | finding 3 |
| `osint_forget` | `OsintQueries`, `OsintForget` | one user, four questions: remember, forget, and both again | violated | finding 4 |
| `socket_timeout` | `Lookups`, `SocketTimeout` | two threads, domain analyses | violated | finding 5 |
| `question_cut` | `ContextBudget`, `QuestionCut` | a window of 4096 and `max_tokens` of 2048, short and long questions and sections | violated | finding 6 |

*Why several modules share a run.* Modules of `MCServices` and `MCQueries` have no variable in common and in the program no state in common
that they model: a product would explore their interleavings in vain. A behaviour picks one of them at the start (`service`, `part`) and the others rest in their initial
state, so that every property is checked over every behaviour of its own module; each part takes between 4 800 and 460 000 states.

*Why the bounds are enough to be of interest.* Three hops are the fewest for which a critique can send a query
back, have it analysed, and send it back again. Low and high confidence on either side of each threshold
give every outcome of every comparison. Two threads are all that a race over one temp file needs; a third adds
a waiting writer, which the theorems cover. In `memory` one value shared by two users is the one way to meet a
duplicate that is not its own. In `cache` three keys with room for two and
one make both tiers evict, and evict different keys; a TTL of one tick with two ticks lets an entry be fresh,
on the edge, and expired. In `session` two queries with a history of one and room for one page of two make both threads trim and
evict, at once and the same page; one question is asked by both, so that each can find the other's answer.

In `services`: three users with a quota of one in a category of two make either limit bind first, repeated notes the other way round. Two server processes with one request per two seconds overspend a bucket by being overtaken;
one outage sends them to RAM and back. A minute of two steps with a clock of three lets stamps expire, and room for one tracked client of two makes the limiter forget. Three processes on one key are the validation, the revocation and one more that
meets what they leave. One run and two arena commands, which both may be killed, cover write against delete and rebuild. Two plugins suffice since calls touch one. Six broken downloads let the
breaker count past the four that bar a domain for good. Three searches for a pool of two leave one queued at the time-out. Two updates and one kill let a failed update leave a value in RAM that the other one writes.
Two models of which one is installed, and token limits on either side of both thresholds, give the program everything it asks about; two edits or foreign writes and one restart let a file change before, while and after it is read again.

In `queries`: two askers share terms, audit and store. Redis fails once, and three changes of roles happen before, during and after. Two wanted sites and two others, with room for two, make every cut matter. Batches of one let two additions and a clear interleave.
One request a minute with two nested levels of retries is the tightest limiter. Two analysts on two platforms overlap their blocks; a found profile is enough to skip the variations. A log that is rotated at every event with two backups loses what it may lose. Windows from 300 to 8192 tokens lie on both sides of
every `min` and `max` of the budget, lengths are chosen off the multiples of four. One rule with a cooldown and a history of one makes a second trouble fall into the cooldown of the first.

Symmetry: workers in `session`, users, and in `memory` the two threads with their stores; threads
and keys in `cache`. No run with symmetry checks liveness.

*Fairness.* `AdaptiveQuery` states `WF_vars(Work)`: a worker thread that has a query goes on with
it. The code justifies it: `process_query` and `graph.invoke` are straight loops in one thread without waiting
for another, and each call to a model or a tool has a timeout in its client, after which it raises
(`ExecuteFails`, `NodeRaises`). New queries and changes of the load are not fair and may happen at
any time. `EveryQueryAnswered` needs no more, because escalation and hops are bounded. `ParallelSearch` states weak fairness of the caller, of the time-out (which the wait has) and of the pool's threads
taking the next task; the end of a task is not fair, a search may hang. `CallerReturns` therefore says that the manager returns though searches hang, and
that the others, whose `with` block waits for the pool, hang only with a task that does.

*Properties worth a second look.*
`AnswerUsesAllHops`: the critique may send an answered query back to search, and what is returned must not be the
answer written before. `ReportedStrategyAnswered`: the response is assembled from four variables the loop updates at different places.
`EscalationClimbs`: between two attempts the machine may become constrained, and HIGH degrades to MID again.
`NoDuplicates` and `WithinQuotas` range over RAM and over every file a restart may load, the temp file included.
`ReadableUnlessClash` and `UndisturbedSaveIsWhole` name the condition under which the promise of `_save` holds. `HitsAreFresh` speaks of the time a content was *made*, not of the stamp it carries:
promotion from the directory must not renew it. `LruBounded` says by how much concurrent puts may exceed the limit;
`QuietIsSaved` looks at the state after all threads have come to rest, whichever saved last. `ClearedStaysCleared` relates a clear to every place a turn can come back from.
`AdmissionBounded` says of Redis (`OverspendBounded`) and of RAM (`RamBucketLaw`) what is let in: the former is the exact price of reading and writing a bucket in two pipelines: a binomial coefficient of limit and processes, which the instances reach.
`RevokedStaysRevoked` and `AccessIsLatest` say for which keys and principals the stores keep one story through an outage, and the history variables say exactly for which they do not.
`ProgramWhole` is about a restart that fails at any of its agents, after menus that have already changed what the old ones share.
`CompleteIsWhole` is about what is durable, not about what was written. `IndexMatches` counts rows: none missing, none twice. `BreakerEvidence`: what the breaker has seen is only broken downloads.
`LookupsAudited` counts look-ups against audit lines while threads read the terms file that another writes. `CallsPolite` is what remains of the limit without a lock: per thread, with one late request. `SeenIsAlerted` must survive a cooldown that one thread starts
for another, statistics that one thread computes for another, and a list of alerts that is full: an alert may only be missing if it fell out of a list that has none but newer ones. `TrailComplete` counts lines, through rotation, exceptions and late writers. `BuiltPromptFits` holds of the context manager, and finding 6 is what the client then does.

## 5. Proofs

TLAPS proves for all values of the constants (any number of threads, processes, stores, keys, hops …):

| module | theorem | states |
|---|---|---|
| `AdaptiveQuery_proofs` | `GraphTypes`, `GraphCost`, `GraphAnswer` | types; `CostBounded`; `AnswerUsesAllHops` of `GraphSpec` |
| | `GraphImplements`, `ProcessorImplements` | the graph alone, and the graph inside the processor, implement `ResearchBudget` (`GraphImplementsBudget`) |
| | `ReportedStrategy`, `EscalationOnlyClimbs`, `SearchIntentServed`, `AdaptiveCost` | the invariants of `adaptive_query`, and that an explicit search request gets tools |
| `MemoryStore_proofs` | `MemoryTypes`, `FileReadable` | types and `ReadableUnlessClash`, for any threads and stores |
| | `ValuesUnique`, `QuotasKept`, `SavesWhole` | `NoDuplicates`, `WithinQuotas`, `UndisturbedSaveIsWhole`, where no two threads share a store (`OwnStores`) |
| | `SharedStoresOvershoot` | where up to n + 1 threads share one (`Sharing(n)`): in RAM and in every file each quota is exceeded by at most n, and a value is there at most n + 1 times |
| | `SharedSavesWhole` | where no save fails, a save nobody overlapped lacks at most what another thread of the store is about to save |
| | `LoneRememberKeepsOthers` | with one thread whose saves do not fail (`Lone`), remembering takes nothing out of the file (finding 2) |
| `Cache_proofs` | `CacheTypes`, `CacheServesFresh`, `LruStaysBounded`, `DirectoryStaysBounded` | types, `HitsAreFresh`, `LruBounded`, `DirectoryBounded`, for any threads and managers |
| | `TiersStayAgreed`, `ClearsEmpty` | `TiersAgree`, `ClearEmpties`, for one manager (`OneManager`) |
| `Session_proofs` | `SessionReadable`, `SessionStaysCleared`, `SessionSaved` | `ReadableUnlessClash`, `ClearedStaysCleared`, `QuietIsSaved` |
| | `TurnsOnce` | types, with the part that no turn is in the history twice, for any threads |
| | `FollowUpOfFreshSession` | `FollowUpHasContext` of the behaviours that restore no session (finding 3) |
| `Services_proofs` | `ConfigStaysKept`, `KeysStayRevoked` | `ConfigKept` of `ApiServer`, `RevokedStaysRevoked` of `Credentials` |
| | `PublishedWhole`, `IndexStaysRight` | `CompleteIsWhole` and `IndexMatches` of `ArenaRuns` |
| | `PluginsRun`, `ProgramStaysWhole` | `ListedPluginsRun` of `PluginLoading`, `ProgramWhole` of `CommandLine` |
| | `BreakerHasEvidence`, `GrantsStaySpaced` | `BreakerEvidence` of `SafeFetch`; that two grants of the throttle are an interval apart |
| | `RamBucketsBound`, `AdmissionStaysBounded` | `AdmissionBounded` of `RedisLimiter` |
| | `WindowsHold` | `WindowLimits` of `RequestWindows` |
| | `SearchReturnsWhole`, `SearchTypesHold` | of `ParallelSearch`: what a caller is told of his searches is right and complete (`ReturnedWhole`); types |
| | `QueriesUnavailable`, `ApiTypesHold` | of `ApiServer`: `/query` answers 503 only for an agent that could not be created, the adaptive processor is never assigned (finding 1); types |
| | `KeyTypesHold`, `ArenaTypesHold`, `PluginTypesHold`, `ProgramTypesHold` | types of `Credentials`, `ArenaRuns`, `PluginLoading`, `CommandLine` |
| | `ServicesTyped` | `ServicesTypeOK` of the composition |
| `Queries_proofs` | `AccessStaysLatest`, `DocumentsStay` | `AccessIsLatest` of `AccessStores`, `KeptWhileOn` of `RagStore` |
| | `RequestsStayAllowed`, `BlocksRestore` | `RequestsAllowed` of `Lookups`; that a block that is alone restores the time-out |
| | `LookupsStayAudited`, `OsintTypesHold` | `LookupsAudited` and the types of `OsintQueries` |
| | `CallsStayPolite`, `CallTypesHold`, `BuiltPromptsFit` | `CallsPolite` and the types of `LlmCalls`; `BuiltPromptFits` of `ContextBudget` |
| | `WantedStaysShown`, `AnswerTypesHold` | `WantedShown` and the types of `SearchAnswers` |
| | `QueriesTyped` | `QueriesTypeOK` of the composition |
| | `DeletedUnlessCached` | an entry that was never absent is called deleted only by an answer of the response cache (finding 4) |
| | `QuestionsArriveWithin` | where what the client may generate is within the manager's reserve (`WithinReserve`), no question that fits is cut (finding 6) |
| `Monitors_proofs` | `TrailStaysComplete`, `RequestTypesHold` | `TrailComplete` and the types of `ApiRequests` |
| | `RunsEndWhole` | `RunIsOver` of `TestDashboard` |
| | `SeenStaysAlerted`, `HealthTypesHold` | `SeenIsAlerted` and the types of `HealthMonitor` |

`Lists_proofs` holds what the others cite: a set of numbers with 0 and the successor of each of its numbers has them all (the library's
well-foundedness of `<` gives it with a set in place of the operator that the provers cannot instantiate), and from it what
`Filtered` returns: the elements of the set, in their order, once for each place.

They assume what the modules assume of their constants; TLC evaluates these assumptions in the runs. What some theorems assume beyond that stands in their statements, by name: who shares a store (`OwnStores`, `Sharing(n)`, `Lone`) or a directory (`OneManager`), that saves do not fail (`~SaveMayFail`),
that a session is not restored (`Unrestored`), how much a client may generate (`WithinReserve`). Each is explained below; none is assumed of the code in general.

*What the findings come to.* Five of the six are violations by what the code may do, and a theorem beside each names what it needs, so that the violation is not one of many: `LoneRememberKeepsOthers` (finding 2 needs a second thread or a failed save),
`FollowUpOfFreshSession` (3 needs a restored session), `DeletedUnlessCached` (4 needs the response cache), `BlocksRestore` (5 needs an overlap) and `QuestionsArriveWithin` (6 needs a client that may generate more than the manager reserves). Finding 1 needs nothing: `QueriesUnavailable` says that no behaviour ever assigns the processor.

*The inductive invariants.*
`GraphInv` adds to the cost bound what each node knows: a budget of calls per hop that depends on the node (a round
of follow-up, analysis, synthesis and critique costs four), that follow-up is entered only with a hop left, and that at the
critique the answer was written at the present step. Without the position in the graph the bound on calls is not inductive.
`GraphImplements` maps each node to a step of the budget or to a stutter.
`AdaptiveInv` links strategy, attempt and reply by phase: in `judge` the reply is of this attempt and this
strategy, in `execute` the history has one entry fewer than attempts. Its key fact about `decide_agent_strategy` is that a degraded
strategy is either the one in force, which `SameStrategy` refuses, or of a higher complexity.
`TypeInv` and `FileInv` say for each place in `_save` what the temp file and the handle can be, as long as no two
saves overlapped: at most one thread saves, its handle names the temp file or nothing, and at the rename the temp file has been dumped
whole. `EntryInv(n)` says of every state of a store and of every file that each quota is exceeded by no more than n entries and that a value is there at most n + 1 times, where those about to append count already: `remember_*` checks and appends in two steps without a lock, so that
each of the others who call the same store may be between the two. With n = 0 (`OwnStores`) it is `NoDuplicates` and `WithinQuotas`; each thread with a store of its own is the way the server's event loop and one worker use them.
`WholeInv` says of a save that nobody overlapped that at the rename the temp file is what the store has, or else another thread of the store has still to save what it changed. `LoneInv` says that a store that is idle has what the file has, and one that was added to has it and more.
`FreshInv` says that the stamp of everything stored, held or written is the time it was made. `LruInv` counts: the keys of an LRU are distinct
and exactly those of its map, so that its length is a cardinality, and each thread between assignment and trim
accounts for at most one of them beyond the limit.
For the session, `FileInv` is the argument of the memory store in the small. `ClearInv` follows the age of what could come back: as long as nothing was `crossed`, every turn a thread, the
file, the temp file or a dump holds is younger than the last clear, and a thread that clears is alone with an empty session (`Alone`). Without
the second part the step that deletes the file is not inductive.
`OnceInv` is of all that can become the history, which is the history, both files, every dump and every list a thread trims: in none of them is a turn twice, or one that a thread is still to append, and no two threads ask the same turn. `NumberedInv` says that before a restore the loaded pages have numbers for keys only.
`SavedInv` says where the session is while nothing is unsaved: either somebody has still to save or has the session to himself, or the temp file holds it
or `session.json` does. It needs that what is in a file has only strings for keys (`StoredInv`), so that loading and
dumping it again gives the same file.
`ConfigInv` orders the copies of a setting: what was confirmed is no newer than the file, the file no newer than RAM; whoever is between opening the temp file and the rename holds the lock alone, and what it
renames is what it dumped, so that a kill at any step leaves a whole file.
`KeyInv` separates the time before the first outage, when Redis has every record and a key is inserted once, from the time after it; every copy that a call holds of a revoked key
is inactive or the key is excused. `RunInv` says that a run has one maker at most, which writes its files in the order of `PartOrder` and renames the directory only when all their entries are durable; `WrittenFiles` turns the position in that order into a set of files.
`PluginInv` strengthens the property to what the loader's cache holds whether listed or not: a cached plugin has a loaded module.
`ProgramInv` carries the agreement of dictionary and file from the first load through every question, not only while the program takes commands.
`AccessInv` says that Redis has what it was told last and that the dictionary of a process that uses Redis holds only what Redis missed.
`AccessBounded` adds what its types need: counters and tokens within their bounds. `WalkInv` and `RagShapes` do so for `Lookups` and `RagStore`.
`LookupInv`: nothing runs before startup serves; who is inside a block holds the default it found; a block that never overlapped found the original one; no raw look-up is past its guard in Tor mode. `BlocksRestore` makes finding 5 exact: overlap is the only way to it.
`RagInv` follows a call: what it took from its texts is in the collection unless it was cut short, or the manager is in its fallback mode.

`DirInv` of the cache: `age` lists the files, once each, and with nobody left who will take stock of the directory either it is within its limit or some thread sweeps, that is, has in its
list all that is there and as many to delete as there are too many. Deletions by others only help a sweep, and whoever writes takes stock himself.
`AloneInv` says that without overlap a thread that acts on what it looked at finds it unchanged, and that LRU and file differ only inside a clear or between rename and put. `OneManager` is the code's own weakness again:
nobody tells one `CacheManager` what another has deleted, so that with two of them on one directory tiers disagree; the agent has one.
`IndexInv` is about the runs that met no crash and no second writer: marker before row, row away after the directory, a rebuild that has listed the run exactly if it is published.
`FetchInv`: the breaker has counted no more than broke, and fewer while it remembers a time, because the failure that starts the time is not counted (so that a third one within it is the fourth); the limiter remembers the grant it gave last.
`OverspendInv` follows what was let through below each level of the bucket. A check that takes the bucket below a level must have read it before, and each other process can do that once for each time it
overtakes: `Overtakers` counts who still can. Summed over the levels this is Pascal's triangle, `Tracks`, whose binomial coefficient is the bound; `RamBucketLaw` is the plain bucket in RAM.
`SearchInv`: what was reported of a task is how it ended, or there was a time-out; the search manager, and whoever saw no time-out, has when he leaves an answer for each search, and all but the manager whose time was up have waited for every search to end. `ApiInv`: while the server is up `runtime` is what its startup assigned, and while it is down nothing.
`ServicesInv` and `QueriesInv` are the conjunctions of the invariants of the parts; their step is one line per part, because a part's variables change only in its own steps.
`WindowsInv`: what a minute has of a client's requests is in his list, whatever is pruned, and a list is cut to the minute before it is measured, so that no minute has more than the limit.
`OsintInv` counts: what was looked up and what is on its way is approved, what is approved and what compliance has not seen yet was asked. `DeletionsHold`: while an answer "deleted" is on its way to the record, its entry was absent at some time since the question was asked. `ArrivesWithin` says that a prompt that was sent and fitted still ends where its question does, because within the reserve the client's bound is no tighter than the manager's (`ReservesAgree`). `BudgetInv` needs only the lengths and the arithmetic of `Tokens`, which rounds down.
`LlmInv` has for each thread a stamp that paces it: of its last request or the one about to go, in the list or older than a minute, an interval after the stamps of the requests before. The first request after a wait may be late; hence the one above the limit.
`AnswersInv`: each wanted site that was found is in one of the two lists while the question searches, and among the first `Len(Wanted)` results from the ranking on, where the cuts do not reach.
`TrailInv` follows each due line: on its way, in a file with at most so many newer ones that it may still have to be found, or gone from files that are full of newer ones. The rank of a line (newer lines and those still to be written) is bounded by the lines due after it
and one late line of each other connection, which is what `TrailComplete` allows for.
`RunInv` of the dashboard: the updates end with the completion, their results are the last of what was reported, the rest of it is the last of what the window shows, and a file is in one place of four: to do, busy, done, told.
`HealthInv`: statistics that call a slow operation fast are from no later than the time it became slow, so that they expire in time; a check has in its data what it was due to find, and each rule it is through with has been reported.

*Only model-checked.* `EveryQueryAnswered` and `CallerReturns`, because liveness is out of the prover's reach (that a caller who returns is told the truth is `SearchReturnsWhole`), and the six violations. Every invariant, action property and refinement of a passing run is proved; `NoDuplicates`, `WithinQuotas`, `UndisturbedSaveIsWhole`, `TiersAgree` and `ClearEmpties` under the hypotheses named above.

*What the proofs changed in the models.* `SeenIsAlerted` was false for two checking threads over a long time: an alert can fall out of a full list that has only newer ones; the property now says so. The assumption of
`HealthMonitor` lost a bound on the length of that list and gained that the rules are different. Conditions that overlapped in a `CASE` were made disjoint, and some assumptions on
constants that the instances satisfied were written down (finite sets of askers, distinct test files, values for "nothing" that are no values). `SelectSeq` and counting by `CHOOSE`, of which the provers know nothing, became `Filtered`; the binomial coefficients
are a function of rows, each made from the one before.

## 6. Findings

1. *The adaptive endpoint never finds its processor* (`adaptive_endpoint`). `app.py:658` assigns it to a local name of `startup_event`; `runtime.adaptive_query_processor` stays `None` and `/query-adaptive` answers 503 though nothing failed. The tracker shares the fate, and `/health` is never better than degraded.
2. *One store undoes the other* (`memory_monitor`). Each save writes the whole state of one object; entries which the
   other object reported as stored disappear from the file. The monitor's reload narrows the window and does not close it.
3. *The context of follow-up questions is lost* (`session_followup`). After a session was restored, the loaded pages have strings for keys; the next
   page that is loaded has an integer. Sorting them raises, the exception is swallowed, and follow-up questions are answered without any
   context although the session has it.
4. *A second forget deletes nothing* (`osint_forget`). The report of a deletion enters the response cache; when the entry was remembered again, the same command is answered from there.
5. *The socket time-out sticks* (`socket_timeout`). Two overlapping blocks of `_socket_timeout` leave the process with the five seconds of one of them.
6. *A question that fitted is cut off* (`question_cut`). `ContextManager` packs for one reserve, the client checks with another and cuts the end of the prompt, where the question is; `context_manager.py:188` says it is never truncated.

Noted while reading, without a run of their own:

* `docs/guides/LANGGRAPH_GUIDE.md:91` says that below the threshold the agent goes on as long as hops remain; `_should_improve` ends a query the critique calls good whatever its score.
* The two stores of the server share one temp file name: a crash while one has opened what the other is about to rename truncates `memory.json`.
* `/clear-cache` clears through a manager of its own; the agent's keeps its LRU. The apology for a failed model call is cached like an answer, and so are the answers of `recall`.
* Middlewares run log, shared limiter, audit, CSRF, headers: a 429 of the limiter is not audited although `app.py:286` says all requests are, and responses of the outer ones lack the headers `app.py:182` promises for all.
* `/settings` and the provider menu save to `config.json` whatever `--config` names (`cli/commands.py:245`, `cli/bootstrap.py:392`), while a restart reads the named file: with another file the edits are lost at the restart. A model chosen "for this session only", one given by `--model`, and edits whose save was declined stay in the shared dictionary, and the next save writes them. A restart does not adjust the token limits to the provider.
* `main.py:480-481` says that at a restart the multi-hop agent and the processor "degrade to None on failure"; without them the interactive mode returns at once and the program ends.
* The pool of the test runner still runs every file after a stop; a stop before its thread begins is forgotten; `result_parser.py:144` says all tests passed when files could not be imported.
* A key rotated while the answer fails is lost; a role assigned in RAM during an outage returns when Redis fails again, after a revocation that only Redis heard. A failed `PATCH /config` leaves its value in RAM, which the next one writes.
* The dashboard's own tracker gets no records; `component_checker.py:116` constructs the model client with a path, so that the component is always unhealthy.
* RAG: once an operation failed the manager stays in its fallback mode and tells its callers that all is stored. Equal texts in one batch are such a failure.

## 7. Not modelled

* `FallbackManager` (driven by the arena only), `HealthCheck` (writes a warning), the registry (factories under a reentrant lock) and the lazy loading of tools.
* OSINT sources, web providers and models as such: their outcome, an answer of any kind or an exception, is a choice. Hallucination heuristics, ranking scores, patterns of the router: functions on text.
* Widgets, themes, displays and exports of the command line, settings that no module reads, reports, validation and privacy helpers, proxies other than Tor's: display and pure functions.
* Inside the modelled files: texts and prompts, telemetry and logging, statistics, `async_get` and `async_set` of the cache and `import_from_json` of the memory store, which nothing
  calls, metadata of emails, development mode of the role and token checks, streams and embeddings of the model clients, `purge_all` of the arena, which only tests call, the memory step of `clear_session`, collecting and scoring of arena answers. Several processes that rotate one audit log, or use one `session.json`, are left out too.
  Calls that change nothing are stutters.
* `enable_resource_monitoring` and `enable_confidence_escalation` of the configuration: switched off, the first is a machine never constrained, the second a request without escalation, and both are among the behaviours checked.

## 8. Plan

Done: every module planned so far. Next, in this order:

1. Proofs: what of `TiersAgree` and `ClearEmpties` a second cache manager leaves intact.
2. Compositions: `Credentials` and `RequestWindows` below `ApiRequests`; `OsintQueries` over `Cache` and `Session` instead of their abstractions.
3. Larger instances of `ArenaRuns` (two runs) and `Credentials` (two keys), in runs of their own.
4. `FallbackManager` and the collecting commands of the arena.
