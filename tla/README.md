# BatchHelm: TLA+ specifications and proofs

BatchHelm runs a recall incident through a small society of agents and shows the run live in a
dashboard. It promises durability: a request is accepted once, its run survives a restart of
the API, every event is stored before it is shown, a subscriber that reconnects picks up where
it stopped, and a reviewer's decision is kept. These modules model the program as the code in
`src/` implements it, from the agents to the browser tab; TLC checks them on small instances,
and TLAPS proves the safety properties and the refinement for every size. Liveness is TLC's alone.

`SVC`, `REPO`, `ORC` and `BASE` below stand for `orchestration_service.py`,
`orchestration_repository.py`, `agents/orchestrator.py` and `agents/base.py` in
`src/services/api/src/batchhelm_api/`. `PROJECT.json` maps every definition to its lines.

## 1. The system

| Component | State | Operations | What makes it correct |
|---|---|---|---|
| Run repository (`REPO`) | SQLite: one row per run (key, incident, mode, status, `next_wave`, version, snapshot, result), one row per event | `create_run`, `claim_run`, `append_event`, `latest_sequence`, `list_events_after`, `save_checkpoint`, `load_checkpoint`, `complete_run`, `fail_run`, `list_recoverable` | one run per request id, terminal rows stay as they are, no event number twice, checkpoints on wave boundaries |
| Orchestration service (`SVC`) | `_tasks`, `_conditions`, `_lock`; one asyncio task per run | `start`, `recover`, `_ensure_worker`, `_execute`, `_remove_task`, `stream`, `wait_for_result` | one worker per run, every accepted run settles, nobody sleeps through a commit |
| Orchestrator (`ORC`, `BASE`) | results, blackboard, the recorder's number | waves with `asyncio.gather`, retries, skips, checkpoints, reconciliation, briefing | skips follow failures, completed waves are not run again, the result has the whole history |
| Specialist agents (`agents/*.py`) | entries on the blackboard, records in memory | check, ask, inspect, read, write, remember, reason | an agent finds what its dependencies left, also after a resumption |
| Event stream (`SVC.stream`, `event_stream.py`, the browser's `EventSource`) | a cursor on each side, frames in flight | list, yield, poll the row, sleep on the condition; reconnect with `Last-Event-ID` | what the client has is a prefix of the log, the outcome arrives |
| Browser session (`useOrchestrationRun.ts`, `orchestrationSession.ts`) | session storage (request key, accepted run), pending starts, effect generation, reducer state | start once, restore, rerun, reduce events | the screen shows one run; an older start does not disturb a rerun; reloads make no runs |
| Review ledger (`review_*.py`) | SQLite: immutable decisions | append, resolve a conflict, list and fold | idempotence per request id, one history for every reader, readiness follows the last decision |
| Stores' schemas (`initialize()`, `create_app`) | `user_version` and the tables of three files | create, migrate, refuse, replace | a current version means a complete file; the application comes up |
| Memory (`memory_repository.py`) | SQLite or in-memory records | remember (upsert), list | nothing observed is lost, confidence never sinks |
| Qwen gateway (`qwen.py`, `qwen_tasks.py`, `inspection.py`) | none | post with retries, validate, fall back | bounded posts, 4xx never retried, the source of an answer is told |
| Rate limit, telemetry (`observability.py`) | window and count per client, counters | allow, increment | never more than the limit in one minute, every request counted |
| Recall analysis, evidence | none (pure) | inventory decisions, tasks, checklist, progress | not modelled, sequential functions of one input; two edge cases under section 3 |
| Dashboard panels (`App.tsx`, `EvidenceReviewGate.tsx`) | per panel: loading, ready or error, and what it shows | refresh, decide, inspect, deliver | late replies do not turn the review back |

**How they interact.** `POST /runs` calls `start`, which commits a row and then makes sure of a
worker; the worker calls the orchestrator, which calls back into the service for every event
(`_persist_event`: commit, then notify) and every wave (`save_checkpoint`). Agents share the
blackboard, ask the gateway and write to memory. Streams and synchronous callers sleep on the
run's `asyncio.Condition` and read the store when woken. At startup `create_app` opens the three
stores and `recover` does for unfinished runs what `start` does for new ones. Nothing but SQLite
survives the process, and nothing but the session storage survives a page of the dashboard.

**What is hard.** The process is one event loop, so a step is atomic up to its next `await`; but
every event is an `await`, so agents of a wave, starts, recovery, done callbacks, streams and
waiters interleave at each of them. The review endpoints are plain functions: they run on threads
and interleave between statements. A crash may come between any two commits. A store that
stops answering makes any statement raise, and the errors take different ways out: caught by
the retry loop inside `agent.run`, raised through `gather` (which does not stop the other
agents), suppressed around `fail_run`, fatal in `recover`. In the browser every reply may be late,
lost, or meant for a page or an effect that is gone. `PROJECT.json` lists these hazards at
their lines with the properties that watch them.

## 2. The modules

| Module | Models | Composed with |
|---|---|---|
| `AgentGraph` | the dependency graph and `_waves()`; the assumption excludes cycles, for which the code raises | |
| `RunStore` | the rows and what each SQL statement does to them, one operator per transaction | |
| `OrchestrationService` | service, orchestrator, recorder and process, one action per synchronous stretch that ends in a commit | `AgentGraph`, `RunStore` |
| `MCOrchestrationService` | graphs and symmetries for TLC: fork, chain, single agent | |
| `DurableRun` | the abstract specification: what API clients may rely on | implemented by `OrchestrationService` |
| `AgentPipeline` | the nine agents on their blackboard, its way through a checkpoint and back, memory writes, the final analysis | `AgentGraph` |
| `EventStream` | `stream`, `wait_for_result`, `_notify`, the browser's `EventSource` | |
| `MissionControlSession` | one tab: session storage, starts, effects, `EventSource`, reducer | relies on the unique request key, `ReceivedIsLogPrefix`, `EveryRunSettles` |
| `ReviewLedger` | the two review endpoints, statement by statement, and the fold of `review_trail` | |
| `StoreSchema` | `initialize()` of the three repositories in `create_app`, statement by statement | |
| `MemoryStore` | `remember()` of both memory repositories | extends `StoreSchema` |
| `QwenGateway` | one question, from its caller down to the HTTP requests | |
| `RateLimiter` | the middleware: limiter and telemetry | |
| `ApiEdge` | a question behind the limiter, or of an agent, among other requests | extends `RateLimiter`, `QwenGateway` |
| `DashboardPanels` | the evidence and inspection panels of one page | relies on `TrailsAgree` |
| `AgentGraphProofs` | facts about the waves of any graph | extends `AgentGraph` |
| `OrchestrationServiceProofs` | theorems about the service and its refinement | uses `AgentGraphProofs` |
| `AgentPipelineProofs`, `MissionControlSessionProofs`, `ReviewLedgerProofs` | theorems about the module of that name | the first uses `AgentGraphProofs` |
| `MemoryStoreProofs` | theorems about `MemoryStore` and `StoreSchema` | |
| `ApiEdgeProofs` | theorems about `RateLimiter`, `QwenGateway`, `ApiEdge` and `EventStream` | |
| `DashboardProofs` | theorems about `DashboardPanels` | |

"Relies on" means that the module takes for granted, as the behaviour of its environment, what
the named property establishes in another module.

### OrchestrationService

`runs` and `events` are the two tables. `exec` holds the calls of `_execute` in memory, each with
the local state of its orchestrator (`wave`, `results`, where each agent stands) and its
recorder's number `seq`; `tasks` is `_tasks`. `calls` and `recovering` are the calls of `start`
and of `recover` that have not yet reached `_ensure_worker`. `proc` is the process (running, with
a usable store or with the `UnavailableOrchestrationRepository`, its incident and provider mode),
`store` tells whether SQLite answers.

- Events: `Record` is `EventRecorder.record`, number first, append second. Its two outcomes are
  the caller's next states after a commit and after a raised error.
- Agents: `AgentSkips`, `AgentStarts`, `AgentReasons`, `AgentRaises`, `AgentRetries`,
  `AgentGivesUp`, `AgentCompletes` are the steps of `_run_agent`. An error that leaves it moves
  the run to `fail` and leaves the siblings at work, as `gather` does. They may then outlive
  their task: a slot of `exec` is free again only when all its agents are idle.
- The task: `Begin`, `Introduce`, `CheckpointWave`, `MarkCheckpoint`, `FindConflict`, `Resolve`,
  `Brief`, `Finish`, `AssemblyRaises`, `SettleRun`, `AbandonRun`, then `RemoveTask`, the done
  callback, as a step of its own.
- The service: `Start` (a new run or the known one), `EnsureCalled`, `Boot`, `RecoverRun`,
  `RecoverRaises`. `recover` runs in the lifespan, so `Start` waits for it.
- The world: `Crash`, `StoreFails`, `StoreReturns`.

Abstractions: an event keeps its number and, for a checkpoint event, the wave it announces.
Results keep outcomes. What an agent does inside `run()` is `AgentPipeline`'s. `AssemblyRaises`
stands for any error between the last wave and the completed event. A graceful shutdown cancels
the tasks, and `_execute` re-raises without writing: to the store it is a crash. `_ensure_worker`
never suspends while it holds `_lock`, so the lock is not modelled and the call is one step.
Request ids that name a run with another incident or mode get a conflict, which changes nothing:
no step. That a request id names one run needs no property: `create_run` selects and inserts in
one transaction under a unique key, so it is one action whose guard says so.

### AgentPipeline

Each agent is a record of its own (`RecallIntakeAgent` to `ComplianceEvidenceAgent`): the order in which its
`run()` checks, asks, reads, writes, remembers and reasons. `Step` and `Raises` are the two ways a step
goes. An entry of the blackboard is absent, empty or full, which is all that its readers tell apart;
`FromRuntime` and `ToRuntime` are the conversions of `orchestration_state.py`, which drop what is empty.
`told` is what `deriveAgentStates()` folds from the persisted events. The process crashes with everything in
memory and `Resume` continues from `saved`. The stages hard-coded in `MissionControl.tsx` are compared with
the graph's waves by the assumption `DashboardWavesAssumption`. Left out: the orchestrator's own events are
taken to be persisted (when one is not, the run fails, which is `OrchestrationService`'s), wordings and
numbers, the rows of `agent_checkpoints`, which are written and never read.

### EventStream

The log is its last number. `server` is the generator (where it stands, cursor, end of its
listing), `wire` the frames in flight, `client` the numbers received, the last id and the outcome.
The generator is suspended at each `yield` and at the condition; `ListEvents`, `Resume`,
`CheckOrSleep` and `Heartbeat` are the stretches in between. `Drop` loses the connection with
everything in flight. A commit and its notification are two steps (`unwoken`), because `_notify`
may wait for the condition's lock. Runs that failed may still get events, from agents that
outlived their orchestrator.

### MissionControlSession

`tab` is the session storage, `starts` the module-level `pendingStarts` with the state of each request,
`orphans` the requests of pages that are gone, `awaited` and `source` the active effect's start and
`EventSource`, `session` the reducer's state. The source also keeps two numbers of the server's: the end of
its last listing, and how long the log was when the stream was opened. `ReceiveOutcome` needs only what was
listed to have arrived: as in `event_stream_tail`, the outcome may overtake events committed after the
listing, the page then closes the stream, and the reducer does not take the history of the result. `Load`,
`Remount` (Strict Mode, hot update) and `Rerun` all end in `Mount`, the body of the effect. `Fail` is an
error answer or a lost one: the API has created the run or not. An answer other than 200 to an `EventSource`
(`RefuseStream`) closes it for good, while `onerror` shows "reconnecting". A callback of the page runs with
the promise reactions it queues, so a reply stores, forgets and connects in one step.

### ReviewLedger

`ledger` is the table; a call stands at the insert, at `_resolve_integrity_conflict` or at the
listing, and other calls step in between. `State` is `get_state`: a fold of the rows over the base
state with the packet time of the first row. A decision is one value for decision, reviewer and
note. `Restart` may bring another packet version; the calls in progress are lost.

### StoreSchema and MemoryStore

`file` is what a crash leaves of each database, `tx` the statements of the open transaction.
Python's `sqlite3` opens one only before `INSERT`, `UPDATE` and `DELETE`, so each `CREATE`, `ALTER`
and `PRAGMA` of `initialize()` is durable at once (`Execute`), and only what follows the migration's
`UPDATE` waits for `Commit`. `Settle` is `create_app`'s `try`/`except`: the store is open, or replaced by
one that refuses every call, or, for the memory, by one that forgets at the end of the process.
`MemoryStore` goes on from there: `Remember` is one call, as agents call without an `await` in
between; `StopAfterCommit` is the process that ends between the commit and the return. `kept` and
`answered` are history variables.

### QwenGateway, RateLimiter, ApiEdge

A question is one of `_run`'s five tasks, the vision agent's, an image endpoint's or the summary
endpoint's. Answers are kept by the way they take: a valid object, an incomplete or ill-typed
one, no object, an undecodable body, 4xx, 5xx, a transport error. `Catch` is what the caller makes of
an exception: fallback, another attempt of the agent, or an HTTP status. The client's timeout is
taken to end a silent request; httpx in fact counts it per read.

`windows` and `counters` are the limiter's dictionary and the telemetry; `Tick` and `SetBack` move the
wall clock, on which the windows are computed. `admitted`, `refused` and `quota` are history. `ApiEdge`
puts the question of an endpoint inside a request that the limiter must first let in, and that is
`Done` only after its answer; agents ask from the background, past the limiter.

### DashboardPanels

`call` holds the page's requests in the order they were sent, each sent, served, failed or done;
`panel` what each panel shows. The answer to a review is the number of decisions it was folded
from. The guards of `Refresh` and `Decide` are the disabled states of the buttons.

## 3. What TLC checks

| Run | Instance | Shows |
|---|---|---|
| `service_waves` | fork of 3 agents, 1 run, 2 calls of `_execute`, 1 attempt, 1 crash, 1 outage; 2.0 M states | the invariants of workers, checkpoints, events and results, `CompletedWavesStayDone`, `StrandedOnlyByOutage`, and that the service implements `DurableRun` |
| `service_requests` | 1 agent, 2 runs, 2 request ids, 2 incidents, 1 crash; 1.7 M states | `WorkersOnUnsettledRuns`, `WorkersServeTheirIncident`, `NoStrandedRun` |
| `service_progress` | chain of 3 agents, 2 attempts, 1 crash, fairness; 126 k states | `SkipsFollowFailures`, `EveryRunSettles` |
| `agent_pipeline` | the nine agents, 2 suppliers, 2 attempts, 3 faults, 2 crashes; 708 k states | readers find their writers' work, the events tell the results, the analysis is complete, completed agents have remembered |
| `event_stream` | 4 events, 2 lost connections, fairness; 8 k states | prefix, no lost wakeup, outcome after commit, delivery |
| `mission_control` | 3 request ids, 3 effects, 2 events, 1 fault, fairness; 870 k states | one run on screen, the screen shows the log up to what was recorded before its stream was opened, reloads make no runs, the outcome is shown |
| `review_ledger` | 3 calls, 2 request ids, 2 packets, 1 restart, 1 error; 3.2 M states | a decision once per request id, conflicts are contradictions, one history, readiness, one packet time |
| `stores` | any three files, 2 crashes, 1 failing statement, 1 key, 2 texts, 2 observations, fairness; 1.4 M states | complete schemas, the application comes up, the memory adds up and keeps what it answered |
| `api_edge` | 2 clients, 4 requests, limits 0 and 1, 2 minutes, 1 clock set back, up to 2 attempts, fairness; 1.1 M states | the window's cap, bounded posts, fallbacks, sources, no question hangs |
| `service_orphans` | as `service_waves` without the crash | finding 1 below |
| `event_stream_tail` | 3 events | finding 2 below |
| `store_schema_crash` | 1 crash | finding 3 below |

**Why the bounds are enough.** The fork has what `gather` makes hard: a wave before, and two agents
that interleave and fail separately in one wave. The chain is the shortest graph in which a skip
must cascade over a restart. Two slots of `exec` are needed for a second worker beside the
remains of the first. A second crash meets a store the first can already have left: rows and
logs after a restart are again a status, a wave boundary and a log. One outage reaches every
statement, as it may begin and end at any step. Calls, run ids and request ids are only compared,
and so are the two agents of the fork's second wave: those sets are symmetric in the safety runs.
`AgentPipeline` runs the real graph; two attempts and three faults let an agent succeed on its second
attempt, fail for good, and another one be disturbed besides, before and after two resumptions.
Three effects of a tab are an open page, a reload or remount, and a rerun after it, with three
ids for them. Three calls to the ledger are two that contend for a request id and one that reads or
contradicts. In the stores one key is enough, as records of different keys meet in no statement, and
two texts give an observation a detail to change or to leave out. Two crashes meet a migration that was
cut short and one that resumes it. A limit of 1 has the boundary at every request, and a second
minute its turn in both directions.
Every run may stop (all runs settled, bounds used up), hence `CHECK_DEADLOCK FALSE`.

**Where properties hold only without an outage.** `LogHasNoGaps`, `ResultCarriesWholeHistory` and
`NoStrandedRun` are about a store that keeps answering (`outages = 0`). The first says so because
a failed append uses its number up, the second because agents left behind may write after a
result, the third because `fail_run` may be suppressed. `EveryRunSettles` says the same: after an
outage a run can stay `running` until a client repeats its start or the API is restarted. What holds
with outages is `StrandedOnlyByOutage`: an unfinished run loses the last one who attends to it only in
a step after which the store does not answer (a suppressed `fail_run`, a `start` that cannot look
at its row, a process that could not open the store), however many outages came before.

**Fairness.** Weak fairness, and only for what the code or its platform drives by itself:

- Service: every step of a task, of an agent and of a callback, as asyncio runs what is ready, and
  agents end (`NoQuestionHangs` is why). `Boot`: somebody restarts the API after a crash; the compose
  file does not do it by itself, so this is an assumption about operations. `StoreReturns`: outages
  end. `Start` and `Crash` are never forced.
- `EventStream`: the network delivers and the browser reconnects; neither the worker's next step
  nor any timeout is fair, so whoever is woken is woken by `_notify`.
- `MissionControlSession`: the API answers, its runs settle and the network delivers; no page need be
  reloaded.
- `MemoryStore`: the process runs on and is started again; nobody need remember anything.
- `ApiEdge`: the event loop, its timers and the client's timeout. The provider's answers and the other
  requests are not fair, so a provider that never answers is among the behaviours.

### Findings

1. `service_orphans`: the recorder numbers events itself, although the durable-run design
   (`docs/superpowers/specs/2026-06-30-...-design.md:135`) gives that to the repository. One agent's
   append fails, `gather` raises, `fail_run` fails too and is suppressed; a repeated start creates
   a second worker while the other agent of the first one is still running, and their recorders
   hand out the same number. The primary key keeps the log sound; the loser's agent or run fails.
2. `event_stream_tail`: "A reconnect after sequence N receives every later event exactly once"
   (same document, line 368). `stream` lists events, is suspended at their yields, and then reads
   the row: a run that completed meanwhile ends the stream without the events after the listing.
   The result frame contains the full history, but the dashboard does not take it from there:
   the hook closes the stream (`useOrchestrationRun.ts:67-76`) and the reducer only sets the result
   (`orchestrationSession.ts:79-85`), so that a settled tab can lack the end of the log until it is
   reloaded. `ScreenShowsTheLog` is the part that holds.
3. `store_schema_crash`: "Version 1 databases are migrated in place"
   (`docs/superpowers/specs/2026-06-27-...-design.md:127`). The migration's `ALTER TABLE` is durable
   before its `UPDATE` and version number. The property is about review files of version 1 at a
   start in which no statement on them failed. After a crash in between, the column is there and the
   version is still 1: every later start fails with a duplicate column and reviews stay unavailable.

Smaller differences between the documents and the code, met while modelling, that no run is about:

- Decisions are folded in the order of insertion, and their times are read before the insert, so
  that `docs/architecture.md:135` ("folded chronologically") need not hold for concurrent decisions.
  `TrailsAgree` shows that all readers fold the same order, which says nothing of the times in it.
- "Refreshing or reconnecting does not create a new run until the user selects Run again" (durable-run
  design, line 366): a start that was answered with an error forgets the request key, and the next page load
  asks for another run. `RunsAreAskedFor` therefore counts these starts.
- "Replay ... does not create duplicate records" (line 129): a wave that is run again asks the model
  again, and a supplier that is extracted by another name is a second alias record.
- `docs/qwen-integration.md:38` has a "deterministic fallback on any failure". The vision task has none:
  an image request that fails for good fails its agent, and an endpoint answers 502 or 400. An
  undecodable body takes the way of a bad request (400) and not of a provider error
  (`docs/architecture.md:87`, "normalize provider errors").
- `App.tsx:1053` divides by the length of the evidence checklist. With the compliance agent failed or skipped
  the list is empty (`ORC:425`, `455-457`): the API reports a progress of 0 and the page computes 0/0.
- `analyze_recall_incident` takes `affected_stores[0]` (`workflow.py:221`, `251`) and raises for a recall that
  matches no row, where the operations agent has `or ["All Stores"]`. Its callers pass the demo incident.
- A stream that is answered by anything but 200 leaves the tab at "reconnecting", with Run again disabled, until
  it is reloaded (`useOrchestrationRun.ts:90`). `OutcomeIsShown` leaves such streams out.
- A memory file that does not open is replaced by a dictionary: what agents remember until the next
  restart is gone after it.

## 4. What is proved

Every safety invariant and every action property of the runs of section 3 that pass is a theorem, and so is
the refinement of `DurableRun`: for any sets of runs, requests, agents, calls, clients, keys and rows, and
for any bounds. The theorems' modules have the same parts as the tables.

| Module | Theorem | States |
|---|---|---|
| `OrchestrationServiceProofs` | `TypeCorrect` | `Spec => []TypeOK` |
| | `AtMostOneWorker` | `Spec => []OneWorkerPerRun` |
| | `WorkersNeedNoTerminalCheck` | `Spec => []WorkersOnUnsettledRuns` |
| | `NoForeignIncident` | `Spec => []WorkersServeTheirIncident` |
| | `CheckpointsAreWholeWaves` | `Spec => []CheckpointIsWholeWaves` |
| | `FailuresAreIsolated` | `Spec => []SkipsFollowFailures` |
| | `AnnouncedMeansSaved` | `Spec => []AnnouncedWavesAreDurable` |
| | `NoAgentRunsTwice` | `Spec => CompletedWavesStayDone` |
| | `EventsAreNumbered` | `Spec => []LogHasNoGaps` |
| | `ResultsAreWhole` | `Spec => []ResultCarriesWholeHistory` |
| | `NoRunIsStranded` | `Spec => []NoStrandedRun` |
| | `OnlyOutagesStrand` | `Spec => StrandedOnlyByOutage` |
| | `ServiceImplementsDurableRun` | `Spec => RefinesDurableRun` |
| `AgentPipelineProofs` | `EventsAndCheckpointAgree` | `Spec => []EventsTellTheResult` |
| | `ReadersAreServed` | `Spec => []ReadersSeeTheirWriters` |
| | `AnalysisIsTheWorkDone` | `Spec => []AnalysisMatchesResults` |
| | `RecordsAreTaken` | `Spec => []CompletedAgentsAreRemembered` |
| `MissionControlSessionProofs` | `OneRunAtATime` | `Spec => []OneRunOnScreen` |
| | `TheLogIsShown` | `Spec => []ScreenShowsTheLog` |
| | `NoRunUnasked` | `Spec => []RunsAreAskedFor` |
| `ReviewLedgerProofs` | `DecisionsAreRecordedOnce` | `Spec => []AnsweredDecisionIsRecordedOnce` |
| | `RefusalsAreContradictions` | `Spec => []ConflictsAreContradictions` |
| | `OneHistory` | `Spec => []TrailsAgree` |
| | `ReadyNeedsApproval` | `Spec => []ReadyMeansApproved` |
| | `AuditTimeIsStable` | `Spec => []PacketTimeStable` |
| `MemoryStoreProofs` | `AnswersAreDurable` | `MemorySpec => []AnsweredIsOnFile` |
| | `MemoryOnlyGrows` | `MemorySpec => RecordsOnlyGrow` |
| | `UpsertsAddUp` | `MemorySpec => []RecordsAreSummaries` |
| | `OnlyWholeFilesAreServed` | `MemorySpec => []CurrentMeansComplete` |
| `ApiEdgeProofs` | `ClientsAreCapped` | `LimiterSpec => []WindowCap` |
| | `RefusalsAreEarned` | `LimiterSpec => []RefusedOnlyAtLimit` |
| | `RequestsAreAccounted` | `LimiterSpec => []TelemetryAccounts` |
| | `EdgeImplementsLimiter` | `FairEdgeSpec => LimiterSpec` |
| | `RetriesAreBounded` | `FairEdgeSpec => []PostsAreBounded` |
| | `TypedTasksAlwaysGiveAValue` | `FairEdgeSpec => []TextTasksNeverFail` |
| | `SourcesAreHonest` | `FairEdgeSpec => []SourceIsHonest` |
| | `NothingIsSkippedOrRepeated` | `Spec => []ReceivedIsLogPrefix` (`EventStream`) |
| | `NoWakeupIsLost` | `Spec => []SleepersAreCurrent` (`EventStream`) |
| | `OutcomesArePersisted` | `Spec => []OutcomePersistedFirst` (`EventStream`) |
| `DashboardProofs` | `ScreenOnlyAdvances` | `Spec => ReviewNeverGoesBack` |
| | `OneClickOneDecision` | `Spec => []NoDecisionTwice` |

Assumptions are the named ones on the constants: the agents are finitely many, the graph is a function and
its waves end (`DependsOnAssumption`; the code raises for a cycle), `AgentPipeline` has the nine agents
with their dependencies and the dashboard's stages (`SpecialistsAssumption`, `DashboardWavesAssumption`),
bounds are natural numbers, `NoTask`, `None` and `NoDetail` are not members of the sets they stand outside
of, limits are integers, confidences are numbers. TLC evaluates them on every instance.

### The service

*Types.* `TypeOK` is not inductive: a call of `_execute` writes to `runs[exec[e].run]`, so the run
must exist (`Placed`), also for the open `start` and `recover` calls; and `latest_sequence` is a
number only if a non-empty log has a last event (`LogHasLast`). `TypeInv` adds these. Every step of
a call is shown to be an `OwnStep`, one that touches its own call, log and row only, and `OwnStep`s
keep `TypeInv`.

*Workers.* `OneWorkerPerRun` is not inductive either: that no second worker is created depends on
`_ensure_worker`'s test of the registry, so the invariant must say that a call at work is the one
registered (`WorkersRegistered`: it is `tasks[run]`, its run is unsettled and of the process's
incident). This holds across startup because a run that `recover` has still to handle has no task
(`RecoveringIdle`), `start` is served only afterwards and for the process's incident
(`CallsOfThisProcess`), a process that is down has nothing in memory (`DownIsEmpty`), and a
completed run has a result, so that `_ensure_worker`'s test catches every settled run
(`ResultIffAnswered`). `WorkerInv` is their conjunction; the three worker theorems follow from it.

*Rows.* Whatever a step does, it writes no row, inserts one under a key that has none
(`InsertStep`), is one statement of a worker on its own unsettled row (`WorkerStatement`), or fails
a row that recovery finds under another incident (`FailStep`). The refinement goes by these cases.

*Waves and checkpoints.* A checkpoint is only as good as the memory it is written from.
`ProgressInv` says of every row that its results are those of the waves before `next_wave`
(`RowOk`), and of every worker how its memory stands to its row: between waves it is the row
(`InStep`), within a wave it has the row's results and those of agents of this wave that have
returned (`InWave`), and after an error those still at work belong to the open wave (`OfOpenWave`).
`gather` makes the difference: siblings return in any order, and the wave is saved when the last
has. The proof needs of the graph that `Resolved` grows, that a wave's dependencies lie before it,
and that `WaveCount` is the first turn with no wave left (`AgentGraphProofs`). `Resolved` is a
recursive function; the library's induction theorems cannot be used here, so `AgentGraphProofs`
proves from least elements (`LeastNat`) that a set with 0 and every successor has all numbers
(`SetInduction`), and applies it to the set of numbers for which the claim holds.

*Log and results.* While no outage has happened, the log of a run has the numbers 1 to its size, and
the recorder of the one worker stands at its end (`RecordersAtEnd`). This is false once a sibling
outlives its task, so `LogInv` also has that calls that are over have no agent at work
(`QuietCalls`); the theorem is therefore about `outages = 0`, and finding 1 is what happens beyond.
That a task in the registry is a call of its run (`TasksPointBack`) makes the test of
`_ensure_worker` reliable, which the next paragraph needs.

*Stranded runs.* While the store answers, whoever lets go of an unfinished run has handed it on:
`start` and `recover` to `_ensure_worker`, a worker to a settled row (`EndMeansSettled`), a process
that is lost to the next one's `recover`. `_ensure_worker` must find a free slot of `exec` or
a worker at work: its guard is the model's only bound on calls, and a call it keeps waiting stays in
`calls`. The argument is about one step (`NextStranded`) and needs no history without outages, so
it gives `StrandedOnlyByOutage`; with no outage so far every step ends with a store that answers
(`Healthy`), and it gives `NoStrandedRun`.

*Refinement.* `DurableRun` sees of each run its status, its wave and whether it has an answer. Each
statement on a row is one abstract step of that run, an insert is its acceptance, and everything
else, the claim of a run that is running already included, is a stutter. That a saved wave is the
next one and that an answer comes after the last is `ProgressInv`; that a settled run never moves is
`WorkerInv`.

### The agents

`PipelineInv` says the same twice, of the checkpoint (`SavedOf`) and of memory (`LiveOf`), as a
crash replaces one by the other. A completed agent's result is *backed*: the blackboard has what it
wrote, it has found what was there to find, and memory has its records (`Backed`); an agent under
way has done what the steps behind it say (`Left`), so that the last step makes its result backed.
Other agents cannot disturb this because every entry has one writer (`OneWriter`), and a reader
finds its writer's work because the writer is in an earlier wave (`ReadersDepend`). What the
conversions drop is empty, and for `Backed` an entry is full or not. A failed agent is left out: its
writes may be there or not.

### The tab

The screen belongs to the run chosen last because every way to a run goes through `Mount`; the inductive
part is `OneStart`: the start that is awaited is the one whose key is in the tab, so an older reply finds
another key. `ScreenFollows` ties the screen to the source: its events are those up to the source's last id,
which with the outcome has reached the end of the last listing, and no listing ends before the log did when
the stream was opened. For `RunsAreAskedFor` the invariant counts ids handed out, not runs, and one more
that the tab will make the next effect hand out (`Due`): a tab without a run, or one whose start has failed
and whose page has not yet heard of it (`IdsArePaidFor`).

### The ledger

Two calls with one request id can both be about to insert. `ReviewInv` says that a request id has
one row (`OneRowPerRequest`), that every row is what some call asked for (`RowsWereAsked`), that a
call past its insert has its decision in the table (`DecisionsAreOnFile`), and that one that is to
be refused met a row (`RefusalsMetARow`). Answers are what `State` makes of a beginning of the
packet's rows (`AnswersAreProjections`); the table only grows, so of two beginnings one begins with
the other. The two folds, the selection of a packet's rows and the review of them, are handled by a
general lemma: the library's fold over a set of positions is a function on sets that takes off the
greatest position and goes on with the rest (`Fold`, `Selecting`, `Projecting`), which an induction
over the beginnings of the ledger turns into what is claimed of the result: ready after an approval,
the time of the first row.

### The stores

*Memory.* A process that stops may take the last answer with it but not the row: every step of
`MemoryStore` either leaves the file's records and answers alone or upserts one record and answers
at most for it (`FileStep`). An upsert adds one occurrence, keeps the first sight and never lowers
the confidence. `UpsertsAddUp` says more: the record is what a fresh count over all observations
gives. The invariant spells the summary out by its positions, first, last, highest, last that had a
detail (`Summarises`), which an upsert moves by one; that this determines the record, `Max` and
`Min` included, is shown once.

*Files.* Statements become durable one by one, and a script can end anywhere. The invariant says
that what is left of it makes the file current: `ToBuild` and `ToMigrate` list the remainders with
what must be there by then, and `ScriptGoes` holds between any two statements, the open transaction
being replayed by `ApplyAll`. A statement that meets what is there already is refused, so an
interrupted script leaves the version as it was, and a file of the current version is complete. It
is also why finding 3 is not a matter of lost data: such a file is never served from.

### The edge and the stream

*Limiter.* `WindowCap` speaks of what was admitted, while `allow` only compares the entry's count.
`Headroom` ties the two: in each minute a client has had at least one limit less than `quota`, but
for its share, which is the whole limit in a minute that is over, its entry's count in the current
one, and nothing in one that lies ahead; setting the clock back adds a limit to `quota` for the
share it resets. `EntriesCount` keeps the share below the limit and the entry below what was
admitted. `LimiterInv` is their conjunction with types, refusals and accounts. Nothing at the edge
touches the limiter but its own actions (`EdgeImplementsLimiter`), so all of this holds there too.

*Question.* Posts are counted against what the attempts begun so far allow (`Budget`): those of the
earlier tries in full, and of this one the posts up to now. It needs that a question sleeps only
when an attempt is left and that only the vision agent tries a second time.

*Stream.* What the client has says nothing of what it will get, so `ReceivedIsLogPrefix` needs
`InFlight`: the frames on the wire are the events between the client's last id and the server's
cursor, in order, and once the generator has returned one terminal frame lies behind them, with the
status of a row that no longer changes. A lost connection empties the wire, and the next one begins
at the client's id, so the tie holds however often that happens. `CursorIsCommitted` keeps a listing
that is resumed late within the log. `SleepersAreCurrent` is inductive with it: the generator falls
asleep only where it has just looked, and whoever commits afterwards still owes the notification.

### The dashboard

*Panels.* No late reply can turn the review back because at most one review request is in flight
(`OneReview`), which is what the disabled buttons are for: its panel is loading, and every control
that would ask for a review is then disabled. Its answer lies between what is shown and the ledger's
length (`Between`). For `NoDecisionTwice` the page must know the ledger: while no answer is lost and
nobody else decides, what is shown is all of it unless the one review is in flight (`Undisturbed`).

### How proofs and runs go together

The inductive invariants were first checked by TLC as invariants of the instances of section 3.
`DashboardPanels` has its theorems as its evidence and no run in the list; its instance is beside it to
be run by hand: `dashboard_panels.cfg` (6 requests, 1 other decision, 1 fault; 903 k states), which
checks the inductive invariant, too.

**Only model-checked** is liveness: `EveryRunSettles`, `EventsReachClient`, `OutcomeReachesAll`,
`OutcomeIsShown`, `AlwaysServes`, `NoQuestionHangs`. They rest on weak fairness, which means
`ENABLED` of each action, and neither is within what the prover can do. The properties of the three
findings are refuted by TLC, and a theorem could not add to that.

## 5. Not modelled, and what is left

Left out for good:

- the agents' texts, insights and notices, the packet's sections and its Markdown, the content of
  model answers (kept as usable or not): presentation and wording;
- HTTP validation, upload file names and sizes, sample data, logging and request ids: sequential,
  without state that anything above depends on;
- inventory decisions, tasks, the checklist and the figures computed from them (functions of one input),
  the dashboard's store filter and its layout;
- `agent_checkpoints` rows, which are never read;
- `scripts/benchmark_agent_society.py`, a measurement without state of its own.

What would come next, in this order:

1. `EdgeImplementsLimiter` is a refinement between two detailed modules. The tab relies on the unique
   request key and on `ReceivedIsLogPrefix` of two others, the panels on `TrailsAgree`: an abstract API per
   module, implemented on the one side and instantiated on the other, would turn "relies on" into theorems.
2. Promises of the service as action properties of their own, beyond those `DurableRun` implies: a settled row
   and its result never change again, the version of a row only grows by one.
3. For finding 1, what remains true after an outage: which numbers a log can miss, and what a stored result
   then carries of the history.
4. The memory's alias records (section 3, smaller differences): a statement of how many a replayed wave may add.

## 6. Running it

    tlc -config service_waves.cfg MCOrchestrationService.tla
    tlc -config event_stream.cfg EventStream.tla
    tlc -config stores.cfg MemoryStore.tla
    tlc -config api_edge.cfg ApiEdge.tla
    tlc -config dashboard_panels.cfg DashboardPanels.tla
    tlapm OrchestrationServiceProofs.tla

`PROJECT.json` names the module of every run; the theorems' modules are the `*Proofs`.

Operators introduced by "A plausible bug:" are not part of the specifications. Each is a wrong
variant of the definition that follows it; `PROJECT.json` names the property that TLC finds
violated when it takes that definition's place.
