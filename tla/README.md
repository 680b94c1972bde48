# A TLA+ verification of the stock prediction pipeline

## 1. The system

Every evening the system reads news, lets language models extract causal signals
from them, builds a keyword graph, scores stocks and publishes a list of
recommendations. TypeScript processes do this: a scheduler that spawns the daily
run, the run itself (`backend/scripts/run-daily-recommendation.ts`), an HTTP server
(`backend/src/http`) with a web client (`web/`), and operator scripts. They share one
PostgreSQL database and a few JSON files, and nothing else: no process knows which of
the others is alive. What is hard is in the protocols over those shared rows.

### Inventory

| Component | State | Operations | Hard behaviour |
|---|---|---|---|
| AI workflow (`ai-causal-workflow.ts`) | `AiWorkflow` row (status, owner, lease), `AiWorkItem` rows (batch of news, root, owner, lease, request count), candidates, content ledger | start, renew, close of a session; prepare, claim with repack, resolve, commit, split, park, settle of the workers | ten workers per process, several processes per trace, crashes, leases that run out while the process goes on |
| AI scheduler (`ai-adaptive-scheduler.ts`, `ai-scheduler-store.ts`) | `AiSchedulerState`: leases and health per quota group, provider and model | acquire, finish, wait, give up | all processes share the limits; late answers after a breaker opened; crashed holders |
| Content cache (`causal-cache-store.ts`) | `ContentCacheEntry` rows (status, lease owner, lease end) | claim, commit, release, wait for another's commit | two traces extract the same text at the same time |
| Run lease (`pipeline-run-lease.ts`) | session advisory lock, `RunLease` row (owner, generation, end) | start, renew, close, assert holder | a stalled holder whose connection was dropped |
| Checkpoints and artifacts (`pipeline-checkpoint.ts`, `pipeline/artifact-store.ts`, `pipeline/stage-executor.ts`, `pipeline/stage-status.ts`) | `PipelineCheckpoint`, `RunArtifact`, `RunArtifactShard`, `PipelineStepTrace` | checkpoint a stage, commit a version, move a stage's status, reuse | check then write in two statements, failure between them, resume |
| Stage graph (`pipeline/stage-registry.ts`, `pipeline/registry-pipeline.ts`) | none (fixed graph of 14 stages) | order, recompute plan, artifact reuse across traces | what a change invalidates |
| Publication (`publish/`, `trace-manager.ts`) | `RecommendationPublish`, `RecommendationSnapshot.isPublished`, `RunTrace` | publish, reuse, backfill, complete, fail | two traces of one day publish at once |
| Batch planner (`ai-batch-planner.ts`) | none | plan a batch, split a batch | boundaries of sizes and budgets |
| AI transport (`ai-transport.ts`, `ai-chat-client.ts`, `lib/openai-stream.ts`) | one HTTP exchange | perform, time out, classify | first-response, idle and total timeouts |
| Refresh ledger (`data-refresh-ledger-service.ts`) | `DataRefreshLedger` rows | cached load, record success or failure | a failure overwrites a success |
| News intake (`pipeline-utils.ts`, `scripts/fetch-newsnow.ts`) | the ledger entry of a day, files in `tmp/` | list, fetch, clean up, link, record | two runs delete or share each other's file |
| Candle synchronisation (`scripts/sync-stock-history.ts`) | `Candle` rows; queue, breaker and failed set of the process | calendar, gaps, snapshot, fallback, batched inserts | a source that fails, a batch that is lost, prices of an open session |
| Reconciliation (`scripts/backfill-yield-records.ts`, `backtest-engine.ts`) | yields and the reconciled flag of `RecommendationSnapshot` rows | select, read candles, update | candles that arrive between two reads, two backfills |
| Daily scheduler (`mvp-daily-scheduler.ts`) | next run, in-memory set of runs done today | sleep, run the chain of commands, remember | chains that cross an evening, restarts |
| Runtime store (`http/json-file-store.ts`, `http/runtime-*.ts`, `http/config-store.ts`) | `runtime-store.json`, config files | read, write, update; promote, confirm, roll back a version | read-modify-write without a lock, torn files |
| HTTP dispatch and web client (`http/runtime-data-operations.ts`, `web/src/app/dispatch-poller.ts`) | batches of the runtime store, `RunTrace` rows; poll timers | dispatch, mark failed, poll, cancel | a run that ends after its observer gave up, or beside it |
| Scoring and selection (`backtest-engine.ts`, `scoring-contribution-engine.ts`, `temp-stock-recommendation-service.ts`, `recommendation-cooldown-service.ts`) | `EvidenceContribution`, `RecommendationSnapshot`, fingerprinted steps of a trace | begin with a fingerprint, score, select, reuse | a run that is resumed while its inputs change, quotas of two passes over the candidates |
| Penalties and exposures (`keyword-performance-penalty-service.ts`, `*-exposure-*`) | `KeywordPerformancePenalty`, `StockExposureFact` | refresh the penalties of a day, sync facts once for a trace | days replayed out of order, knowledge of later days |
| Other news sources (`news-*`, `public-news-*`) | `MarketNews` | fetch, deduplicate, upsert | partial failures of sources |
| Graph, forecasts, experiments (`friend-network-*`, `theme-forecast.ts`, `expectation-gap-service.ts`, `experiment/`) | derived tables | pure computations over one transaction | numeric boundaries |

How they interact: the daily run takes the run lease, checkpoints its preparation,
opens an AI session and hands the news to the AI workflow; each worker of the workflow
claims content-cache entries, then calls the extractor, whose every HTTP request goes
through the AI scheduler (a database transaction before and after the request); that
same transaction charges the request to the work item. When the workflow is complete
the run builds its artifacts in checkpointed stages and publishes. The scheduler runs three
commands in a row every evening, `sync-stock-history && backfill-yield-records &&
run-daily-recommendation`, and an operator may start the same commands by hand at any time. The
HTTP server reads the published rows, spawns runs on request and keeps its own state in JSON files.

What makes each one correct, in a sentence: the workflow loses no news, pays for none
twice without need and announces completion only when all are done; the scheduler never
exceeds a limit and always gets its slots back; the cache lets one owner at a time extract
a text; an old run owner writes nothing after a new one has started; a trace and a day
have one active publication; a stage is reused only when its inputs are unchanged and
what is final stays so; a store does not lose an acknowledged write; a candle is the final price
of its day, a settled yield is computed from the right two of them, and no evening is lost or
run twice; a day's list keeps its quotas and loses no candidate, what was published stays as it was, and a score is cut only for
a loss that was known on its day.

## 2. What is modelled

### `AiWorkflow` - the durable extraction of one trace

State and code: `wf` is the `AiWorkflow` row, `item` the `AiWorkItem` rows (an `absent`
identity is a row not yet inserted, a `deleted` one was absorbed by a repack), `sess` the
memory of one process (where it is, whether its abort signal fired, the status it will
close with), `job` the local variables of its workers. `commits` and `paid` are history:
outcomes written per news and paid requests that carried it.

One action is one transaction or one statement sent by itself. `Start` is the conditional
UPDATE of `AiWorkflowSession.start`; `Renew` is the heartbeat, whose two statements can
fail one by one; `Prepare` is the planning transaction; `ClaimTask` is the claim with its
repack (`Absorb` takes the head of other untried roots, `CutOff` gives the tail a new root);
`Resolve`, `Waiting`, `Reserve`, `NoModel`, `Reply` are the way through the cache, the
scheduler's reservation transaction and the answer; `Commit`, `Split`, `NeedsAttention`
are the three ways to finish, `StoreFails` their transaction failing; `Settle`,
`MarkComplete`, `Leave`, `CloseTasks`, `CloseWorkflow` are the end of a session. `Crash` may
happen anywhere. The batch planner is abstracted to any partition of the news (what it
chooses is a matter of cost), the content cache to its three outcomes (hit, claimed,
timed out), the scheduler to grant, wait, no model.

Time is the remaining time of each lease in heartbeat periods. `Spec` lets a process stall
for any time, so a lease may run out while its holder goes on; `PunctualSpec` excludes
that and leaves crashes. The statement `UPDATE ... WHERE owner = me` is atomic, so is a
transaction that locks its rows; `FOR UPDATE SKIP LOCKED` shows as `RowsMayBeLocked`, a
worker that finds nothing because another transaction holds the row.

`ExtractionContract` is the abstract specification: each news gets an outcome at most
once, and completion is announced only when all have one. `ImplementsContract` is the
refinement, with `outcomes <- commits` and `complete <- wf.status = "AI_COMPLETE"`.

`AiWorkflowWorlds` puts both cases in which the books are right into one specification, `MixedSpec`: sessions with all their
workers that never stall, and sessions with one worker that may.

### `AiScheduler` - limits shared by all processes

`health` and `lease` are the JSON snapshot of `AiSchedulerState`, which `transact` reads and
writes under one advisory lock, so `acquire` and `finish` are atomic steps. An executor is one
`execute()` in some process. `Acquire`, `Wait`, `NoCandidate` are the three outcomes of
`acquire`; `Succeed`, `Fail`, `Cancel` are `finish` with what `executeUntil` does next; `Crash`
is a process that dies with its lease in the table. Each scope of a candidate (quota
group, provider, model) has its capacity, failures, cooldown, breaker and the identity of
the credentials it was seen with; `Worsened` and `Improved` are the two ways a report moves
it, `Blamed` the scopes a failure kind is held against.

Start spacing, the minute window with its learned limits and the daily quota only delay
a start: they appear as the nondeterminism of `Wait`. `FitsFor` stands for the size checks
(context and output tokens). A request ends before its lease does (`Tick` waits for it):
`performAiRequest` aborts at the model's total timeout and the lease lasts 30 s longer, so
this assumes that a process is not suspended for 30 s while its request is open.

### `ContentCache` - one owner extracts a text

`entry` is the `ContentCacheEntry` rows, `session` the processes, `worker` the local variables of
`resolveTaskCache` in each worker: the texts of its task in order, what it has claimed, hit
or taken alone. `load` says which tasks each worker may meet in this behaviour. `Claim` is the INSERT or
conditional UPDATE of `claimCacheEntry`, `Look` the SELECT that follows when it changed nothing,
`WaitHit` and `WaitTimeout` one poll of `waitForCommittedCacheEntry`, `Extract` the paid request,
`Commit` the transaction that stores every claimed text or none, `Release` the conditional UPDATE of
`releaseCacheLease`. `Renew` is the third statement of the session's heartbeat. The sessions in the
constant `Prompt` renew in time, which leaves only crashes; the others may stall past their leases.

### `RunLease` - one run per trace, and the checkpoints of an old one

`lock` is the session-level advisory lock as the server knows it, `row` the `RunLease` row, `run` the
`PipelineRunLease` object of each process with its connection, which the server may have cut
before the client learns of it. `Connect`, `ReadLease`, `WriteLease` are the statements of `start()`,
`BeatRead` and `BeatWrite` those of the heartbeat, each of which may fail, also after it reached
the server (`StartFails`, `BeatFails`). `Begin`, `Fence`, `Insert` are `checkpointWork`: compute, check
the lease, write, in three steps as in the code. The guarded Prisma client and `fetch` show as
`Active` in each of them. `late` is history: checkpoints written by a run after a newer generation.
`releasePersistedLease` sets the owner to NULL in a NOT NULL column (`schema.prisma:398`), so it
always fails and `close()` ignores it (`pipeline-run-lease.ts:146`): `Released` leaves the row as it is.

### `Publication` - the active record of a day

`finished` is the SUCCESS traces of one cluster and asOf in the order of completion, `supersededBy`
the committed `RecommendationPublish` records, `job` the processes: runs by the registry or the legacy
executor, publish-only, and a caller of `forceNewVersion` (an option of the API that only tests
use). `Complete` is `completeRunTrace`, a transaction of its own; `publishRecommendation` is one READ
COMMITTED transaction cut at its statements: `ReadLatest`, `Insert`, `Scan` (the snapshot of the
updateMany) and `Commit` (its row locks obtained, the WHERE looked at again, and the commit).
`Reuse` is its other branch. `Fail` rolls back and runs the caller's error path, or does not when
the process dies. `known` is history: what each record's transaction could see. One run per trace is
modelled here; what a rerun finds is in `RegistryRun`.

### `StageGraph` and `RegistryRun` - the runs of one trace, stage by stage

`StageGraph` is the constant part: the 14 stages of `stage-registry.ts` with their dependencies, the order that
`resolveStageOrder` gives them, what a change invalidates, and the plans of a stopped and of a recomputing run.
`RegistryRun` is `runRegistryDailyPipeline` over it. `artifacts` is `RunArtifact` with its shards, `step` the
`PipelineStepTrace` row of each stage, `trace` the `RunTrace` row, `rows` the rows of the trace that a later stage
looks for (candidates, graph, evidence, snapshot, and whether the snapshot was released), `published` whether
`publishRecommendation` has committed, `lock` and `holder` the advisory lock and the owner of the lease row (what
`RunLease` models in detail), `run` the memory of each process. One action is one statement or one transaction:

* the start: `Begin`, then for a recomputation `CopyRead` and `CopyWrite` (`copyUpstreamArtifacts`) and `CarryOver`
  (`carryOverTraceScopedState`), then `OpenRead` and `OpenWrite` (`startRunTrace`);
* a stage: `ReadUpstream`, `ReadLatest` (reuse or go on), `EnterRead` and `EnterWrite` (to RUNNING), the handler
  (`Refuse`, `Work`, `ArtifactStart/Write/Commit` for the stages that call `runArtifactStage`, `Score` and
  `Recommend`, `Select` and `RecordEmpty`, `StartPublish`, `Complete` and `Publish`), `CommitRead` and `CommitWrite`
  (`commitArtifact`), `FinishRead` and `FinishWrite` (to SUCCESS), `MarkRead` and `MarkWrite` (to FAILED);
* the end: `Judge` after recommendation_select, `End`, and the error path `StopRead`, `StopWrite`.

`Fail` is a failing statement at any of these places with the catch block that the code has there, `Crash` a killed
process, `Cut` a connection that the server drops while the run goes on. The payload of an artifact is abstracted to
whether two executions produce the same (`Varying` stages do not), which is what decides reuse, conflicts and
coherence. The trace that a recomputation copies from has ended and does not change. `overlapped` and `late` are history: a run started
while another one was going on, and the tables (artifacts, status of stages, status of the trace) that a run has written after another one
had succeeded it.

### `RuntimeState` and `Dispatch` - the state file, the dispatched run and its poller

`RuntimeState` has the snapshot of `runtime-store.json` (active version per cluster, version rows, batches) and what each
request changes in it, `Normalize` included. `Dispatch` is the server over it. `file` is empty (truncated), garbled, or a
whole snapshot; `job` the requests, the exit handlers and the polls that the event loop works on; `trace` and `run` the
`RunTrace` row and the process of a dispatched run, `hooked` the runs whose exit this server hears of, `page` the poller
of the web client. `JsonFileStore.update` is `Read`, `Truncate`, `Fill`, with an await between them and no lock; a file that
does not parse is reset to the defaults (`reset`, `resetFill`), also by a query. A rollback reads twice (`Peeked`, then
`Updated`). `dispatchDaily` is the update, then `Spawn` or `CannotSpawn`; `ExitEvent`, `Select`, `MarkRow` and the update after
them are `markBatchFailedIfNotTerminal`. `Ask`, `FindRow`, `Receive` are one poll, `Polled` what the page makes of it.
`Restart` kills the server between any two steps. `clash` and `stale` are history: a read met a write, a rollback demoted
what was no longer active.

### `CandleSync`, `YieldBackfill`, `NewsIntake`, `Evening` - the evening chain

Four modules in a row, each extending the one before. A day d has two ticks, 2d - 1 while its session is open and 2d after the
close; a price is the tick at which it was read, so the candle of day d is final exactly when it is 2d.

* `CandleSync`: `candle` is the `Candle` table, `sync` the processes of `sync-stock-history` with their calendar (AKTools or
  Yahoo, failing that the weekdays), days, queue of rows, streak of the breaker, failed set. A step is one request or one `createMany`.
* `YieldBackfill`: `rows` is the `RecommendationSnapshot` rows with the two days that each yield was computed from, `fill` the
  processes of the backfill, which select the open rows once, read two sets of candles and update one row after the other.
* `NewsIntake`: `ledger` is the entry of NewsNow for an asOf, `file` the files in `tmp/`, `intake` the fetches: ledger lookup,
  download, listing and deletion of old files, writing, linking, recording.
* `Evening`: `work` is the command that the scheduler (`night`) or the operator (`hand`) is running, `next` and `since` the scheduler's
  clock. `Wake` is the timer, `SyncExits`, `FillExits`, `NewsEnds`, `Recommend` the chain with its `&&`, `Restart` the container. `World` lists the
  circumstances of a behaviour (where it starts, what the operator may do, whether time passes during commands), so that one run
  covers several without their product.

### `Selector` and `Feedback` - how a day's recommendations act on a later day

`Selector` is the loop of `selectTopRecommendationsWithDiagnostics`: `Load` keeps the candidates that pass the gates and rest since
the day before, `Skip`, `Postpone`, `Take` are the first pass over one candidate, `Fill` the second pass over what was postponed,
`EndFirst` and `EndFill` their ends. The counts that the code keeps in maps are functions of `taken`; rank and diagnostics are left out.

`Feedback` is the world around it. `facts` is the day the `StockExposureFact` rows are valid from, `penalties` the
`KeywordPerformancePenalty` rows, `store` the rows of each trace: its status, its two fingerprinted steps, its evidence, its
recommendations, which of them are published or have their yields. `run` is the memory of `runBacktest` with the fingerprint that `Begin`
has read. `Start` and `Sync` are the preparation, `Refresh` is `refreshBaselinePenalty` (before the scoring in the registry, after the
publication in the legacy executor), `KeepScore`, `Refuse`, `StartScoring`, `Score` are the reuse, the refusal and the transaction of the
first step, `KeepChoice`, `StartSelection`, the loop of `Selector`, `Choose` those of the second, then `EndEmpty` or `Settle`, `Publish`,
`Finish`. `Fail` rolls back and runs the catch block, `Crash` kills the process, `Backfill` is what `YieldBackfill` models in
detail. `torn` (the inputs moved between the fingerprint and the scoring) and `before` (who was published when a trace chose) are history.
One trace has one run at a time, which is what `RunLease` is for; runs of different traces overlap and days come in any order.

Simplified: the causal signals, news, candles and aliases of a trace are constant, and a stock has one keyword. Scores are three
numbers, with, without a penalty and of the surge channel, which in the code too adds nothing when there is no evidence. The second rule of
penalties (a smooth factor) and the thresholds of a loss are left out: a stock loses in a world or does not. A registry trace is tried
once, because a stage that failed stays so (`RegistryRun`). While the loop of a selection runs nothing else happens, since it reads
nothing that others write; it is an implementation of `Selector` all the same, which is proved (`RunsSelect`).

## 3. The runs

| Run | Question | Instance |
|---|---|---|
| `workflow_mixed` | Is any news lost, doubled, overpaid, paid after its commit, or completion announced early; does it implement the contract; has NEEDS_ATTENTION a cause? | 2 sessions, 2 news, 3 rows; 2 workers each with crashes, or 1 worker each with stalls and crashes |
| `workflow_ends` | Does every session end? | 1 session, 2 news, 4 rows |
| `workflow_stall` | With concurrent workers and stalls: is completion still honest? No (finding) | 2 sessions, 2 workers, 2 rows |
| `scheduler_breaker` | Are the limits per scope and the single probe kept under late answers, cancellation and crashes? | 3 executions, 1 model, 1 provider |
| `scheduler_pool` | Are the global limit and the reason for attention right with changed keys and failures that disable; do slots of crashed executions come back? | 2 executions, 2 models |
| `cache_mixed` | Does a session that does not stall keep the leases of its tasks, and does waiting end, beside a session that stalls? | 2 sessions (1 prompt), 2 workers in one, 2 texts, three loads |
| `lease_fence` | Does an old run learn of its end, and how much may it still write? | 2 runs, 2 stages |
| `publication_overlap` | What may overlapping publications of a day leave behind? | 2 traces, 4 processes, 2 versions |
| `registry_mixed` | Does what is published fit together; what stays final; when may a run be refused; what does a good end leave? | 2 runs of a trace, 14 stages, 5 command lines |
| `dispatch_mixed` | Which accidents may undo an acknowledged change; do versions stay consistent; is success kept; does polling end? | three loads of up to 5 requests, 1 restart, 1 resume |
| `evening_mixed` | Are prices final, settled yields right, news lost only for a cause, evenings neither lost nor doubled? | 6 days, 2 stocks, seven worlds |
| `feedback_mixed` | Does the list keep its quotas and lose nobody; does a published trace stay; has a penalty a cause, evidence its inputs, a repeat a late publication? | 4 stocks, 3 traces on 4 days, three kinds of worlds |

Why the bounds are enough. Two news are the smallest batch that can split, be absorbed
and be cut; three rows are a root with one split, or two roots that are repacked into one
and a new one; a second session is what a resume or a takeover needs, and sessions are
used once because each has its own random owner. One request per root reaches the end of
the budget at once. A lease of one period already passes through live, ending (neither
`> now` nor `< now`) and expired. In the scheduler three executions over a capacity of two
are the smallest number where one is refused, a trip after two failures lets one of three
calls be late, and leases are as many as executions. In the cache two texts are what a task that
holds one and waits for another needs; the loads are two texts in opposite orders, one text wanted by
two siblings and a stranger, and one text twice in a task; one wait period separates a poll that finds
the result from the one that gives up. Two runs make a takeover, and two stages the second late write
that must not happen; the theorems about the lease hold for any number. Two traces overlap in a day and two
versions let one of them supersede itself.

In `registry_mixed` the graph is the real one. The first run is a daily run or a recomputation from exposure_refresh, the
only one whose connection may be cut; the second an ingest that stops behind graph_snapshot, or a recomputation from
exposure_refresh, evidence_score or causal_extract (which cannot work). So a run meets its own command, a
longer and a shorter plan, and another kind; one run may crash or meet one fault (`MaxFaulty`). Two runs are enough for a
takeover and a resume. A third finds more than a resume in one case, an overtaken run that writes an artifact (section 4), which `late` excuses. `dispatch_mixed` has two requests open at a time
(`MaxOpen`), the smallest number for a lost update; its loads are five changes of one cluster's versions, a dispatch with its run and
polls, and a new cluster with a rollback across clusters, a note and a query. The poll delays are scaled to first 1, base 1,
cap 2, total 3: the back-off reaches its cap and the timeout is reached. `evening_mixed` has three
sessions from a Wednesday to a Friday (whose evening has no run), a weekend of one day, a Monday on which a stock is suspended, and a Tuesday.
Workers, batch size and breaker threshold are 2, so that a batch mixes stocks and a breaker opens; the horizons 1, 3, 5 are scaled to 1 and 2
sessions. Its worlds: a steady scheduler with three faults (`Steady`); an operator who synchronises beside it with one fault (`Twice`); one who
synchronises and fills while the exchange is open and commands take time (`Hasty`, `Late`); a daily run by hand beside the scheduled one
with one fault (`Rivals`); a second synchronisation over a longer gap, whose batches land out of order (`Beside`); and a backfill by hand between whose
two reads the scheduler stores candles (`Parted`). That one synchronisation passes a stock over because another one has reported it takes three
stocks and is not reached by the run; the theorem `SettledYields` covers it.

In `workflow_mixed` the two cases are initial states of one run (`stalls` of `AiWorkflowWorlds`), because two workers with stalls do break the books:
`PunctualAttention` is `AttentionHasCause` for the behaviours without stalls, and the other properties hold in both.

`feedback_mixed` has three kinds of worlds. One trace that has been scored chooses among four stocks with any of three keywords (two of one
type) and any of two industries or none, for a list of three, two of a type and two of an industry, diversity among the first two: the smallest
numbers at which each quota fills while there is still room in the list, and a postponed stock competes with a later one. The gated
worlds have a stock that fails some gates, and the surge channel. The replays are three traces on the days 1, 3, 4 (or 1, 2, 3), by the legacy
or the registry executor or both, two of them with two faults in the legacy executor. A yield is visible after 2 days, a loss counts 3 days back
and a penalty lasts 1 day more, exposures are refreshed after 1 day: so a loss of day 1 is visible on day 3 and counts on day 4, the days before
2 cannot know it, and each interval has a day on either side of its end. Symmetry is used over interchangeable
identities, only in runs without liveness.

Fairness. `FairSpec` of the workflow: time passes, the one-hour timer fires, and what a process
does by itself continues until it dies. Starting, renewing, crashing, and an answer of a
provider are not promised. Node runs timers and settled promises eventually, and each
database call has a timeout, so this is what the code has. `FairSpec` of the scheduler:
time passes, and a request that is out reports (it is aborted at its total timeout).
`FairSpec` of the cache: time passes, a waiting worker polls (`waitForCommittedCacheEntry` sleeps and
asks again until its deadline) and the heartbeat of a prompt session goes on. `FairSpec` of the lease: the heartbeat
of a living process goes on (an interval timer, and each statement is answered or times out after ten
seconds). `FairSpec` of the dispatch: a request of the server goes on and the timer of the page fires; that a run ends,
that a client sends or an operator resumes is not promised, and a restart is never required. `FairSpec` of the evening: the
timer of the scheduler fires, and a command takes its next step, since each of its requests has a timeout. `Feedback` needs none: all it promises is safety. Deadlock is checked for the scheduler of
the AI calls, where an execution may always begin again, and not for the others, whose processes really end.

Types. The type invariants of the proved modules are theorems and in no run; that of `Evening` (which covers the
three modules it extends) is stated in the module and held on the same instances, but a run spends its time on what can go wrong.

## 4. Findings

One run's counterexample contradicts a line of the repository.

* `workflow_stall`: planning and repacking "保证不漏不重" (lose nothing, repeat nothing), says
  `ai-causal-workflow.ts:442`. A worker that stalls past its lease works on with a batch a
  resumed session has meanwhile put back. The commit checks the owner, not the claim, and
  two workers of one session share the owner: the stalled worker commits the batch it
  remembers under a row that its sibling claimed again with another batch. The news that the
  row gained in between has no outcome, the row is SUCCESS, and the workflow closes as
  AI_COMPLETE.

What follows was found while modelling. The models have this behaviour, the passing properties
say exactly how far it goes, and no run of its own repeats it.

AI workflow and cache:

* A task that claimed some texts and gives up waiting for another one has not set its `resolution` yet,
  so the catch block (`ai-causal-workflow.ts:369`) releases nothing, and the heartbeat renews the leases until the
  session ends; `causal-cache-store.ts:153` says that leases are released on failure.
* A resume right after a crash may end NEEDS_ATTENTION although no task failed, because the
  rows of the dead process still hold their leases: the second disjunct of `AttentionHasCause`, checked and proved as `PunctualAttention`.
* Two sessions that meet two texts in opposite orders hold one each and wait for the other
  until both time out (`WaitEnds`) and ask for attention.

Lease and publication:

* An old run may write the one checkpoint it had passed the lease check for
  (`pipeline-checkpoint.ts:40-41` are two statements, against the comment at 39): `OneLateCheckpoint`.
* Two traces of a day that publish at the same time both stay active, against
  `publish-recommendation.ts:101` (one valid record per cluster and asOf). `DoubleActiveMeansOverlap` is what holds.
* A reused record may be superseded: `publish-recommendation.ts:62` speaks of a record that is not,
  line 64 does not look. No superseded record comes back to life by it (`ChainsEnd`).
* With the legacy executor, a failing diagnostic query or metrics update after publication turns
  the published trace to FAILED (`run-daily-recommendation.ts:2816`), against the comment at 1978:
  the second disjunct of `PublishedSucceeded`, which is a theorem (section 5).
* A process that dies between `completeRunTrace` and `publishRecommendation` (`run-daily-recommendation.ts:2535`) leaves a complete trace
  without a record, which `publish-recommendation.ts:5` calls the only source of truth; every rerun reports
  "推荐已完成；未重复执行。" and does not publish. The last disjunct but one of `EndIsRecorded`; `publish-only` repairs it.

Runs of a trace (`RefusalHasCause`, `EndIsRecorded`, `FinalUnlessLate`, `PublishedIsCoherent`):

* `commitArtifact` asks for the lease in a statement of its own (`artifact-store.ts:137`), so a run that was overtaken may still commit one
  artifact, as the newest version. With three runs, what is published then differs from the newest artifacts of its trace: the first stops behind
  a stage, the second recomputes that stage and is cut off in front of its commit, the third reuses what the first left and publishes.
* FAILED of a stage is final, so a rerun of a trace with a failed stage is always refused. A crash between
  the transaction of `runArtifactStage` and `commitArtifact` leaves SUCCESS without an artifact, and the trace is stuck.
* `--recompute-from` news_prepare, causal_extract, graph_snapshot, recommendation_select or recommendation_publish cannot finish: the first
  stage needs the memory of a handler that did not run or rows that are not carried over (`DeadEnds`). One from
  reconciliation, strategy_evaluation, expectation_gap or theme_forecast ends well and leaves the trace PENDING.
* A daily run of an ingest trace that is SUCCESS returns at once as "推荐已完成".
* evidence_score does not depend on expectation_gap and theme_forecast in the registry, though the scores read them: a change
  there does not invalidate the scores.
* A stage that is reused may keep the status RUNNING. The copies of a run that was taken over are not lease-guarded.

HTTP server (`KeptUnlessClash`, `PromotedIsActive`, `SuccessKept`, `PollEnds`):

* A read, of a GET too, that meets the truncated file replaces the whole store by the defaults, and two writers may leave a
  garbled file that the next read resets.
* A batch that is lost this way answers 404, and the page reports an error although the run goes on.
* Promote, roll back, promote gives two version rows one id; a rollback to the active version marks it as rolled back, one may activate a
  version that waits for confirmation, and two rows may be promoted (each in its time).
* The exit handler overwrites PAUSED, NEEDS_ATTENTION and PENDING with FAILED, and SUCCESS too if its query failed
  (`runtime-data-operations.ts:1706` falls through to the unconditional UPDATE). A restart of the server loses the handlers.
* COMPLETE_EMPTY is shown as RUNNING until the page gives up after 30 minutes.

Evening chain (`CleanSyncIsComplete`, `PricesAreFinal`, `SettledYieldsAreRight`, `IntakeFailsForCause`, `EveningsAreAccounted`):

* Gaps that the snapshot path failed to fill are forgotten by the report of the fallback. A failed `createMany` loses the rows of
  stocks that are reported as successes, and the process may exit with 0. A suspended stock is reported as failed.
* The backfill does not ask whether a yield is visible yet (`backfill-yield-records.ts:6` says so); line 44 "5 日已可见" is only true in
  the sense that a fifth candle exists. A row that is settled on the candle of an open session, or over a hole, is never visited again.
* Holes come from failed requests and writes, and without any failure too: an operator's synchronisation beside the scheduler's starts after the newest
  candle that the other one has stored and overlooks sessions that it has not; the rows of one stock go into different batches, which
  land in any order; candles arrive between the backfill's two reads of a row; a snapshot taken late is stored under the last day of the
  calendar for a stock that is suspended on it. `blamed` names the stocks that any of this has happened to.
* Synchronised rows carry no `tradingStatus`, so a `YieldRecord` never becomes mature.
* When Sina does not answer, the expected day is that of asOf, which no candle has: the run ends with candle_stale. The comment at
  `run-daily-recommendation.ts:127` ("只放行不收紧") says the opposite. The check looks at the newest candle of any stock only, and comes after
  the paid extraction.
* The ledger computes expiry from asOf, so an entry never expires for runs of that asOf.
* `mvp-daily-scheduler.ts:49` counts on the trace id to tell a second run of an asOf; `createTraceId` has a random suffix. The set
  `completedToday` never decides anything, because the next run lies always after now.

Selection and feedback (`PublishedIsFrozen`, `PenaltiesAreEarned`, `EvidenceIsOfInputs`, `RepeatsHaveCause`):

* The fingerprint of a step is read before the transaction that reads the inputs again: evidence may be stored under the fingerprint of
  other inputs, and is then reused by a run that finds those (`torn`).
* The legacy executor refreshes the penalties after its own publication. If that changes the inputs of its day and the run fails
  behind it, no further call can bring the trace back to SUCCESS: the fingerprint differs and published artifacts may not be rewritten.
* A resumed run keeps the recommendations it has stored, so the cooldown it applied may be older than what is published by then:
  a stock is recommended two days in a row (`RepeatsHaveCause` says when).
* A refresh of a later day that comes first records the loss with its own day, and the replay of an earlier day finds neither the penalty
  nor, because a loss is penalised once, a reason to make one. Likewise a sync of exposures by a later day hides the facts from an earlier one.
* The first pass may take a candidate of a lower score while a better one of a covered industry waits, and the better one loses its
  place for good when its signal type is full by then.
* `temp-stock-recommendation-service.ts:1221` explains the counter `skippedByTopDiversity` by what the second pass had not processed when the
  limit was reached; what the second pass skipped for its industry is counted too.

## 5. The proofs

`AiWorkflowProofs` proves for every number of sessions, workers, news, rows and any lease and
budget, from the four named assumptions of `AiWorkflow` and for `Spec`, stalls and crashes
included: the types (`TypeCorrect`), that the row which carries a shared budget is never
deleted (`RootsStayAlive`), and that a finished task is never reopened or changed
(`FinishedStaysFinished`). `RootsAlive` is not inductive: a repack deletes rows, and only rows
that nobody owns and that are their own root. The invariant adds that whoever is owned is
RUNNING or WAITING (`OwnersWork`) and that a child points to a root that is SPLIT or has been
tried (`ChildrenOfSplit`), so a repack cannot delete it.

Its second part proves the books of the workflow. While no process stalls (`PunctualSpec`), with
crashes and any number of workers: news are neither lost nor doubled (`NewsStayPartitioned`), get their outcome at most once
(`NewsCommittedOnce`), are complete when the workflow says so (`CompleteIsCovered`), stay within their budget (`NewsWithinBudget`),
are not paid for after their commit (`PaidOnlyBeforeCommit`), and the workflow implements `ExtractionContract`
(`PunctualImplementsContract`). With one worker per session the same holds of `Spec`, with processes that stall
(`OneWorkerBooks`, `OneWorkerContract`). With several workers and stalls it is false: that is the finding `workflow_stall`.
None of these is inductive. The invariant `Safe` says of the rows that what was paid for a news is charged to the root of
the row that holds it (`Charged`), that a row is SUCCESS exactly when its news have their outcome (`Accounted`), and that rows are
disjoint (`Disjoint`); of the workers that one whose row is still leased to its session knows its batch (`Remembered`) and has no sibling on
it (`Alone`); of the session that before the planning nothing has happened (`Planning`) and that whoever knows or says that all is done
is right (`Announced`). Every step is reduced to one of a few kinds (`Kinds`): `Quiet` steps move no news; a repack
and a split only move news between rows, with their account (`Moved`); the planning, a payment and a commit write the books. The two worlds
differ in one place only, why a claim never takes a row on which a sibling works (`Calm`): there is no sibling, or every worker's row is leased to
its session (`Entitled`), because a session at work holds the workflow lease (`Leased`).

Its last part proves why a session asks for attention (`AttentionIsCaused`, and for both worlds `PunctualAttentionHolds`): because a task did, or because
rows are still leased to another session. The invariant is `Attended`, beside the ones above: a session that runs and is not
aborted leaves no row paused, has a worker on each row that it owns, and when its last worker has left there is nothing to claim (`Attends`); who has not planned
owns no row (`NotYet`), and what is RUNNING or WAITING is somebody's (`Owned`). It needs a worker to exist (`WorkersAssumption`; the concurrency that
`ai-causal-workflow.ts:564` takes is at least one): a session without any would ask for attention over rows that nobody has looked at.

`AiSchedulerProofs` proves for any candidates, scopes, executions and limits: the types
(`TypeCorrect`), that every call in flight is covered by its own unexpired lease
(`LeasesCoverCalls`), the global limit (`GlobalLimitHolds`), the limit of each scope
(`ScopeLimitHolds`) and the single probe (`SingleProbeHolds`). The argument: the code limits
leases, not calls, so the invariant carries that leases cover calls (a lease outlives its
request's timer by the grace), and that the held leases respect the limits; the probe
needs that a scope which recovers has capacity one or is probing, and that calls granted
since the trip are held leases on it. An action property of the same specification is that an execution which may still call asks for attention
only when each of its models has a disabled scope in what that step stores (`AttentionWarranted`): such a step is an `acquire` without any candidate, made with no model
excluded (an execution with exclusions forgets them first) and none too small, and what its walk over the scopes stores still has what it found disabled.

`RegistryRunProofs` proves for any number of runs, any commands, faults and varying stages: the types (`TypeCorrect`), that what is
final stays so unless an overtaken run writes it (`FinalIsFinal`), that what is published fits together unless an overtaken run has
written artifacts or the status of the trace (`PublicationIsCoherent`), that a run that ends well, of runs that do not overlap,
leaves a trace that says so (`EveryEndIsRecorded`), and that a run of those is refused by the state of its trace for a cause only (`RefusalsHaveCause`). First the graph: the order that the code computes by
taking the first stage that is ready is the order of the list (`OrderIsListed`), the closure of what a change invalidates has what it
should (`InvalidatedFacts`), and each plan lists its stages with their dependencies earlier in it or among the copies (`PlanFacts`).
These are recursive functions over the fourteen stages, and each recursion is unfolded by a least counterexample (`Reaches`,
`Recursion`). Then each of the 36 actions is seen three ways: what it makes of the row of its run (`Moves`), who writes which table
(`Writers`) and where it goes (`Flow`); and the invariants are proved from these. None of the five is inductive:

* `Types` adds that a run at a stage is within its plan, that certain places belong to certain stages (`Fits`), and that each
  stage with artifacts has a newest one (`Numbered`), without which `Latest` would be any value.
* `Finals` says what the run that the lease row names has read of the status of its stage and that it still holds (`Marks`), and that after
  the success of the trace this run is over or behind the publication, where no statement takes the success back (`Ends`).
* `Published` says that every artifact was built on artifacts that are there and that only the first of a varying stage can be a copy
  (`Books`), what the holder knows of them (`Leading`: its copies, the stages of its plan that are behind it, what it has read of the
  dependencies, that its version is new), and that from the completion on everything behind the publication was built on the newest of
  its dependencies (`Coherent`). A first version of the property made an exception only of artifacts that an overtaken run writes; the proof failed at the
  status of the trace, and three runs do break it there: an overtaken run that opens the trace again takes the success back, and a third
  run recomputes behind the publication.
* `Serial` is for runs that follow each other, where only the holder takes steps and nothing is late (`Alone`). A success is published, of a
  trace that only took in news, about to be published, or left by a run that a fault ended on its way there, and such a run does not
  recover (`Successful`, `Wrecked`); an artifact of the publication that is not a copy was committed after it (`PublicationKept`); and
  the holder works on a trace of its kind (`HasKind`), has what it once found empty still empty (`FindsNothing`), and has completed and
  published when it has the publication behind it, executed or reused (`IsPast`). That a run without the publication in its plan is excepted
  is needed in one case of `StepEnded` only, that the fault is of *another* run in one case of `BeginEnded`.
* `Resumable` says what a trace holds between and during runs of one command that can be carried out and that nothing has disturbed. For the trace
  (`Inherited`): copies and kind are those of the command, a stage that is there was built as this command builds it, on dependencies that are there
  (`Reusable`), one that is not there has not been entered but by the run that is at it (`Untouched`), rows of handlers are there with their stages
  (`RowsLeft`), and the stages up to the selection are all there, or those that are were executed by the process that goes on and has their results in memory
  (`ByOne`). For the run that goes on (`OnTrack`): what it has, according to where it is between the statements of a stage. Then no handler and no check of
  a status refuses a run on track (`Unrefused`), errors sit where a run fails (`ErrorsPlaced`), and the cause that `Caused` gives for a refusal stays one, because a
  run that is over does not change. An earlier refused run is not such a cause by itself: the induction shows that it had one of its own, which counts for the later run too.
  `Resumable` was held by TLC on the instance of the run, and on one of three runs, before it was proved.

Its last part proves the lease, for any number of runs and checkpoints, under the assumptions of `RunLease` (`LeaseConstants`): the
types (`LeaseTypeCorrect`), that started runs
have different generations (`RunsToldApart`), that the row never goes back (`LeaseMovesForward`) and
that an old run writes at most one checkpoint (`LateAtMostOnce`). None of the three is inductive.
The invariant adds that the lock belongs to the run whose session the server still has
(`LockIsSession`), that such a run owns the row, or is about to write the generation that
follows it (`SessionFollowsRow`), that no run is ahead of the row (`NotAhead`), and that a run which has written
late has no second checked checkpoint in hand (`LateIsSpent`): after a takeover the check fails
for good, because generations only grow.

`ContentCacheProofs` proves for any texts, sessions, workers and tasks, sequences of any length: the
types (`TypeCorrect`), that no step changes a committed result (`CommittedStays`), that no worker of a
prompt session loses a lease that it works under (`PromptWorkersKeepClaims`) and that no two workers of prompt sessions
hold one text, siblings with one owner id included (`PromptHoldersDiffer`). Each step of a worker is first reduced to
its `Effect`: it leaves the entries alone, gives up leases of its own task and ends it, or obtains one lease. The
invariant is that a prompt session which is up has live leases (`Renewed`), that its worker owns what it remembers
(`Held`), the failing one included, which releases by owner id and so could free a sibling's text, and that siblings
remember different texts (`Apart`). A claim takes only an entry that is nobody's or expired, so it is on nobody's list.

`PublicationProofs` proves for any traces, jobs and versions: the types (`TypeCorrect`), that a published
day stays published (`PublishedDayStaysPublished`), that two active records come only from
overlapping transactions (`OnlyOverlapLeavesTwoActive`), and that only the legacy error path takes the success
of a published trace back (`PublishedTraceSucceeded`). The argument for the first two is by the order
of the commits: a commit makes a new record, which points nowhere, and only changes pointers into pointers to it,
so no cycle can close. It needs that a record being inserted is not committed
(`JobRemembers`) nor inserted by another (`KeysDiffer`). The last one needs that one run of a trace works
at a time (`RunsAlone`) and that what is published is SUCCESS or was undone (`JobTrace`). That the newest version of a
trace exists, and what removing a trace leaves, are lemmas of their own
(`GreatestVersion`, `WithoutIsRemoval`).

`DispatchProofs` proves for any clusters, requests and bounds: the types with the poller's clock within its total wait
(`TypesHold`), that a version row marked promoted is the active version unless a rollback was stale (`PromotedRowsAreActive`), that the
success of a run is overwritten only after a failed query or behind a resume (`SuccessIsKept`), and that an acknowledged change is in the
file unless a read met a write (`AcknowledgedChangesAreKept`). First lemmas about the snapshots: `Normalize` and `Updated` keep the shape
of a snapshot, whom it holds, and that promoted rows are active, over sequences of rows of any length. The invariant then
says of the server: what a job has computed fits what it read (`Fitting`), requests and exits happen once (`Lives`), an exit
handler that has seen a status is behind a run that has ended (`OnCourses`), and that until a clash at most one job is between its read and its write, and
what it will write holds everything acknowledged (`Kept`).

`FeedbackProofs` proves for any stocks, keywords, types, industries, limits, traces, days, scores and worlds. First the loop of
`Selector`, whose sets of candidates are finite and otherwise any: the quotas (`QuotasKept`), that an industry gets a second
recommendation only when the others have theirs or cannot (`SpreadFirst`), and that no candidate is lost between the passes (`NoRoomLeft`). The invariant
says that whoever has been looked at is taken, waits, or met a quota (`Judged`), which stays full because the loop only takes; that who waits
has an industry that is covered; and that a second one of an industry is taken only when every industry has a first one (`Spread`), or, in the
second pass, whoever has none cannot have any (`Served`). Then `RunsSelect`: every step of `Feedback` is a step of the selector or leaves it
alone, so the three properties hold of every selection of every run (`QuotasHold`, `SpreadHolds`, `NobodyIsLost`). Then of the
feedback: what is published stays as it was published (`PublishedStays`), a cut score goes back to a published loss that was known on the
day (`PenaltiesHaveCause`), a run recommends with the evidence of its inputs unless they moved under it (`EvidenceIsCurrent`) and a repeat means that the
first day was published later than the second chose (`RepeatsAreLate`). The invariant
behind these adds that a run rewrites its trace only before it is published (`Unpublished`), that one run selects at a time (`OneSelects`), that
each penalty rests on a published loss that was visible (`Earned`), that a completed scoring left what its inputs give (`Scorings`), and that the
candidates of a run, and later its recommendations, are none of what it saw published of the day before (`Chosen`, `Apart`).

`EveningProofs` proves for any days, sessions, stocks, evenings and worlds, any batch size, breaker, number of workers and faults, and
for operators who run commands beside the scheduler: that every evening has its one chain (`EveningsAccounted`), that a run loses
its news for a cause only (`NewsLostForCause`), that a clean synchronisation leaves no hole (`CleanSyncCompletes`), that settled yields are those of
the right days (`SettledYields`) and that prices are final when commands keep to the evening (`FinalPricesStored`). None of the five is
inductive, and each invariant speaks of what a process holds in memory:

* `Schedule` says of every evening which side of the scheduler's clock it is on: behind it accounted for, ahead of it without a chain, and
  excused while a chain that has started earlier works.
* `News` says that two intakes under way know of each other (`MetTogether`), and that what an intake finds, when it has met no other one, is what it
  has left (`Undisturbed`): it lists, deletes, writes and reads its own files, and nobody has succeeded before it.
* `Candles` says that the row of every process is `Standing`: what it counts as owned is stored, lost or still to be written (`Owned`), how far it has
  come with each stock (`Coverage`, by stage of the pool), and of a stock without blame that what the process holds closes up with what is stored
  (`FromStart`, `Closing`). About the table: the candles of such a stock are those of a first part of its sessions (`Whole`), and what it lacks before
  the newest candle of all is in the range of a synchronisation under way (`Responsible`), which is why a later one that starts behind
  it passes nothing over unnoticed. `StepMoves` has one case per step of a synchronisation, and `Moved` is what the other processes need to know of it.
* `Yields` rests on it: what a backfill has read of a row is right while its stock is without blame (`Reading`), and the candles after the day
  of a row, being those of a first part, begin with the ones that its horizons ask for (`Divided`, `LeastOfFirst`).
* `Late` is for worlds where commands keep to the evening: every row that a process holds has the last price of its session, and a snapshot is of the
  day under which it is stored.

`blamed` is a history variable: the model sets it where a stock is not fetched, not stored, passed over, or stored for no session. The proof
is why it is set where it is: an earlier version did not blame a stock that one synchronisation passes over while another has it, and `Whole` was not
inductive.

Only model-checked is what holds under fairness: `SessionsEnd`, `LeasesReturn`, `WaitEnds`, `StaleRunLearns` and `PollEnds`. Every other property of a
passing run is a theorem; `OneLateCheckpoint` of `RunLease` is proved through an instance of that module (`LateAtMostOnce`, in
`RegistryRunProofs`). Out of the prover's reach are liveness and ENABLED, induction over data of any size, and anything in a module with
RECURSIVE operators; no module here uses one.

## 6. Plan

Done: the AI workflow with its contract, the AI scheduler, the cache, the lease, the publication, the runs of a trace over the stage graph, the
server with its state file and poller, the evening chain, selection with its feedback over days, and proofs about all of them. Next:

1. `AiTransport` (three timers of an exchange) and `BatchPlanner` with its split, as modules of their own.
2. `limitup-evidence-initialization.ts`: an operator's job with checkpoints of its own.
3. Composition: publication under the run lease, the cache inside the workflow instead of its three outcomes.
