# TLA+ models of go-ai-scheduler

This directory is a verification development of the scheduler under `src/`: TLA+ modules
of its protocols, TLC configurations that check them on small instances, and TLAPS proofs
of the central properties for every instance. `PROJECT.json` maps each definition to the
lines it models and lists runs, mutants, findings, hazards and theorems.

## The system

A **scheduler** process keeps tasks, dependencies, instances and workers in MySQL. One
scheduler, elected through a MySQL lock or etcd, runs the leader-only loops:

- the **trigger loop** (5 s) lists due tasks, checks pressure and dependencies, creates an
  instance, picks a worker, dispatches, and writes the next trigger time;
- the **timing engine** (wheel and heap) calls `OnTrigger`, a second path to the same goal;
- the **retry loop** (3 s) dispatches instances in `retry_waiting`;
- the **health checker** evicts workers with old heartbeats;
- the **cache** copies the ids of due tasks to Redis.

The scheduler's HTTP and gRPC handlers take status reports, heartbeats, registrations,
cancellations and events; the **API** process creates, changes, pauses, resumes, triggers
and deletes tasks. A **worker** accepts an instance, executes it (shell, HTTP or container)
and reports; reports it cannot deliver go to a local store on disk and are flushed later.
The **AI service** answers chats with a language model that may call tools; some of the
tools write the task and instance tables directly. Every service applies the database
migrations when it starts.

Two traits of the code decide what can go wrong. No statement on a row is conditional on
what was read before (the `version` column of a task is counted up and never compared), and
tasks and workers are written back as whole rows. So the models make every statement and
every remote call a step of its own, and let goroutines hold copies.

## Inventory

| part | source | state | model |
| --- | --- | --- | --- |
| reports, retries, cancellation | `internal/api/service/task_runtime_service.go` | instance rows, goroutines | `TaskRuntime` |
| trigger loop | `internal/scheduler/trigger` | task rows, snapshot | `TaskCatalog`, `TaskRuntime` |
| retry loop | `internal/scheduler/retry` | snapshot of waiting rows | `TaskRuntime` |
| engine | `internal/scheduler/engine`, `cmd/scheduler/main.go` | wheel, heap | `TimingWheel`, `TimingEngine`, `TaskCatalog` |
| backpressure, due-task cache | `internal/scheduler/ratelimit`, `cache` | pressure, cached ids | `TaskCatalog` |
| task API, dependencies | `internal/api/service/task_service.go` | task rows, edges | `TaskCatalog` |
| worker registry, router, health checker | `worker_service.go`, `route`, `health` | worker rows | `WorkerRegistry` |
| workers as the scheduler sees them | `internal/worker` | accepted ids, report files | `TaskRuntime` |
| leader election | `internal/scheduler/leader` | lock, session | `LeaderElection` |
| worker process | `internal/worker`, `cmd/worker` | maps, contexts, directories, files | `WorkerNode` |
| event triggers | `event_handler.go` | instance rows, the request | `EventPublish` |
| chat, agent loop, conversation memory | `internal/ai` (chat_handler, agent, adapter, memory, stream) | handlers, streams, two tables | `AgentChat` |
| chat tools that write | `internal/ai/tools/tools.go` | task and instance rows | `TaskCatalog` |
| test maps and MySQL repositories | `internal/repo` | maps, tables | `Repositories` |
| migrations | `internal/pkg/xmysql/migrate.go` | schema, tracking table | `Migrations` |
| cron expressions | `internal/pkg/cronexpr` | pure | `CronExpr` |
| cycles, token bucket, paging, percentiles, backoff, rendering | several | pure | `Calculations` |
| authentication, tenants, configuration, metrics, tracing, alerts, web page | | none that schedules | not modelled |

## Modules

**TaskRuntime.** `rows` is the `task_instance` table, `thr` the scheduler's goroutines with
what they hold, `scan` the retry loop's snapshot, `inbox`, `exec` and `buf` a worker's
accepted dispatches, running goroutines and report files. `Trigger*`, `Retry*`, `Report*`
and `Cancel*` are the statements of the trigger side, of the retry loop, of `ReportStatus`
with `retryIfNeeded`, and of `CancelInstance`; `Run*` and `FlushSend` are the worker's. The
constant `Faults` switches lost and abandoned calls, database errors, crashes of both sides
and the eviction of schedule ids. `ended` is a history variable: how executions ended.

**WorkerRegistry.** `row` is the `worker_node` table reduced to status, load and freshness of
the heartbeat. A job goes through `PickList`, `PickWrite`, `Dispatch`, `ReportRead`,
`ReportWrite` or `Release`, a heartbeat through three steps and an eviction through two, each
with the copy of the row it read. A worker that dies may leave a report behind, in flight or in its
local store, which is read later (`LateReport`).

**TaskCatalog.** `task`, `deps` and `inst` are the tables; trigger times are past (`due`),
coming (`later`), a year away (`never`) or NULL. `thr` holds the loop, the engine callback,
API requests and reports, each with a copy of one row; `due` is the loop's snapshot, `wheel`
the armed ids, `cached` Redis' ids. `owed` is a history variable: the task fell due, was
triggered or was advanced since its last first run. Instances after dispatch are
TaskRuntime's subject and take one step here.

**TimingWheel** and **TimingEngine.** The clock in ticks, the wheel's position and slots; the
second module adds the heap's array. `TickDropped` is a tick the Go ticker skips while `OnTrigger`
blocks the engine. `asked` is history: what a task is armed for, for how many ticks, and whether it
was more than a turn ahead.

**LeaderElection.** `st` says where each process is, `holder` who has the lock. `Expire` is the
server that notices a dead process, `LoseSession` the end of a live leader's connection or lease.
`strayed` is history: the processes that lead without the lock. `main` passes a context that is
never cancelled; `Cancel` is there because the electors handle it.

**RetryChain** is what `TaskRuntime` promises without threads, messages and faults: a chain of
attempts, how their executions ended, and the result on record. `ImplementsChain`, in
`TaskRuntime`, maps rows to attempts (`Attempt`), statuses to results (`Shown`) and
the history `ended` to `results`.

**WorkerNode** is one worker process in the detail `TaskRuntime` leaves out. `run` says where
each delivery is and what became of its context, `dedup` and `cancels` are the two maps,
`dirs` the sandbox directories, `file` the report files with torn ones, `lock` the store's mutex, and
`flush` where each flush loop is: it lists under the mutex, then reads, sends and removes
without it. `CommandKilled` is the deadline or a cancellation, `ChildrenExit` the end of
processes that keep a killed command's output open. `evicted` and `spoiled` are history: ids
whose entry aged out, runs whose outcome or directory a restart or a full disk took; `littered` are
the runs whose sandbox directory could not be removed.

**EventPublish** is `Publish` statement by statement for several requests. A schedule id is a
task and a clock reading, so equal readings collide; `sent` is what reached a worker.

**AgentChat** is a chat request on its three routes (SSE, an upgraded request, the WebSocket
endpoint): `h` is the handler, `prod` the goroutine that reads the model's answer, `chan` the
channel between them, `ctx`, `link`, `closed` and `seen` the client's side, `conv` and `msgs` the
two tables, `sweep` the cleanup between its two statements. Message rows are a set with
AUTO_INCREMENT ids (`lastId`), so that the history, the rows with the least ids, is what MySQL's
`ORDER BY id LIMIT` returns (`IsHistory`). Texts are numbers of chunks, the calls of an answer are a
set of indexes.

**Repositories** calls the maps of package `teststore` (`Mem...`) and the MySQL statements
with their conversions (`Sql...`) with the same arguments. `causes` collects calls after which
they may differ: different answers, a task deleted with its edges, a time overwritten by the
zero time.

**Migrations** runs `RunMigrations` in several processes. DDL commits by itself in MySQL, so
every statement is a step of its own and a crash may come between any two. `Load` may read any part
of the tracking table: the code goes on after an error.

**CronExpr** and **Calculations** are operators: parsing, `Matches` and `NextAfter` against what
the tokens mean; `DetectCycle`, the token bucket, `ListInstancesWithParams`, percentiles,
`retryDelay` in 64 bits and `renderEventPayload` against reference definitions.

`MCProgress` runs the trigger loop and the runtime as two parts of one specification, each idle in the
other's behaviours. `MCTaskRuntime`, `MCTaskCatalog` and `MCWorkerRegistry` add symmetry sets and the constant functions
of the configurations, the last one the election's liveness too. `MCCatalogWriters` has two scenes
(one task with two requests at a time, or a chain with one request and reports). **Coordination**
(registry, election, events) and **Foundations** (wheel, repositories, migrations) put modules
without common state side by side and state what is asked of them together, so that runs and proofs
speak of the same definitions. `MCComponents` runs the small components, one per behaviour (`part`),
so that no product of their states arises; `sample` is the input of a calculation. The modules named
`...Proofs`, `TaskRuntimeOnce` and `AgentChatRows` hold the proofs. Next to some definitions stands
a variant with a plausible mistake; the mutants in `PROJECT.json` use these to show that each
property can fail.

## Runs that pass

| run | instance | shows |
| --- | --- | --- |
| `runtime_restart` | 2 workers, 2 deferred retries, 2 report handlers; lost reports, refused dispatches, database errors, scheduler restarts, evicted ids | at most one retry per instance, one executing worker, stable results, and every step is one of `RetryChain` |
| `runtime_faults` | 1 worker, 1 retry; cancellation, ambiguous dispatches, abandoned reports, restarts of both sides | retries and results are justified by executions |
| `registry` | 1 worker, 2 concurrent jobs, fair, all faults; or 2 schedulers of an election | live workers return, gone ones are evicted, leaked load is repaired; a waiting scheduler is followed by a leader |
| `progress` | fair; either the loop: chain of 2 tasks, the second with a cron expression or neither, 5 instances, red line 2, cache, reports; or the runtime: 1 worker, 2 tasks with a retry each, lost reports, refused dispatches, no worker | one run per trigger, dependency gate, backlog below red line plus batch; a due task whose upstream tasks succeeded waits for ever only if the backlog stays at the red line or, without a cron expression, if the loop overwrote its advance; results get on record, failures with budget left run again |
| `catalog_writers` | 1 task with 2 requests of every kind, tools, loop, engine, retries; or a chain with 1 request and reports; database errors, restarts | a pause holds once older copies are gone |
| `worker` | 1 id delivered twice, shell and HTTP tasks, sandboxed, five combinations of faults, fair | one run at a time, nothing left behind, cancellation reaches its run, no outcome is lost between run, file and flush loop, every run ends, every outcome arrives |
| `chat` | 1 request in full or 2 on one conversation, 2 rounds, 2 chunks, 2 calls, history of 3, fair | one end per answer (on SSE followed by the conversation id at most), no goroutine left, tool calls answered and kept, answers saved and found again, every client answered |
| `components` | election with 4 schedulers; wheel of 3 and heap of 3; repositories with 2 rows; 2 services migrating; registry of 2 workers; 2 events; all inputs of the calculations | each component's own properties, see below |

In `components`:

- `OneElected`: a second leader has lost its session or skipped the election;
- `FiresWithinTurn`, `FiresOnTime`: an armed task fires within a turn, early only out of phase or if
  armed for more than a turn ahead; a heap tick leaves nothing due;
- `RepositoriesAgree`: a sequence of calls gives the same tasks, instances and workers from the maps
  of the tests and from MySQL, but for the columns MySQL has not;
- `MigrationsConverge`: whoever starts finds what an undisturbed run leaves, and, having read the
  whole tracking table, fails only because of a rival;
- `GoneStaysOffline`: a gone worker's row comes back online only through an old copy or a registration;
- `EventsDelivered`: no schedule id reaches a worker twice, the answer counts no more than arrived;
- `CronFires`: expressions match what their tokens name, `NextAfter` gives the first such minute;
- `LimitsHold`: the token bucket, the rate guard from 60 requests per minute on and the backoff up to
  a retry count of 33 keep their rates and delays;
- `AnswersMeant`: cycles, pages (but for a filter by status alone), percentiles and rendered payloads
  are those of their reference definitions.

A property made of several parts has a mutant for each.

## Where the code and its description disagree

Four runs end in a counterexample. `double_retry` adds to lost reports a worker that gives up
on a report still being handled: two handlers of the report both create a retry. `join_stuck`
gives a task two upstream tasks: the gate looks at one success of the whole table, so the task
waits for ever although both succeeded, and breaks `AdvancedTaskRuns`, the sentence "On success:
downstream dependency tasks advance" of `docs/architecture.md`.
`guard_rate` asks whether the guard of the LLM endpoints refills at the configured
`AI_RATE_LIMIT_RPM` (`GuardKeepsRPM`): below 60 the integer division gives 0, which the bucket takes
for its default of 1000 per second.
`migrated` lets services start on an empty database: the runner executes the `Down` part of
`000004_add_task_dependency.sql` with the rest, so that the table is dropped again and the
file recorded as applied; the trigger loop's query for upstream tasks then fails.

The passing runs state their properties within limits that the code has. Outside of them TLC
finds these counterexamples, each by one change of a configuration or of the property's limit:

| property | change | what happens |
| --- | --- | --- |
| `FailedRunsAgain` | fault `report_timeout`, `db` or `crash` | a handler that ends after writing the result loses the retry |
| `SettledStable` | fault `report_timeout` | a late `running` report overwrites a settled status |
| `SettledStable` | fault `cancel` with a canceller | a dispatch overwrites the cancelled row |
| `ExecutedOnce` | fault `dispatch_timeout` | an instance accepted by one worker is sent to a second |
| `OneRunPerTrigger`, `DependencyGate` | feature `engine` | loop and engine both run a task; the engine ignores dependencies |
| `AdvancedTaskRuns` | a chain without cron expressions | `fireDownstream` makes a task due while the loop ends an earlier run of it; the loop writes its whole copy with a trigger time a year away over it, and the advance is lost |
| `OneElected` without `strayed` | none | a lost session or an etcd error gives a second leader |
| `FiresOnTime` without `far` | none | the wheel counts no rounds |
| `ReportKept` | a second flusher | two workers with one store directory flush each other's files, and one may remove a report the other has just written |
| `ReportDelivered` without `orphan` | none | a killed command's children keep its output open |
| `NothingLeft` without `littered` | none | a directory that `Cleanup` cannot remove stays; the handler only logs it |
| `OnceAtATime` without `evicted` | none | the dedup entry of a task that runs longer than the TTL is dropped |
| `AnswerSaved` for every answer | none | two tool names written with `%q` are no JSON, so the INSERT of the answer fails; a failed INSERT or a client that has gone loses it too |
| `EndsOnce` asking for the conversation id on every route | none | a WebSocket is closed by `Done` before the handler sends the id, so its client never learns it, though `web/app.js` stores it when it comes |
| `FollowUpInformed` without its limit | `HistoryLimit` 1 | the history is the oldest messages, not the latest |
| `MigrationsConverge` for every failure | none | a failed SELECT on the tracking table is ignored; the first file it missed is applied again and refused by its primary key |
| `AnswersMeant` for a status alone | none | the page is cut from the oldest rows and the total is the length of the page, though the code calls it the total count for pagination |
| `LimitsHold` for every retry count | none | from 34 on the shift overflows and the delay is not the capped one |
| `RepositoriesAgree` with the event | none | a task read from MySQL has lost its event, so event triggers match none |

Three more follow from writing whole rows: the loop's write undoes a pause or a manual trigger
made since its read (`PauseHolds` says when a pause is safe), two picks lose a reservation, and
an eviction overwrites a heartbeat recorded after its listing. `LoadSettles` and
`RowFollowsWorker` show that the last two are repaired.

Seen while modelling and not part of a run: a task whose backlog reached the red line with rows
nobody takes stays red for ever; `Peek` of the heap (`heap.go:49`) returns the first element of
an array that `PopUntil` may have left unordered; a cancelled instance can be retried if its failure
is reported before the row is marked; an event whose dispatch fails leaves a row `dispatched` that
nobody recovers; the chat tool `retry_failed_instance` inserts a `pending` row that no loop reads.

## Bounds

Every bound is a constant: `MaxInstances` and `MaxRoots` (rows, runs started by triggers),
`MaxRuns` (rows, or deliveries of an id; an INSERT beyond it fails), slots for concurrent handlers
(`Reporters`, `Cancellers`, `Api`, `Pickers`, `Publishers`, `Requests`), `MaxTime`, `Horizon`,
`Overdue`, `MaxItems`, `MaxRows`, `MaxVersion`, `LastTime`, `MaxStarts`, `MaxClock`,
`MaxIterations`, `MaxChunks` (at least one), `MaxCalls`, `ChannelCap`, `HistoryLimit`. They are the least for
which the case in question happens: two handlers race for one row, a second retry needs three
rows, a backlog of a red line and a batch needs one row more to be exceeded, an array of three
items need not be sorted to be a heap, a second delivery finds the first one's dedup entry, two
services migrate at once and each restarts once, a channel of one element is full after one
chunk. Batches of 100 and 500 rows are larger than any instance here and are not cut. The
round-robin counter is kept modulo a multiple of every number of workers (`RRCycle`), which
picks the same worker.

The scenes of `catalog_writers` are an action constraint that restricts which requests overlap: with
one task the second slot only pauses or resumes, at most one id is armed, no run succeeds, and a retry's row
fills the table; with the chain there is one slot that does not trigger, update or create, the engine is not
armed, and no run fails. The proof of `PauseHolds` has none of these restrictions.

## Fairness

Goroutines and tickers of a live process are scheduled, and time passes: weak fairness. What
the code repeats until it succeeds (flushing a report, picking and sending in the retry loop,
heartbeats) succeeds in the end if it is possible again and again: strong fairness of that
step only. In `LeaderElection` a waiting process keeps polling, and the server ends the
session of a dead process. The retry loop's pick is strongly fair: a worker turns up again in
the end. In `WorkerNode` goroutines, deadlines and the flush ticker are weakly fair, and a report that is
sent again and again arrives (strong fairness of `Arrives`); nothing makes a command's children
exit. In `AgentChat` handler and stream are weakly fair: the HTTP client's timeout ends a
request to the model. Nothing is assumed about users, crashes or the outcomes of tasks.

## Proofs

**TaskRuntimeProofs** proves, for all numbers of workers, rows, handlers and retries and under
every fault, from the assumptions `Parameters` and `ThreadsDistinct`:

- `TypeCorrect`: the type invariant;
- `RetriesJustified`: a retry row has a parent of which an execution really ended in a retried
  status, and retries never exceed `MaxRetry`;
- `ResultsJustified`: a success, a timeout or a retry's failure on record is how some worker's
  execution ended.

Neither is inductive alone: a row says what a handler wrote, the handler what a message said,
the message what a worker knew. `IInv` therefore follows the information backwards: goroutines
hold existing rows, and reports that tell how an execution ended (`ThreadsOK`); workers hold
such results in memory and on disk (`WorkersOK`); rows are justified (`RowsOK`). `Inductive`
proves it, with one lemma per part (`StepTypeOK`, `StepThreadsOK`, `StepWorkersOK`,
`StepRowsOK`), on top of `StepGrows`: rows never vanish nor change parent or retry count, and
the history only grows. `Implements` then proves the refinement: under every fault, each step of
`TaskRuntime` is a step of `RetryChain` or invisible to it. A recorded result is earned because, by
`IInv`, the report that carries it tells how an execution ended.

**TaskRuntimeOnce** proves that things happen once, for all numbers of workers, rows, handlers and
retries:

- `RetriedOnce`: an instance is answered by at most one retry row;
- `OneExecution`: an instance is executed on one worker only;
- `SettledForGood`: a row with a terminal status keeps it.

All three assume `Reliable`: no report or dispatch times out while its work goes on, and no worker
restarts. Lost reports and dispatches, database errors, restarts of the scheduler, evicted ids and,
but for `SettledForGood`, cancels are allowed. The excluded faults are those that repeat a call that
was carried out, and the counterexamples above show what they do. `OnceInv` adds to `IInv` who is
responsible for an instance: one goroutine holds it for dispatch, or one worker has it
(`DispatchInv`); the worker's goroutine and its report file take turns (`StoreInv`); one handler
answers for an instance and somebody waits for that answer (`HandlerInv`); a retry is asked for or
exists only when the run is over and no handler can ask again (`RetryInv`). `OpenInv`, for
`SettledForGood`, says that what is still to be dispatched or reported is not settled.

**CoordinationProofs** proves, from the assumptions `RegistryParameters` and `CoordinationParameters`:

- of two leaders one has strayed (`Elected`, the property `OneElected`), for any number of
  schedulers, any backend and every fault: it lost its session unnoticed, or leads by the local
  elector. The strengthening is `LeaderHolds` (`LockKept`): a leader that has not strayed has the
  lock. `Exclusive` concludes that there is at most one leader if `LockReliable` holds: there is a
  lock, sessions of live leaders last, and with etcd no error occurs in `Acquire`; then nobody
  strays;
- the types of the registry (`RegistryTypes`) and `GoneStaysOffline` (`GoneStays`), for any number
  of workers, jobs and pickers. `KnownWorker` strengthens the types: a job in hand is on a
  registered worker, and a copy to be written back is of such a row. The action property needs one
  fact per writer: what it writes is its copy, so an offline row comes back online only from an
  online copy or a registration;
- `EventsDelivered` (`Delivered`), for any publishers, tasks, shards and faults. The insert is the
  only guard of uniqueness: `OwnRow` says that a request that got past it is the only one to hold
  its id, and that the id has not been sent. That the answer counts no more than arrived needs the
  cardinality of a growing set.

**FoundationsProofs** proves, from `FoundationParameters` (a wheel with at least one slot, numbers
for the bounds):

- `FiresWithinTurn` (`WithinTurn`), for every size of the wheel and any number of tasks: the hand
  advances one slot per tick, so the ticks a time has been armed for and the slots still to go
  (`Left`) never make more than a turn (`WheelInv`). Dropped ticks are allowed: they delay the
  clock's tasks but not the count of ticks. `NoneEarly` is the wheel's part of `FiresOnTime`: in
  phase, the slot emptied is the clock's time modulo the size, and a time in that slot at most a
  turn ahead of the last tick has come;
- `MigrationsConverge` (`Converges`), for any number of services, starts and crashes, and whatever
  part of the tracking table each of them could read. `MigrationInv` says of each attempt that the
  files behind it are recorded, that the statements of its file behind
  it took effect, that a column it looked for and found is there, and that a failed attempt stands
  where a rival recorded the file or added the column; and that a recorded file took effect. Here a
  table that `Down` drops is the exception, as the run `migrated` shows;
- `RepositoriesAgree` (`Agree`), for any names, schedule ids, workers and times, any number of rows
  and calls in any order. Answers alone are not inductive: `RepoInv` says that each row is the
  conversion of the map's entry (`SameTasks`, `SameRow`), that both count ids alike, and that the
  map's index by schedule id and the table's column find the same instances (`SameInstances`), which
  holds because a second row for a schedule id is a cause to part.

**TaskCatalogProofs** proves `PauseHolds` (`PauseStays`) and `TypeOK` (`CatalogTyped`) for any
tasks, requests, dependencies and faults, tools and engine included. The invariants are the types of
table, snapshot and copies (`CatalogInv`) and of the rest, with an id in hand being one of the
table's rows (`TableInv`); each writer writes a copy, and whoever creates an instance holds an
enabled one. While the engine is off it proves further, for any number of tasks, requests and
reports:

- `RunsOnce` (`OneRunPerTrigger`): a task is run once for each time it falls due. `TriggerInv` says
  that a run is owed for every task that is in the batch, about to be run, or due and not just being
  advanced, and `PlacesInv` that no request holds a trigger time to write back. The theorem excludes
  database errors and restarts, after which a task whose instance was created is still due, and the
  requests that write back the trigger time they read (`resume`, `update`, tools);
- `BacklogBounded` (`PendingBounded`), under every fault: the pending rows and the batch still to be
  worked on are within the bound together (`LoadInv`). Tools are excluded, since
  `retry_failed_instance` inserts pending rows past the pressure check;
- `GateHolds` (`DependencyGate`), under every fault: from the read of an upstream's success to the
  insert of the row, that success stays in the table with a smaller id (`GateInv`). Requests that
  add an edge to a task that has already run (`create`, `update`) are excluded: the property
  compares old rows with new edges.

With the engine the last three fail, as the table above says: it does not ask the gate, it knows
nothing of the loop's runs, and the pressure it asks for is that of the loop's last scan, so that its
rows come on top of the batch.

**WorkerNodeProofs** proves `OnceAtATime`, `CancelReaches`, `NothingLeft` and `ReportKept`
(`OneRunAtATime`, `Cancellation`, `NothingStays`, `ReportsKept`) for any ids, deliveries and faults,
from `WorkerParameters` (finitely many deliveries) and `NoneIsNoFile`; `ReportsKept` further assumes
that one process flushes the directory (`Flushers = {Own}`), as it must. `OnceInv`: the id of a run
under way is remembered or was evicted, and an id that was not evicted maps to its run's cancel
function. `KeptInv` follows an outcome through the unlocked flush loop: the mutex belongs to the run
that writes, and who removes a file has delivered it (`RunsInv`); a file without a writer comes from
a run that is past `Buffer` (`FilesInv`); the loop lists and holds only what such runs left, and
removes only what was delivered (`FlushInv`). `LeftInv` adds the counter and the directories: one
that is there belongs to an executing run, to one that a restart cut off, or to one whose removal
failed. The
types of the variables are part of these invariants.

**AgentChatProofs** and **AgentChatRows** prove every invariant of the run `chat`, for any number of
requests, rounds, chunks and calls, any channel and history, all routes and all faults, from
`ChatParameters` alone: `ChatTyped`, `OneEnd`, `NoStreamLeaks`, `EveryCallAnswered`, `AnswerStays`,
`FollowUpKnows` and `RowsKeptTogether`. None of them is inductive. `ConversationInv`
(`ConversationInductive`) says of each request

- what its client has been told at each place of the handler (`Told`): a WebSocket that got its end
  is closed before the handler comes to the writer again;
- where the stream is (`Streaming`): while the handler reads, the text received, the deltas in the
  channel and the chunks to come fit together, and a finish event or the handler has the calls
  gathered; a handler that does not read has no goroutine behind it;
- how far the calls of a round are answered (`Dialogue`): each earlier message in full, the last one
  up to the calls still to be executed;
- that what it wrote is there (`SavedInv`): a conversation that counted a row was updated then, so
  that the cleanup spares it;
- what an earlier request's client knows (`FollowInv`): whoever was told an id is through with its
  conversation;

and of the tables (`RowsInv`) that a row belongs to the conversation of its request, one of each role, and that
no conversation counts less than its counted rows, which needs the cardinality of a growing set.

Only model-checked:

- all liveness properties: fairness and ENABLED are out of the prover's reach;
- the heap's part of `FiresOnTime`, and `CronFires`, `LimitsHold` and `AnswersMeant`: the heap, the calendar
  search, the buckets and the renderer are recursive definitions, and what these compute needs
  induction over data, which the installed provers cannot do.

## Not modelled

`PROJECT.json` lists every part with the reason. In short:

- sharding and event fields do not survive a read from MySQL, so one shard is all a stored task
  has in `TaskCatalog`; `EventPublish` models shards as the handler treats them;
- alerts, metrics, tracing and audit only observe; tenants and authentication are values of a
  request; configuration is wiring;
- prompts, the wording of model answers, their parsing, analysis records and worker-load samples
  are data that nothing schedules by; the chat tools that only query are left out for the same
  reason;
- code without a caller is left out: `ConcurrencyLimiter`, `UpdateWorkerLoad`, `Remove` of the
  engine, the Redis lock, and the worker state in Redis, which is written and never read;
- `Repositories` keeps neither the second precision of `DATETIME` columns nor the order in which available
  workers are listed (a set), so agreement is up to these;
- a request does not change whether a task has a cron expression (`Cron` is a constant);
- `TaskRuntime` leaves out the window that ends retries (`retryWindowExceeded`): a row read from MySQL
  has none. It evicts ids of finished runs only; `WorkerNode` evicts running ones too;
- `TaskCatalog` takes the pick, the write and the dispatch of an instance as one step, which
  `TaskRuntime` splits;
- `AgentChat` has a store, and a client names a conversation only after it was told its id; two
  requests at once are of the SSE route, on one conversation and without database errors in the run,
  while the proofs allow any. The client's end of the connection and the cancellation of its context
  are one step;
- `CronExpr` works on a shortened calendar and on expressions already split into tokens.
