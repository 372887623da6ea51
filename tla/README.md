# AutoOrch in TLA+

AutoOrch turns a prompt into a *run*: a graph of *tasks*, each executed by an AI
agent, with retries, human approvals, checkpoints and crash recovery. Its state is a
PostgreSQL database shared by three polling workers and a REST API; nothing else
coordinates them. Inside one server process there are also a router of provider
adapters, a tool runtime with a rate limiter, and sockets to the dashboards. This
project models that coordination, checks it with TLC and proves the properties that
matter most with TLAPS.

Paths below are relative to the repository. `services.ts` is
`apps/api/src/services.ts`; `runs.ts`, `tasks.ts`, `approvals.ts`, `workflows.ts`,
`gateway.ts` and `providers.ts` are in `apps/api/src/routes/`; `state-machine.ts`,
`task-broker.ts`, `checkpoint-manager.ts` and `dead-letter.ts` are in
`services/orchestrator/src/`; the adapters are in `services/provider-registry/src/`.

## 1. Inventory

| Component | State it keeps | Operations | What should hold |
|---|---|---|---|
| State machine (`state-machine.ts`) | `runs.state`, `tasks.state`, `tasks.retry_count` | `transitionRunState`, `transitionTaskState`: validated, one serializable transaction each | final states stay final |
| Task broker (`task-broker.ts`) | the tasks of a run and `depends_on` | create a plan, queue ready tasks, dispatch up to `maxConcurrent`, complete, fail with retry, recover orphans | dependencies first; bounded concurrency; bounded retries |
| Planning worker (`services.ts:274`) | reads `runs`, `workflow_templates`, `agent_role_definitions` | every 10 s: resolve the agents, make up tasks, create them, route the run | acyclic plans; no run routed without tasks; planning ends |
| Routing worker (`services.ts:469`) | none of its own | every few seconds: queue, dispatch, move to EXECUTING, or time out | a run with ready tasks is started |
| Execution worker (`services.ts:559`) | `processingTasks`, a Set in memory | dispatch, claim (`FOR UPDATE SKIP LOCKED`), execute the task, complete or fail it, decide the run | no task held by two ticks; a run is COMPLETED only when everything is done; no task is lost |
| Execution of one task (`services.ts:663-1200`) | messages, streamed text, pending tool calls | read the role and the context, choose a provider, stream or complete, call tools, store the output | whole outputs; tools only as granted; the budget |
| Start-up (`services.ts:226`, `server.ts`) | clears `processingTasks` | load credentials and adapters, recover orphans, expire approvals, start the workers | a crash loses nothing |
| Run and approval routes | `runs`, `approvals` | create, start, plan, dispatch, cancel, resume; approve, reject | a finished run is not brought back |
| Task routes (`tasks.ts`) | `tasks` | execute, complete, fail, retry | a result is not undone |
| Workflows and roles | `workflow_templates`, `agent_role_definitions` | create, edit, delete | planning survives any edit |
| Checkpoint manager | `checkpoints`, `runs.checkpoint_id`, `last_restored_checkpoint_id` | create and prune, load, restore | increasing numbers; the limit; no double restore; no lock held for ever |
| Dead-letter queue | `dead_letter_queue` | enqueue, retry (at most 3), purge, discard | the limit; only failed tasks are re-queued |
| Policy engine | reads budgets and whitelists, writes `approvals` | evaluate an action, create and expire approvals | blocked actions never run; the budget stops tools |
| Provider router (`index.ts`) | a Map of adapters in memory, `health_status` | load, select, health check | registered providers are routed; healthy ones are preferred |
| Gateway and adapters | `provider_definitions`, `provider_credentials`, a cache of keys | register, delete, complete, stream | keys are kept; replies are read whole |
| Worker runtime, sandbox, MCP | sandboxes on disk, one queue of searches, cached facts about Docker | execute a tool | searches are spaced and all served; what a tool answers is logged |
| Artifact store | files and rows | store, delete by run | a stored artifact has both |
| Events and web UI | sockets, the store of the dashboard | broadcast, reconnect, poll, command | one connection; the view becomes right again |
| JSON validator, secrets, database pool, middleware, audit, observability, schemas | | I/O, parsing and types | (no protocol) |

How they interact: everything goes through rows of the database. A worker tick is an
async callback of `setInterval`, which does not wait for the previous one, so ticks of
one worker overlap with each other, with the other workers and with HTTP requests at
every `await`. A transaction is atomic; a handler that uses several is not. The only
memory that handlers share is `processingTasks`, the adapters with their cache of keys,
and the state of the tool runtime.

What is hard: overlapping ticks; decisions taken from rows read in an earlier
transaction; updates by id that do not look at the state any more; a crash between two
transactions, or between a claim and the end of a provider call that lasts minutes;
transactions that PostgreSQL refuses (40001); locks taken in two orders; retries that
sleep in the middle of a handler; bodies that the network cuts anywhere; sockets and
timers that outlive the page that made them; operators who approve, retry, resume,
complete or cancel meanwhile. `PROJECT.json` lists these hazards line by line.

## 2. Modules

```
RunStateMachine          runs.state and its table
  |- StateMachine        + tasks, retry counts, transitionTaskState
  |    `- TaskBroker     queueing, dispatch, retry rule, orphan recovery
  |         `- Workers   routing and execution workers, cancel, crash   --refines--> DagExecution
  |              |- WorkersInvariant   the inductive invariant
  |              |    |- MCWorkers      instances for TLC
  |              |    `- WorkersProofs  TLAPS
  |              |- Operator            approve, reject, resume, dispatch
  |              |    |- TaskRoutes     execute, complete, fail, retry (MCTaskRoutes)
  |              |    `- OperatorInvariant   also over WorkersInvariant (MCOperator)
  |              |         `- OperatorProofs     also over TaskRoutes and WorkersProofs
  |              `- DeadLetter          the dead-letter queue
  |                   |- MCDeadLetter
  |                   `- DeadLetterProofs        also over WorkersProofs
  |- Planning            planning worker, POST /plan, workflow and role edits
  |    |- MCPlanning
  |    `- PlanningProofs
  `- Checkpoints         create, transition, restore (MCCheckpoints, CheckpointsProofs)

AgentText                the text of a reply, and the extraction of thinking
  `- ProviderReplies     what each adapter finds in a reply
       `- ProviderStream a body cut anywhere by the network
            `- TaskExecution   one execution: context, provider, policy, tools
                 `- TaskExecutionInvariant   (MCTaskExecution, TaskExecutionProofs)

Providers                router, registration, credentials, start-up
  `- ProvidersInvariant  (MCProviders, InMemoryProofs)

SearchRateLimiter        the queue, the flag and the timer
  `- ToolRuntime         tools, sandbox, artifacts   --refines--> SearchRateLimiter
       `- ToolRuntimeInvariant   (MCToolRuntime, ToolRuntimeProofs)

EventSocket              sockets, reconnection, late events
  `- LiveView            the store of the dashboard, over it (MCLiveView, InMemoryProofs)
```

* **RunStateMachine, StateMachine**: one run. The tables of `state-machine.ts` are sets
  of pairs; `TryRunMove` is `transitionRunState` for callers that swallow its error,
  `TransitionTask` is `transitionTaskState` when it does not throw.
* **TaskBroker**: the sets and updates that `queueReadyTasks`, `dispatchTasks`,
  `failTask` and `recoverOrphanedTasks` compute in their transactions.
* **Workers**: composes the broker with `startRoutingWorker`, `startExecutionWorker`,
  `POST /runs/:id/cancel` and `initializeServices`. A tick `w` is a process with a
  program counter `pc[w]`, the tasks it claimed and has not finished with (`batch[w]`,
  the code's `claimedTasks`), the task of its loop's iteration (`cur[w]`) and a local
  (`arg[w]`). One action stands for the code between two awaits that matter: a query or
  transaction with its guard, or the execution of a task with its outcome.
  `processing[i]` is `processingTasks` of server `i`; `approvals` are the approval rows.
* **Operator**: adds the routes an operator uses on a run under way.
  `POST /runs/:id/dispatch` (a read of the run, its transition, then the broker's two
  transactions) is a process; approve, reject and resume are single transactions.
* **TaskRoutes**: adds `POST /tasks/:id/execute`, `complete`, `fail` and `retry`, which
  do what a tick does without looking at `processingTasks`. Each request is a process
  with its own steps, catch blocks included.
* **DeadLetter**: adds the dead-letter queue to the workers. A request to enqueue
  (`EnqueueRead`, `EnqueueInsert`) or to retry (`RetryRead`, `RetryTest`, `RetryTask`,
  `RetryMark`) is a process whose steps are its queries; it may die before any of them.
  `Discard` and `Purge` delete rows, also the row of a retry under way. A row is a record
  of `entries`, in the order of creation; `requeued`, `lost` and `overlapped` are history,
  not columns, and so is `late`, the retries that read a row while another was under way.
* **Planning**: the life of a run before ROUTING. A planner is a tick of the planning
  worker or a `POST /runs/:id/plan`; each reads, creates and routes in separate
  transactions, while the default template is created, edited in two updates and
  deleted, roles are created and deleted, and the run is created, started, cancelled,
  failed and resumed. A plan is the graph one `createTasksFromPlan` writes; positions
  are counted from 1.
* **Checkpoints**: `createCheckpoint`, the row that `transitionRunState` inserts and
  `resumeFromCheckpoint`, statement by statement, with the lock of the run's row
  (`runLock`) and the wait for a row of the same key that another transaction has not
  committed (`Blocked`). PostgreSQL's deadlock detection is `DeadlockDetected`.
* **Providers**: the adapters, the cache of keys and the start of the server against
  registrations (`POST /gateway/register`, `POST /providers`), deletions, reloads,
  health checks and selections. A provider stands for its row and the key it came with;
  encryption is the secret a row was sealed with. What the code swallows is a step of its
  own: a load of adapters that fails (`LoadFails`: a registration is answered 201
  nevertheless), a start that reads no credentials or no adapters (`StartCredentials`,
  `StartAdapters`), and a row that `createAdapter` makes nothing of (`buildable`). The
  history `answers` says what was promised (`stored`, `registered`) and which providers
  such a failure has missed since (`missed`, `unread`).
* **AgentText, ProviderReplies, ProviderStream**: operators without state. A reply is a
  sequence of paragraphs of a few kinds; what an adapter sends and finds is a table of
  its format; a body is lines of two pieces and a newline, read up to any position.
* **TaskExecution**: one execution as a process, `pc[t]`: the role, the context of the
  dependencies, the provider, `stream()` with its fallback to `complete()`, the tool
  calls, and for each of them `evaluateAction` check by check with the budget of the
  run. `Workers` has its outcomes as `CallSucceeds`, `CallFails`, `NoProvider` and
  `CallNeedsApproval`.
* **SearchRateLimiter, ToolRuntime**: `executeTool` with its four tools and the answer
  for any other (`CallUnknown`), the audit rows, the clean-up of sandboxes, Docker, the
  artifact store and the search limiter. The limiter has a module of its own, which the
  runtime implements.
* **EventSocket, LiveView**: the connection of `useWebSocketConnection.ts` with its
  timers and late events, and over it the store: shared and throttled requests, answers
  of an older time, events, polling, and the commands of `RunsPage.tsx`.
* **DagExecution**: what a scheduler of such graphs promises, without queues, ticks or
  retries: a set of running tasks, a set of done ones, and whether the run is over.
  `Workers` implements it with `running <- ActiveTasks` (DISPATCHED or RUNNING),
  `done <- DoneTasks` (SUCCEEDED or SKIPPED), `over <- runState = "COMPLETED"`.

What is merged or abstracted, and why it is the same:

* The update and the count of the completion check are two statements of one READ
  COMMITTED transaction. If another transaction commits in between, either its effect is
  one the verdict ignores, or a task that is still PENDING or in progress makes the
  verdict "none", as when the two are one step (`Check`).
* `FOR UPDATE SKIP LOCKED` skips rows another transaction is about to change; skipping
  them is the same as running before it or after it. Claims and dispatches are one step
  each.
* `failTask` reads the retry count in a query before the FAILED transition. Inside the
  workers nothing but a manual retry of an already FAILED task changes the count, so
  `Fail` does both; in `TaskRoutes`, where a request may fail a task that a tick also
  fails, the request reads first (`read`) and decides on what it has read.
* In the modules about tasks of a run (`Workers` and what extends it), providers, tools,
  outputs and budgets are left out: an execution ends as success, as a failure of one of
  the code's types, as "no provider", or as a request for approval. `TaskExecution` is
  the inside of that step; it leaves out claims and the end of the run, and lets tasks
  start, be re-queued and run again in any order their dependencies allow.
* A transaction fails as a whole (`serialization` for a refused one, `commit` for the
  claiming one). Other database failures (the pool, the network) are modelled where a
  handler goes on after them: audit rows, artifact rows, stored keys, adapters and
  credentials that are loaded. `Workers` takes for granted that `initializeServices` ends:
  when it throws, the server listens and nothing works on runs (section 3).
* Two minutes of grace in orphan recovery, thirty of an approval, five of planning and
  routing: whether the time has passed is a nondeterministic choice. Only the search
  limiter has time of its own, in units of which `RateLimit` make a second.
* A checkpoint keeps, of its contents, which tasks were PENDING or FAILED, all that
  `resumeFromCheckpoint` reads of it.
* A whitelist with `"*"` is the set of all tools, and `MaxLoop` the limit after its default
  (50 for one that is 0 or no number), since the code tells neither apart from these.
* A token is one unit for each 1000, what the budget check reserves for a running task;
  the cost is checked in the same way and not modelled apart.
* Text is a sequence of paragraphs of the kinds that the code tells apart (tagged
  thinking, a "Thinking:" header, a call of a tool, code, prose, a short line, ...).
* In `LiveView` a run has one task, and the server is reduced to what it broadcasts and
  what it does not.

The MC modules extend the `...Invariant` modules, so that TLC can evaluate the inductive
invariants, and assume what the conditional theorems of section 4 need (`HypothesisHolds`,
`HypothesesHold`): TLC finds those assumptions true of the instances it explores.

### Faults

Some modules hold definitions that nothing uses, each placed before the one it varies:
`UnprocessedOrNot`, `RequeueWithoutContinue`, `RouteBeforeCreate`, `LargestSequence`,
`RestoreUnlocked`, `EligibleAlso`, `PassesIgnoringFlag`, `CarriedNothing`, `ListedIfNew`
and so on. They are plausible mistakes in that code: a guard dropped, a `continue`
forgotten, an order swapped, a comparison off by one, a buffer not carried over. Putting
one in the place of the definition it varies makes TLC report the property that
`PROJECT.json` ("mutants") pairs it with. They show that no checked property holds by
construction.

## 3. Runs

`tlc -config X.cfg M`. All bounds are constants of the configuration.

| Run | Instance | Shows |
|---|---|---|
| `workers_safety` | 4 tasks (three ready at once, the fourth waits for two), 2 execution ticks, 1 routing tick, `MaxConcurrent` 2, 1 retry, 1 approval, every event | the inductive `SafetyInv` (with it `TypeOK`, ownership and `CompletedDone`) and the refinement of `DagExecution`, under overlapping ticks, failures, refused transactions, cancellation and crashes (1,701,468 states) |
| `workers_progress` | 3 tasks (fan-in), 2 ticks, fair | without crashes and refused transactions no RUNNING task is abandoned, and the run ends unless a task has failed for good (3,209 states) |
| `operator_safety` | 3 tasks (fan-in), 2 ticks, 2 approvals; approve, reject, resume, dispatch, cancel | ticks stay exclusive, dependencies are respected, a SUCCEEDED task stays so (2,947,468 states, up to the symmetry of the ticks) |
| `task_routes` | a chain of 2 tasks, 1 tick, 2 requests to the task routes, re-queued by request at most once, 1 approval, resume, cancel | whatever is completed, failed, executed or retried by hand, in any order with the workers, a COMPLETED or CANCELLED run is never brought back (1,415,135 states, up to symmetry) |
| `dead_letter` | 2 independent tasks without retries of their own, 2 ticks, `MaxConcurrent` 1, 2 requests at a time, 1 row with a limit of 2 retries, 2 that die uncounted (`MaxLost`) and 3 that overlap (`MaxOverlaps`), crashes | a row exceeds its limit only by the retries that died or began while another was under way, and re-queueing by id a task that a tick is executing again by then does not break `ActiveBound` (1,874,565 states, up to symmetry) |
| `planning` | 2 planning ticks, 1 request, agents that repeat and depend on each other, a template and roles that come and go, 1 fault, fair | graphs are acyclic, no run is routed without a plan, every duplicate plan has a fault to explain it, planning ends (1,134,100 states) |
| `checkpoints` | 2 transactions at a time, 2 rows kept, 4 numbers, 2 restorations, fair | numbers grow, the limit, the named row exists, no double restore, and every transaction ends although two of them may wait for each other (90,472 states) |
| `providers` | 2 names, 2 requests, 1 restart, a secret that is set, changed or not set, every request and fault | the inductive `ProvidersInv`; a registered provider is routable and its stored key is used, but for what failed loads have missed, and a selection prefers a healthy provider of the table (4,336,054 states, up to the symmetry of the requests) |
| `tools` | 2 calls, 2 tasks, 2 artifacts, `RateLimit` 2, every fault, fair; the calls of one behaviour write files, read files and run commands, or read files, search and ask for tools that do not exist | the inductive `ToolsInv`; every answer of a tool is logged, artifacts are kept, no failure touches another task's sandbox, searches are spaced, every call ends (545,810 states) |
| `execution` | 2 tasks, independent or in a chain; a streaming, a falling-back and a non-streaming adapter; replies with calls, thinking, empty tags or nothing; a budget of 3 units; loop limit 2; 1 retry; approve, reject, edits of the role; fair | the inductive `ExecutionInv`; outputs are whole, handed on without thinking, the budget stops tools, no tool that was not granted runs, every execution ends (536,134 states) |
| `live_view` | 2 runs, 2 sockets, 2 mounts, 1 outage, 1 failure, 1 command, 2 moves, 1 selection; combined as `Mixes` says, fair | connections do not multiply, the page reconnects, and polling makes the view right (272,706 states) |

Two ticks, requests, calls or transactions are the least that race, and every pairwise
race of the code involves two; four tasks with `MaxConcurrent` 2 make the limit bite and
give both ticks a batch of their own; one retry shows both a retried and an exhausted
task; two rows kept of four make
pruning happen twice; two requests to one dead-letter row with a limit of 2 overlap both
below the limit and at it. In `execution` the task `a` has
no tools (so that it streams) and the role of `b` is edited; a budget of 3 is reached
with one task running and not with none. The proofs below need none of these bounds.
`tools` and `live_view` start in one of several mixes, because happenings that do not
meet (searches and bash; commands and the remounting of the page) only multiply states.

`SYMMETRY` is used in safety runs only, on ticks, requests or callers that run the same
code with no order between them. `CHECK_DEADLOCK FALSE` stands in the runs in which the
bounded requests may be used up with nothing left to fire: `task_routes`, `checkpoints`,
`execution`, `approved_action` and `live_view`. Everywhere else deadlock is checked:
with idle ticks that may fire, no state is stuck.

One run ends in a counterexample, a sentence of the repository that the code does not
keep (`PROJECT.json`, "findings"): `approved_action`. `docs/flow.md:101` says of an
approval that "the task is re-queued for execution" and "the action proceeds"; the task
is executed from its beginning, `evaluateAction` does not look at granted approvals, and
it asks for the same approval again.

### Met while modelling

Statements of the docs, or expectations a reader may have, that TLC refutes when an
instance is changed as said. The formulas stand in the modules.

Runs and tasks:

* `NoFailureWhileRetrying`: a task that sleeps before its retry is FAILED in the
  database, and a tick that finishes another one counts it (`services.ts:1207`).
* `FailureEndsRun`: when the last task to end fails for good, nobody ends the run
  (`services.ts:1293`); a refused COMPLETED is swallowed and not repeated
  (`services.ts:1261`).
* `NoLostRunning` with the event `crash`: a server that restarts within two minutes
  never recovers its RUNNING tasks (`task-broker.ts:31`). With `serialization`, an error
  of `failTask` inside the catch block leaves the rest of the batch. With `commit`,
  `Settles` fails: the task stays in `processingTasks` and no tick takes it again.
* `Exclusive` with two instances (`Instance` `{i1, i2}`, `Home <- TwoInstances`): a
  server that starts re-queues the task another one is executing (against
  `docs/state-machine.md:871`).
* `WaitingHasApproval`: an approval granted just before the run is moved to
  WAITING_APPROVAL leaves it waiting for nothing (`services.ts:1017`). An expired one
  leaves its task RUNNING and its run waiting for ever
  (`services/policy-engine/src/index.ts:294`, against `docs/flow.md:103`); expiry
  happens only at start-up.
* A tick that claimed a task before the run was cancelled re-queues it by id, CANCELLED
  to QUEUED (`services.ts:645`, against `docs/state-machine.md:452`). Cancel takes a
  FAILED run to CANCELLED (`runs.ts:98`), which the table does not allow.
* `SucceededIsFinal` in `TaskRoutes`: the retry route reads FAILED and re-queues by id
  after the worker's own retry has succeeded; a manual retry during the cooldown makes
  that retry illegal, and the task is lost to its tick (`tasks.ts:188`). Likewise a
  rejection, or the re-queueing of a tick, after a manual completion undoes the result
  (`approvals.ts:105`).
* `SucceededIsFinal` in `Operator`, with `Events` `{"approval", "crash"}` and rejections:
  a server that starts again re-queues the RUNNING task and leaves its approval PENDING
  (`task-broker.ts:31`); the task succeeds, and a rejection that comes then undoes the
  result (`approvals.ts:105`).
* `CompletedDone` with `POST /tasks/:id/complete`: the request that completes a claimed
  task may end the run before the tick re-queues the task by id (`services.ts:645`, `1201`).
* A manual failure decided on a retry count that is no longer current may retry a task
  beyond `max_retries`. Of two `POST /tasks/:id/execute` that overlap, the loser's catch
  block fails the task of the winner (`tasks.ts:128`), and the dashboard repeats POSTs.
* The timeouts of planning and routing are decided from a row read earlier: a late tick
  fails a run that another has routed or started meanwhile (`services.ts:375`, `487`).
* `EveryPlanAcyclic`: `POST /runs/:id/plan` accepts tasks that wait for each other
  (`task-broker.ts:104`). A run that is resumed after failing in PLANNING may be planned
  twice; `PlansExplained` counts it as a fault.
* Nothing serialises requests to the dead-letter queue. Two that overlap both pass the
  test, the task is re-queued twice and counted once (`dead-letter.ts:110`), and one
  that counts late writes back a smaller number: an entry is retried more often than the
  "max 3" of `infrastructure/db/migrations/007_bug_fixes.sql:21` and
  `services/orchestrator/README.md:98`. `EntryLimit` says by how much at most. A task
  enqueued again gets a new entry with a new limit, so `MAX_DLQ_RETRIES` bounds entries
  and not tasks.
* `PATCH` of a workflow that does not exist, with `is_default`, clears every default
  before it answers 404 (`workflows.ts:104`).

Checkpoints:

* `createCheckpoint` takes the unique key and then the row of the run, a transition the
  row and then the key (`checkpoint-manager.ts:70`, `state-machine.ts:91`): they may wait
  for each other, and PostgreSQL ends one.
* `RestoredOnce`: a checkpoint can be restored again after another one
  (`checkpoint-manager.ts:112`, against `docs/state-machine.md:721`).
* "leave succeeded tasks alone" (`checkpoint-manager.ts:137`) is true of the snapshot only:
  a task that was PENDING then and has succeeded since is reset.
* Without `DelayAssumption` the guarantees fail: a create that is overtaken, between
  reading the largest number and its INSERT, by more rows than are kept finds its number
  free again, because it was pruned, and inserts a row that is not the newest.

Providers and replies:

* `DeletedNotRouted`: `loadAdapters` only sets, so a deleted provider stays in the
  router until the next start (`providers.ts:143`, `index.ts:32`).
* `StoredKeyUsed` without `OwnRef`, or after a name is registered again by another row:
  the ON CONFLICT clause leaves the owner of a credential, so that deleting the first row
  deletes the key of the second (`gateway.ts:74`). A registration that is blocked leaves
  its key in the cache (`gateway.ts:360`).
* "Reload provider adapters so the new provider is available for routing"
  (`gateway.ts:410`): a registration whose reload fails is answered 201 as well, and the
  provider cannot be selected until a later load. One whose row `createAdapter` makes
  nothing of (an unknown type, a configuration that throws, `index.ts:33`) never can.
* A failure of `loadCredentialsFromDB` is swallowed (`gateway.ts:95`): adapters are
  built with empty keys, until a later start reads the keys, or the providers are
  registered again. A failure of `initializeServices` is swallowed as well
  (`server.ts:188`): the server listens without adapters if `loadAdapters` failed, and,
  since the rest of it is skipped, without recovery, expiry and workers; nothing starts
  them later.
* The fallback takes any capable adapter, healthy or not, and also that of a provider that
  was deleted, against the comment "use any healthy adapter" (`index.ts:167`) and
  `docs/flow.md:58`, "any healthy provider". `SelectionPrefers` claims nothing of a
  selection that has come to the fallback.
* A provider made by `POST /providers` is not routable until the next reload. A late
  health answer overwrites a newer one (`index.ts:181`). Without its secret a row cannot
  be decrypted, and the adapter is built with an empty key.
* `ToldTheOutput`: the extraction of thinking is applied twice, when an output is stored
  and when it is handed on (`services.ts:798`), and is not idempotent: an answer with
  two code blocks is handed on from the second. Streamed outputs are stored with their
  thinking. An output without text is handed on as the JSON of its record
  (`services.ts:785`), so the test for "(no output)" never applies. Empty
  `<think></think>` tags of a streamed output are not taken out when it is handed on
  (`services.ts:799`). A task none of whose dependencies is SUCCEEDED is treated as the
  first.
* A reply of nothing but tool calls stores the lines about their results. The anthropic
  preset has no `toolCallsPath`, so its calls are not found; the gemini preset declares
  tools and sends none; groq and others declare streaming without a format for it. The
  last line of a stream is dropped when it has no newline. Streaming may take three
  requests, nine for a task, where a comment counts six (`ollama-adapter.ts:19`), and its
  cost is always 0.
* The budget is checked before tools and not before provider calls (against the README
  of `services/policy-engine`, line 9); a limit of 0 means the default
  (`services/policy-engine/src/index.ts:113`); a refused transaction in the check ("retry is
  safe", line 173) fails the task for good, since INTERNAL_ERROR is not retried.

Tools:

* "Every tool invocation is logged as an audit event" (`docs/flow.md:116`): a call of a
  tool that does not exist is answered before anything is logged
  (`services/worker-runtime/src/index.ts:577`), so `AnswersLogged` is about tools that
  exist.
* A role may lose a tool between the check of the whitelist and the call, which is made
  (`services/policy-engine/src/index.ts:208`).
* `BashReportsExit`: a command that exits with 0 in a container is reported with exit code
  1, since 0 is falsy (`services/worker-runtime/src/docker-sandbox.ts:219`, against
  `tests/unit/mcp-docker-sandbox.test.ts:413`), and `bash_exec` fails.
* The failure of a tool without a result makes the audit of it throw, which wipes the
  sandbox (`services/worker-runtime/src/index.ts:607`). The availability of Docker is kept
  for ever (`docker-sandbox.ts:82`); a build removes the directory of another one (`:130`).
  A deletion of the run's artifacts that overlaps a store leaves a row without a file.

Dashboard:

* `CompletedShown`: an event may be missed while the socket is closed, nothing is fetched
  when it opens again, and nothing polls while it is open (against `docs/flow.md:154`).
  The routes broadcast nothing, and neither does the move to WAITING_APPROVAL;
  PROVIDER_CALL_COMPLETED shows SUCCEEDED before the task is.
* A development build that runs effects twice is left with two live sockets, which is
  what `ConnectionsBounded` allows. The second socket of LiveLogs and AIOutputViewer
  (`useWebSocket.ts`) closes at clean-up and its `onclose` reconnects with the old run.
* An answer for the run selected before replaces the tasks of the present one
  (`useAppStore.ts:195`); selecting A, B and A again within two seconds leaves no
  selected run. A repeated POST creates a second run, or reports that a cancellation
  that happened has failed.

### Fairness

`Workers`, `Planning`: weak fairness of each tick. `setInterval` keeps firing while the
server lives; every await of a tick ends: provider calls carry an abort timer
(`ollama-adapter.ts`, `universal-gateway.ts`), the cooldown is a `setTimeout`, and
queries are answered. No provider is assumed to succeed: `Settles` holds although every
call may fail, because retries are bounded.

`Checkpoints`: strong fairness of the next statement of a transaction that is under
way. Waiters of a row lock and of a unique key are queued in order, so that a waiter
whose lock is free again and again gets it. Weak fairness of deadlock detection.

`TaskExecution`: weak fairness of every execution, and of its beginning (the ticks).
`ToolRuntime`: weak fairness of every call, of the limiter's timer and of time.
`LiveView`: weak fairness of polling, of the requests (they are answered or fail), of the
throttle's clock, and of the sockets.

Nothing is asked of operators, clients, users, networks or crashes.

## 4. Proofs

**WorkersProofs** proves, for every set of tasks, every graph, number of ticks, limit and
combination of events:

    SingleInstance => (Spec => []SafetyInv)

and from it `TypeOK`, `Exclusive`, `DepsSafe`, `CompletedDone` and
`DagExecutionImplemented` (every step is a step of `DagExecution` or a stutter).
`SingleInstance` (one server per database) is necessary: with two, TLC refutes
`Exclusive` (above). The other assumptions are those of the modules: finite sets,
`Deps` a function into sets of tasks, positive limits.

None of the properties is inductive. `SafetyInv` adds what the code relies on without
checking it:

* `Ownership`: a tick's claimed tasks are in `processingTasks` (`Owned`), in states
  that depend on the tick's step (`Held`), and nobody else's (`Exclusive`). This is why
  `Complete` cannot finish a task another tick has taken. Recovery respects it only
  because a restart empties the ticks of the one server.
* `CoolingDown`: a task that sleeps before its retry has one left.
* `CancelledTogether`: only a cancelled run has cancelled tasks.
* `VerdictHolds`: the verdict carried from the counting transaction to
  `transitionRunState` stays true, since done tasks stay done and no task is added.

The proof goes action by action: types first; then ownership, with lemmas on the three
ways a tick leaves a task (`FinishKeeps`, `GoToKeeps`, `AbortKeeps`) and on the tasks of
the others (`UntouchedKeeps`); then each step is shown to be a step of `DagExecution`,
whose steps preserve `ActiveBound`, `DepsSafe` and `CompletedDone`, so these need
no case analysis of their own.

Two properties rest on less, and so hold in more:

* `ActiveBound` needs no assumption, with any number of servers: nothing but a dispatch
  makes a task active (`WorkersBounded`), and a dispatch counts in its transaction
  (`ChosenFit`). The lemmas say what each kind of update does to the limit, and are used
  again for the requests of operators, of the task routes and of the dead-letter queue.
* `Exclusive` follows from `ClaimsInv`, which says of processingTasks, batches and steps
  only what does not depend on the states of the tasks. It needs `SingleInstance`.

`NoLostRunning` is proved under `SingleInstance` and `Uninterrupted` (neither `crash` nor
`serialization` in `Events`), which is necessary: with either TLC refutes it (above). The
ways a RUNNING task could be left are a tick that finishes with it, which has moved it or
asked for its approval first (`AskedFirst`), and a tick that gives up its whole batch.
That happens only when `failTask` is refused. Since a task in hand has not failed before
(`FailsOnce`) it was then cancelled, and with one task of a run all that were RUNNING
are (`CancelledStops`). `RunningInv` has these parts, and rests on `SafetyInv`.

**OperatorProofs** proves what is left of this when people steer the run, for every
graph, number of ticks, approvals and limit, every set of operations, and every event:

    SingleInstance /\ NoLateRejection => (OperatorSpec => []SteeredInv)

and from it `DepsSafe`, `SucceededIsFinal` and `DagExecutionImplemented`. `Exclusive`
needs `SingleInstance` only, and `ActiveBound` and `RunTerminal` need nothing; these
three are proved with the task routes too. `NoLateRejection` (the server does not crash,
or nobody rejects) is necessary: without it TLC refutes `SucceededIsFinal` (above).
`Ownership` of the workers is no longer true, since operators move a task that a tick
holds. `SteeredInv` replaces it by:

* `ClaimsInv`: what requests do not touch is as before.
* `HeldUndone`: a task that a tick holds has not succeeded until that tick completes it.
  A tick or an operator that moves the task by its id therefore undoes nothing.
* `HeldMeanwhile`: the states that a held task may be in, step by step. One that cools
  down, or whose approval is resolved before the run waits for it, may have been queued
  or dispatched again.
* `PendingUntouched`: the task of a pending approval is left alone until it is resolved,
  and there is one approval for it. Without it a second rejection could fail a task that
  ran again since the first.
* `EndInv`: the verdict stays true (`VerdictHolds`) or the run was cancelled. Resume and
  approvals may add queued tasks, but never change a done one.

Each operator's transaction is shown to be respectful (`StepRespects`: done tasks stay
done, nothing is started whose dependencies are not) and to be a stutter, or a step, of
`DagExecution`; `ActiveBound` and `CompletedDone` then come from that specification.

**PlanningProofs** proves, for every sequence of agents, workflow, number of planners
and faults, and every edit of workflows and roles, that planning is well typed, that the
worker's graphs are acyclic, and that no run is routed without tasks. Acyclicity follows
from `Forward` (a task waits only for earlier ones, kept through drafts and plans) by
taking the first task of a set; `RoutedWithPlan` from `DraftsReady` (a planner about to
route has written a plan with tasks). `PlansExplained` (at most one
plan by planner, and one more for each fault) is an argument by counting. `Able` are the
planners that can still write a plan before the next fault, and

    Len(plans) + Cardinality(Able) <= Cardinality(Planner) * (1 + faults)

(`PlansCounted`) is preserved: a planner that writes leaves `Able`, and only a fault can
bring planners back, all of them at most.

**DeadLetterProofs** proves `DeadLetterSpec => []EntryLimit`, for every plan, limit, number
of rows and of requests at a time, and every behaviour of the workers; nothing is assumed
of how requests overlap. `EntryLimit` is not inductive. The retries of a row come in rounds:
one that finds no other under way opens a round, the late ones follow, and the round ends
when none is under way. `DlqInv` says that

* a round has one opener at most (`OneOpens`), and nobody in it has read a smaller number
  than the opener, so that an old number written back is never below the one the round
  began with, plus one (`OpenerCovers`);
* what any request would write covers what the row has done, but for the lost and the late
  retries (`CountCovers`), and so does the column, unless the opener is about to count
  (`ColumnCovers`).

It proves as well that the workers keep `ActiveBound`, and with a single server
`Exclusive`: a retry only queues a task, whoever has it by then (`RequestsQueue`).

**CheckpointsProofs** proves, for any number of transactions and any limit, under
`DelayAssumption`: `CheckpointsTypeOK`, `CheckpointExists`, `RestoredInTurn` and the action
properties `SequenceGrows` and `CreateKeepsLimit`. `CheckpointsInv` adds:

* `RowsNumbered`: there is no gap among the newest rows, so that pruning by the newest
  is pruning by number;
* `NumbersCurrent`: a number that was read is still the next one, or so little behind
  that its row exists and the INSERT fails. This is where `DelayAssumption` is needed;
* `OneInserted`: at most one row is inserted and not committed, by the unique key;
* `LockHeld`: who holds the lock of the run's row;
* `PruningCurrent`: what a create has deleted is all but the newest of the rows there
  are now, because nobody else can have inserted meanwhile;
* `OtherThanLast`: a restoration under way, which holds the lock, restores another row
  than the last.

**ToolRuntimeProofs** proves first, of the limiter alone and for any number of callers,
`LimiterInv` and from it `SearchesSpaced`; then that every step of `ToolRuntime`, with
its other tools, faults and clean-ups, is a step of the limiter or leaves it alone
(`RuntimeImplementsLimiter`), so that searches are spaced in every mix of calls.
`LimiterInv` says that the queue is being processed exactly when somebody waits, and
that the time since the last search and what is left of the timer add up to the
distance. `ToolsInv` has three parts more, each preserved on its own:

* `LogInv`: the log of a call follows from its step and its result, which gives
  `AnswersLogged`, and a call of an unknown tool leaves the logs of others alone
  (`UnknownKeepsLog`); the queue of the limiter holds waiting calls, each once (`QueueInv`).
* `StoreInv`: what a call has written so far is there unless a deletion overlaps it
  (`WrittenSoFar`), and a deletion under way overlaps every call (`DeletionOverlaps`);
  this gives `StoredArtifactsKept`.
* `SandboxInv` and `CallsInv`: a call has its task from the first await to its answer,
  so that the step which writes a workspace is of a call about that task
  (`TasksIsolated`).

**InMemoryProofs** has two parts. The first proves, for every set of providers, requests
and faults and any number of restarts, `ProvidersInv`, and from it `RegisteredRoutable`,
`SelectionPrefers` and, if no two names share a credential (`OwnCredentials`),
`StoredKeyUsed`. Without `OwnCredentials` TLC refutes the last (above); names come from
the request, and `gateway.ts` makes the reference of a key from the name. `ProvidersInv`
adds:

* `RegisteredOnce`: no two requests register the same row, and before its INSERT nobody
  can have read it;
* `OwnRowRead`: the reading a registration loads from has its own row if that still
  exists. This is why a load that began earlier cannot lose the provider: adapters are
  only set, never removed, so whichever of two loads ends last, both rows are routed. A
  load that fails, or a start that does, puts what it misses into `missed`, and one load
  that reads their rows takes them out again;
* `KeysKept`, `KeyCached`: the key in the table, in the cache and in the adapter of a
  stored provider are the same, or the secret has changed and none can be read, or the
  start has not read it (`unread`). A registration puts its key in the cache before the
  row is inserted, so an adapter that another request's load builds meanwhile has the
  key too.

The second part proves `LiveSpec => []LiveInv`, for any runs, sockets, events, commands,
outages and repetitions of the effect. `ConnectionsBounded` is preserved because a timer
that fires is replaced by one socket and a socket that closes by one timer, also when
`onclose` comes late and forgets the reference to another socket: only the effect adds one,
even if its clean-up finds no timer to clear (`ConnectAddsOne`, `ClosingKeeps`). The types
need `RequestsTyped`, `EventsTyped` and `CommandsAddressed`, since answers, events and
commands under way end up in the store.

**TaskExecutionProofs** proves, for every finite set of tasks and graph, every set of
adapters, replies and bodies, every cut of a stream, and all limits, `ExecutionInv` and
from it `ToolsGranted`, `BudgetStopsTools` and `OutputWhole`; and under
`ThinkingComesFirst`, `HandedOn`. What it assumes of `Task`, `Bodies` and `Replies` is
that they are finite, respectively of the form a format can have (`IsBody`, `IsReply`).

* `ControlInv`: an execution runs a RUNNING task (`RunsItsTask`), a pending approval is
  that of a task that is not executing (`Asks`), what the role allows has been granted
  (`RoleGranted`), a call that is judged is the first of those left (`CallsLeft`), and
  after a tool that ran late no call of that task is past the budget check (`Stopped`).
  `BudgetStopsTools` is an argument about all tasks: what is spent is a sum over a finite
  set of tasks that only grows (`TokensAreFinite`, `SpentGrows`), so a check that fails
  once fails ever after, and only the call between check and tool escapes it.
* `RequestInv`: the retries are within their limits, and a position is within its body.
* `TextInv`: what a stream has passed on is the text of what has been read of it
  (`ReadSoFar`), and a received text is one reply, the end of one, or what became of its
  calls (`WholeText`). The lemma that carries it is `ReadOn`: what a read passes on, from
  the beginning of the unfinished line, follows what had been passed on, with no line
  lost or passed on twice. It rests on `KeptJoined` (the elements kept from earlier
  positions, then those from later ones, are those kept from both), an induction over
  the length that is written as the least number for which it fails (`LeastNumber`, from
  `WFMin`), since the induction theorems of the library cannot be instantiated.
* `ThinkingInv` is apart, since it needs `ThinkingComesFirst`: tagged thinking comes
  before the answer, as models write it. If it came between paragraphs, what the code
  extracts would not be all of it. With it, texts have at most one such paragraph, the
  first (`ThinksOnce`), which the extraction removes; and what an agent is told of is the
  output of a task that has succeeded and so does not change (`ToldOfOutputs`).

TLC has checked the inductive invariants as well: `SafetyInv`, `ProvidersInv`,
`ToolsInv`, `ExecutionInv` and `LiveInv` are listed by a run; `DlqInv` held on the
instance of `dead_letter`, `SteeredInv` on that of `operator_safety`, `PlansCounted` on
that of `planning`, `CheckpointsInv` on that of `checkpoints`, `ThinkingInv` on that of
`execution`, and `RunningInv` on that of
`workers_progress` with two approvals and the events `cancel`, `commit` and `TIMEOUT`
added (11,806 states).

Only model-checked: liveness (`Settles`, `PlanningEnds`, `TransactionsEnd`, `CallsEnd`,
`ExecutionsEnd`, `Reconnects`, `PollingCatchesUp`), which is out of TLAPS' reach. Every
invariant and action property of a passing run is proved, some under the assumptions named
above. `TaskRoutesTypeOK` and `DeadLetterTypeOK` document the types of those modules;
they hold in the instances above, and no run lists them.

## 5. Not modelled, and the plan

Not modelled, with the reason:

* `PUT /gateway/:id/config`: a row is read, merged and written
  in two queries, so an update may be lost; no adapter is reloaded. `POST /gateway/test`,
  URLs, headers, prices and token estimates: formats.
* The JSON validator parses text and is not called by the workers. The secrets store is
  started with the server and read by one route only.
* The database pool, middleware, shared schemas and migrations: their constraints are
  used where they bite (`UNIQUE (run_id, sequence_number)`, ON DELETE CASCADE).
* Audit, observability and metrics: read-only queries and counters.
* The envelope of MCP (JSON-RPC) and its list of tools; its calls are those of
  `ToolRuntime`.
* The pages of the web UI other than the runs page: forms and lists over the store that
  `LiveView` has.
* The contents of files, prompts and commands.

What is left, in the order of its worth:

1. `CompletedDone` with the requests of the dead-letter queue, where it depends on when
   a retry comes; with those of the task routes it is false (above).
2. A start of `Workers` that fails, after which nothing ticks.
3. `DeadLetterTypeOK` and `TaskRoutesTypeOK` as theorems.
