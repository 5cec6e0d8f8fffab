# Lingxiao backend: TLA+ models, model checks and proofs

This directory models the control logic of the agent runtime of
`packages/sdk/src` (paths below are relative to it): how a task of a session is
planned, dispatched, executed by a worker, judged, recovered after crashes, and
stored; how the pool and a worker process tell each other how a run ended; how
agents guard their requests to a language model; how a worker asks for a
permission; how workflows are executed; and how processes share a lock file. The
modules are checked with TLC on small instances, and the central invariants are
proved with TLAPS for every value of the constants.

- `tlc -config LifecycleGraph.cfg TaskLifecycle.tla` checks one instance
  (`PROJECT.json`, "runs", lists them all with module and configuration);
- `tlapm TaskLifecycleProofs.tla` checks proofs; so for `TaskBoardLemmas`,
  `LlmGuardProofs`, `WorkflowEngineProofs`, `SlotSchedulerProofs`,
  `WorkerReportingProofs`, `PermissionExchangeProofs` and `TopologicalSortProofs`.

## 1. The system

The SDK runs *sessions*. A session has one **Leader** (an LLM loop with tools),
a **TaskBoard** of tasks that may wait for each other, a **pool** of worker
agents, each a child process, and a **MessageBus** on which workers report to the
Leader. All of the session's state except the workers lives in one
single-threaded Node process; handlers interleave at their `await`s, at timers
and at process events. Rows of a SQLite database survive the process.

```
 user ── SessionManager ──┐             ┌── RuntimeRecoveryController (timer)
                          v             v
 Leader tools ──> TaskBoard (cache + rows) <── OrchestrationRuntime (evaluators)
   │ dispatch_agent         ^        ^
   v                        │        │ receipts: LeaderWorkOrchestrator
 UnifiedScheduler ─> AgentPool ──────┴── MessageBus <── worker processes
   (slots by task)    │  SlotScheduler (slots by run), FaultRecovery (back-off)
                      └── worker processes (complete / failed / exit / timeout)
```

### Inventory

| component | state it keeps | operations | hard behaviour | correct when |
|---|---|---|---|---|
| DAG engine `core/DagScheduler.ts` | none; graphs of its callers | cycle test, readiness gates, Kahn's sort | dangling and self edges, visited sets per path | the sort is fail-closed and only that; checked edges keep a graph acyclic |
| TaskBoard `core/TaskBoard.ts`, rows in `core/Database.ts` | cached tasks, rows, id counter | create, update, delete, status, assign, put back, block, reopen, cancel, evict, load | two copies of every task, redundant back links, two spellings of the generation, multi-row writes | cache and rows agree; back links complete; generations grow; a cancel releases its dependents |
| dispatch path `agents/LeaderTools.ts`, `agents/UnifiedScheduler.ts`, `agents/DispatchDecisionCoordinator.ts` | slots per task (`runningWorkers`) | dispatch, reconcile, event-driven release | slots freed by events that may not come | a task that nobody runs can be dispatched |
| agent pool `agents/AgentPoolRuntime.ts`, `agents/pool/WorkerEventHandlerBinder.ts` | handles (status, task, bound generation, lineage) | register, wait for a slot, spawn, complete, fail, stop, respawn | handles outlive their run; reports of superseded workers | a report touches only the run it belongs to |
| slot queue `agents/pool/SlotScheduler.ts` | running set, queue, resolvers, limit | acquire, acquireOrWait, release, resize | hand-over of a slot, change of the limit while wrappers wait | a semaphore that forgets nobody and starves nobody |
| fault recovery `agents/pool/FaultRecovery.ts`, `core/AutonomousFaultPolicy.ts` | recovery records, back-off timers | classify, budget, redispatch, respawn, give up | timers racing everything else; failure of the retry itself | no row stays running with nobody who knows |
| recovery controller `core/RuntimeRecoveryController.ts` | none (records, board) | reconcile on a timer | applies a decision taken earlier to a task that moved on | idempotent; drops no record that is still needed |
| receipts `agents/LeaderWorkOrchestrator.ts`, `agents/OrchestrationRuntime.ts` | processed receipts; evaluator tasks | fences, verdict, follow-up tasks | duplicates, reordering, conflicting verdicts | one run, one verdict |
| session resume `core/ResumeManager.ts`, `runtime/SessionManagerRuntime.ts` | rows, checkpoints | wake the Leader, resume in a new process, cancel, follow-up message | recovery of tasks whose workers are alive | runs of different processes are never confused |
| worker process `core/WorkerProcessRunner.ts`, `core/ipc/IPCDrainQueue.ts`, `agents/pool/WorkerEventHandlerBinder.ts` | the process entry, IPC queue by tier, timers of start, kill and cleanup, the handle of the agent | spawn, reap, send, drain, watch, kill, exit, respawn | exit before the last message; shed messages; a process that outlives its entry; stops undone by timers | a finished worker is never taken for crashed; every run ends; one process per name |
| message bus `core/MessageBus.ts`, `core/transport/` | inboxes by priority, waiters | send, read, ack, trim | a late reader, stale inboxes | no receipt is lost in the process |
| Leader loop `agents/leader/LeaderThinkingLoop.ts` | history, turn state | think, call tools, wait | wake-ups during a turn; errors that are counted or not | every message leads to a turn |
| LLM resilience `llm/CircuitBreaker.ts`, `agents/LlmGuard.ts`, `llm/provider_runtime.ts` | a breaker for each scope and one for the provider, attempts with their retries | ask, answer, fail, abort, compact, reset | requests older than a state change; aborted probes; two breakers on one request | the slot of a probe is not lost; callers are served again |
| file locks `core/FileLock.ts` | lock files and their salvaged copies | lock, salvage, unlock | three processes and a stale lock | mutual exclusion |
| permission requests `agents/LeaderPermissionManager.ts`, `agents/BaseAgentRuntime.ts`, the inbox bridge of `agents/AgentPoolRuntime.ts` | the gate, its queue, pending and resolved requests; inboxes on both sides | ask, wait, answer, replay, recover | answers after the time-out, to a parallel call or to an earlier process; many requests behind one gate | a tool call goes on only with a yes to this very call; no request is forgotten |
| execution leases `core/ExecutionLease.ts` | TTL entries | claim, renew, expire | expiry at use | at most one holder |
| blackboard `core/blackboard/` | graph of facts and intents | claim, conclude | concurrent claims | an intent is concluded once |
| team mailbox `core/TeamMailbox.ts`, `core/TeamRequestTracker.ts` | messages, requests with deadlines | send, acknowledge, time out | answer after the deadline | one outcome per request |
| checkpoints `core/checkpoint/` | snapshots of contexts | write, load | crash while writing | the last whole snapshot is used |
| workflow engine `core/workflow/` | contexts of executions, active executions, cached definitions, timers | execute, run nodes, branches and loops, retry, pause, resume, cancel | timers and users between nodes; branches nobody waits for; which nodes a condition skips | nodes run in order, nothing is forgotten, a failure is final |
| scheduled tasks, eternal loop `core/ScheduledTaskManager.ts`, `core/EternalLoop.ts` | timers | start turns | overlap of turns | no turn is lost |
| blueprint, bug-hunt ledger `core/ProjectBlueprint.ts`, `core/BughuntLedger.ts` | documents | order nodes | – | as the DAG engine |
| permission rules, tools, memory, prompts, web API, command line | data, connections | I/O around the core | – | – |

The hazards of this code, each at the line where it bites and with the properties
that watch it, are listed in `PROJECT.json`.

## 2. The modules

| module | models | instantiated by |
|---|---|---|
| `DagScheduler` | the pure functions of `core/DagScheduler.ts` | `TaskBoard`, `TopologicalSort` |
| `TaskBoard` | every method of the board that changes state, as operators from a board to a board | `TaskLifecycle` |
| `TaskLedger` | abstract: what a pair (task, generation) means to its holder | refined by `TaskLifecycle` |
| `TaskLifecycle` | the composition: Leader tools, dispatch, pool, recovery, receipts, restart | four configurations |
| `SlotPool` | abstract: a counting semaphore with hand-over | refined by `SlotScheduler` |
| `SlotScheduler` | the slot queue under `runAgentWrapper` | one configuration |
| `TopologicalSort` | Kahn's loop on every small graph, and the cycle test | one configuration |
| `IpcQueue` | `IPCDrainQueue`: tiers, shedding, the order of a drain | `WorkerReporting` |
| `WorkerReporting` | one worker name: processes, pipe, queue, process entry, timers, the agent's handle | one configuration |
| `CircuitBreaker` | the breaker as operators from a breaker to a breaker | `LlmGuard` |
| `LlmGuard` | callers of four kinds, their attempts, the breakers of their scopes and of the provider | two configurations |
| `FileLock` | processes of one host and the lock files they create, move and remove | one configuration |
| `PermissionDesk` | every method of `LeaderPermissionManager` that changes state, as operators | `PermissionExchange` |
| `PermissionExchange` | workers, their inboxes on both sides of the bridge, the Leader, the user, a restart | one configuration |
| `WorkflowGraph` | questions about a workflow: validity, bodies, dependencies, skipped branches | `WorkflowEngine` |
| `WorkflowEngine` | executions, the walks over their nodes, timers and the user | `MCWorkflow` |
| `MCWorkflow` | the workflows of the checked instance | one configuration |
| `TaskBoardLemmas`, and `TaskLifecycleProofs`, `LlmGuardProofs`, `WorkflowEngineProofs`, `SlotSchedulerProofs`, `WorkerReportingProofs`, `PermissionExchangeProofs`, `TopologicalSortProofs` | the proofs | – |

### How state corresponds to code

`TaskBoard` keeps the two copies of a task that the code keeps: `mem`, the Map
`tasks` of the class, and `rows`, the table. A cached object has two generations,
`gen` (`runGeneration`, which may be undefined, `NoGen`, in an object spread from
a row by `loadFromDB`) and `genCol` (`run_generation`, what it was spread from),
and two exit reasons, `exit` (`exitReason`) and `exitCol` (`exit_reason`). `Columns`
is what a write puts into the row, with its fallbacks from the first to the second
spelling; `Normalized` is the object `getTask` builds. A status is `dispatchable`, `running` or `terminal`; the exit reason, the blocked
reason (as a flag), dependencies, back links and the assigned agent are kept.
Subjects, results, scopes, priorities and the contract gate are data that change
no control here and are left out.

`TaskLifecycle` has seven variables. `pool[a]` is the handle of agent name `a`:
its status, task, bound generation, lineage (attempts it descends from) and
`todo`, the continuation that is pending: the wait for a slot inside
`runAgentWrapper`, or the back-off timer. `bucket` is
`UnifiedScheduler.runningWorkers`, `recs` the recovery records, `receipts` the
messages sent to the Leader, `processed` the keys in `_processedReceipts`,
`forcing` the `force_complete_task` calls inside their one second wait.

An action is the part of a handler that runs without giving way, with every
change it makes, those made by synchronous listeners included (`WithFollowUp` is
the orchestration runtime that listens to the terminal events and may create an
evaluator or repair task). Awaits split a handler only where another handler can
run and matter:

| code | actions |
|---|---|
| `create_task`, `update_task`, `delete_task`, `update_task_status` | `CreateTaskTool`, `UpdateTaskTool`, `DeleteTaskTool`, `UpdateTaskStatusTool` |
| `dispatch_agent` → `requestDispatch` → `runAgentWrapper` | `Dispatch` up to the wait for a slot, `SlotGranted` after it; `DispatchRefused` |
| worker events | `WorkerEnds` (complete and hard failure), `WorkerCrash` (crash, timeout, recoverable failure; with the automatic retry) |
| the back-off timer | `RespawnTimer`, `RespawnFails` |
| `retry_agent`, `terminate_agent`, message to a stopped agent | `RetryAgent`, `TerminateAgent`, `FollowUpMessage` |
| `cancelTask` of the session, `force_complete_task` | `CancelTaskCommand`, `ForceBegin`, `ForceEnd` |
| `processWorkerTaskResult` | `LeaderReceipt`; receipts stay in the set, so they may come again, in any order, or never |
| `RuntimeRecoveryController.reconcile` | `Reconcile` |
| a stopped Leader woken by a message | `LeaderWake` |
| a new process | `Restart`, `CrashInCancel` |
| the cleanup loop | `EvictTasks` |

What the environment may do is chosen by the constant `Features`; each member
is a mode of operation or a kind of fault, so that a configuration can say which
of them it includes. All of them are real: `auto_retry` is a configuration option,
`session_ttl` a session older than 30 minutes, `status_tool` the Leader's use of
`update_task_status`, and so on (see the module).

External to `src/`: nothing is modelled as external. SQLite is taken to write one
row atomically.

### The worker and its process

`WorkerReporting` is one worker name. `procs` are the processes started under it,
one after the other, `pipe` what the last one wrote and the parent has not read,
`queue` the tiers of `IPCDrainQueue`, `entry` the `WorkerHandle` in the runner's
map, `timers` its five second timers in order, `agent` the `AgentHandle` of the
pool, `call` the dispatch or respawn in progress. The parent is one thread: `turn`
is the callback that runs, `sched` the drains that `setImmediate` has ordered. An
operator from the record of `procs`, `entry`, `timers`, `agent` to such a record is
one synchronous listener; an action strings together those that one event
reaches. Processes speak and die at any time.

| code | actions |
|---|---|
| the worker's own messages, its exit and signals | `SayStarted`, `Chat`, `SayEnd`, `Die` |
| `push`, `drain`, `drainAllSync` | `ReceiveMessage`, `DrainBegins`, `Consume`, `DrainEnds` |
| `handleWorkerExit` | `ExitEvent` (drains what came), `ExitHandled` |
| the monitor of heartbeats | `ZombieFound`, `Watchdog` |
| start time-out, wait for an exit, SIGKILL, cleanup | `SpawnTimeout`, `AwaitTimeout`, `KillTimer`, `CleanupTimer` |
| `dispatchAgent`, `respawnAgent`, `spawnWorker` | `Register`, `RespawnBegins`, `RespawnResets`, `SpawnWorker`, `SpawnRefused`, `SpawnResolved`, `SpawnRejected` |
| `stopAgent`, `stopAll`, `handleWorkerError` | `StopAgent`, `StopAll`, `ChannelError` |

### Requests to a language model

`LlmGuard` has a breaker for each scope and the breaker `shared` of the provider.
Callers are Leaders (scope `leader`), agents (a scope of their own), `Plain` ones
whose guard uses the shared scope, and `Direct` ones without a guard. `calls[c]` is
where the caller's attempt is, with the error it met and its counts of retries;
`holds[c]` says at which breakers it has been admitted and not yet reported.

| code | actions |
|---|---|
| an attempt of `LlmGuard`, the generator, `retryProviderOperation` | `Attempt`, `Stream`, `Enter`, `Answer`, `Fail`, `Unbuildable` |
| success and the catch of an attempt | `Return`, `Recycle` (a refusal resets the breaker), `RetryBusy`, `Compact`, `Discard` |
| what the Leader's loop does with an error | `Waits`, `Repeats`, `UserMessage`, `Cancel` |
| time | `ProbeInterval` |

A caller that is done asks again at once. In the code a Leader whose round was
aborted or whose compaction failed waits for its next input, which is one of the
orders the model contains.

### Permission requests

`PermissionDesk` is the state of `LeaderPermissionManager`: the gate, the queue
behind it, the requests that are pending and resolved. `PermissionExchange` adds
the processes of the workers (`proc`: calls that wait, inbox, time-outs), the
messages under way (`link`), the Leader's inbox, and three history variables:
`granted` (requests whose tool call went on), `approved` (those somebody said yes
to) and `consent` (the session's layer has the mode "yolo" because the user set it or
said yes to it; forgotten when the layer gets another mode).

Of the layers of permissions the desk keeps the mode of the session's, `layer`: unset
before anything is stored, "none" if what is stored has no mode. `DefaultYolo` and
`BelowYolo` say what the configuration and the layers below give, `InYolo` what follows.
As `security.permission_mode` falls back to "yolo", so does the instance: the question
is whether a session that has left "yolo" is ever brought back by anything but the
user. A request may come without a mode (the Leader's tool leaves it out), and its
approval then leaves the mode as it is (`SetMode`).

| code | actions |
|---|---|
| `requestPermissionFromLeader`, `waitForMessageType` | `AskPermission`, `AnswerArrives`, `WaitTimesOut`, `BatchEnds` |
| the P0 handler, the Leader's reading of its inbox, `request_permission_update` | `RequestArrives`, `LeaderReads`, `LeaderAsks` |
| the user's answers in the interface and in the conversation | `UserAnswers`, `UserTypes` |
| `setPermissionMode` of the user | `UserSetsMode` |
| the wait for the user, control modes | `TurnEnds`, `WaitCleared`, `SwitchMode` |
| crash and return of a worker, the inbox bridge, a new process | `WorkerDies`, `WorkerReturns`, `Bridged`, `Restart` |

Left out: the window of 500 resolved ids (all are kept), the names of tools (any
unanswered request may match a question of the Leader alone), the other messages in
the inboxes, the cursor of the bridge (one monotone clock never makes it skip), and
requests of the Leader that name a permission file as their destination. A worker
never asks for "yolo".

### Workflows

`WorkflowGraph` answers what the engine asks of a definition. The code finds bodies
and skipped branches by walks; the module says what the walks find (`Reach`, the
least closed set). In `WorkflowEngine`, `exec[e]` is the context of an execution with
its timer and row, and `walk[w]` what goes through its nodes: the run of
`runWorkflow` that `execute` or `resume` started, a branch of a parallel node, or an
iteration of a loop, each with its queue, the nodes it knows to be done or skipped
and the node it is at. The code awaits events in two places only, inside a node's
executor and in the delay before a retry. Everything between is a chain of promises
that runs to its end before a timer or a call of the user; the model takes it in
small actions, and `Quiet` keeps the timers and the user out meanwhile.

| code | actions |
|---|---|
| `runWorkflow`, `executeBranch`, `executeLoopNode` | `Take`, `Onward`, `Iterate`, `Join`, `Vanish` |
| `executeNode` | `Begin`, `NodeEnds`, `RetryDue` (with `AttemptFails`, `AttemptSucceeds`) |
| `execute` and its timer, `then`, `catch`, `finally` | `Execute`, `TimesOut`, `RunEnds` |
| `pause`, `resume`, `cancel`, `storeExecutionHistory` | `Pause`, `Resume`, `Cancel`, `Forget` |

Data is left out: variables, inputs and mappings, results other than that of a
condition, the order of nodes and edges in lists (any ready node may be next);
`executeSingleNode` and the storage of definitions too. An executor may refuse its
input or configuration.

### Lock files

`FileLock` has a process for each pid. A file keeps its identity when it is renamed;
`path` is the one at the lock's path, `copy[p]` the one a cleaner has renamed away.
`Create`, `Write`, `Release`, `Unlink` are the calls of `acquire` and `release`,
`Judge`, `Move`, `Settle` those of `tryCleanStaleLock`, `Crash` and `Age` the
environment. Lock files of other hosts, the sharing rules of Windows, and a failed
write of the identity are left out.

## 3. The runs

| run | configuration | instance | shows |
|---|---|---|---|
| `graph` | `LifecycleGraph` | 2 tasks, 1 agent, 2 generations, edit tools and stop commands | `TypeOK`, `CacheCoherent`, `BackLinksComplete`, `CancelReleases` |
| `faults` | `LifecycleFaults` | 1 task, 2 agents, 5 generations, 3 receipts, every feature | `CacheCoherent`, `VerdictSettlesRun`, `OneVerdictPerWorker`, `RowsKeepLedger` |
| `runs_end` | `LifecycleRuns` | 2 tasks, 2 agents, 3 generations, 1 receipt, 3 attempts, automatic retry | `RunsEnd` (liveness) |
| `topo` | `TopologicalSort` | every graph of 4 nodes and one dangling id with at most 5 edges | `OrderRespectsEdges`, `CycleIsExactlyStuck`, `CheckedEdgesStayAcyclic`, `SortEnds`, `TypeOK` |
| `slots` | `SlotsPass` | 5 wrappers, limit 1 or 2, growing to 3, agents stopped without an event | `NoWaiterForgotten`, `ImplementsPool`, `EveryWaiterServed` |
| `worker` | `Worker` | one name, 2 processes, 1 heartbeat, a queue of 4, batches of 3 | `TypeOK`, `OneWorkerProcess`, `ActiveIsWatched`, `QueuedCompletionWins`, `CompletedStays`, `StopSilencesWorker`, `RunSettles` |
| `breaker` | `Breaker` | a Leader and a caller of the shared scope, both of which may stream, threshold 2, 2 retries | `TypeOK`, `OpenExactlyWhenCounted`, `OnlyAbortLosesProbe`, `ServedAgain` |
| `permissions` | `Permission` | one worker with 2 parallel calls, 2 requests, "yolo" by default | `TypeOK`, `GrantsAreApproved`, `NoRequestForgotten`, `YoloIsUsersChoice`, `QueueIsServed` |
| `workflow` | `Workflow` | eleven workflows of up to 5 nodes, 4 walks, 1 retry, 2 turns | `TypeOK`, `OrderRespected`, `CompletedMeansAll`, `IdleIsSettled`, `FailedIsFinal`, `StopHolds`, `ExecutionEnds` |
| `stale_completion`, `hung_provider`, `lock_file` | | | the first three divergences of section 5 |

Why these bounds suffice:

- *Tasks.* The relations between tasks are pairwise: a dependency, its back
  link, a release. Two ids let every task be created, wait, be deleted or
  cancelled under the other, and let a task be created by the orchestration
  runtime in the middle of a cancel. Per-task properties (`VerdictSettlesRun`,
  `RowsKeepLedger`) need one task and two agents that both claim it.
- *Generations.* Every put-back, block, reopen and assignment takes one. Five
  allow: assign, crash and automatic retry (two), a wake-up in between and a new
  assignment, with the receipts of both workers to come. A handler whose board
  would pass the bound is not taken (`BoardBecomes`).
- *Receipts.* Two workers and a conflicting third verdict in `faults`; one in `graph`.
  In `runs_end` one report is made between two restarts (and may be delivered again);
  the other workers crash, which is what the run is about.
- *Attempts.* The code allows 3. `graph` uses 1, so that the first crash already
  exhausts the budget, `faults` 2, so that two overlapping workers do, and
  `runs_end` keeps the 3 of the code.
- *Slot keys.* Limit 2 with five wrappers gives queues of three; a key stands
  for one wrapper after another.
- *Worker.* An old process and its successor are all that one name ever has at a
  time. A life has four messages (start, heartbeat, note, end) of different tiers; a
  queue of four sheds them when the messages of the old process are still there, and
  a drain of three takes a part of it only, so that other callbacks run in between
  (1,399,970 states).
- *Breakers.* Every path through a breaker of threshold 8 that differs in kind is
  one through a breaker of threshold 2: the first failure, the last one, one more
  while it is open or probing. Two callers meet at the provider's breaker, and both
  may be aborted by their users (299,352 states). Agents' and direct callers are
  covered by the proofs.
- *Permissions.* Two requests are one at the gate and one behind it, two calls are
  one answer that the other may take (309,162 states). The Leader asks again only
  while no answer is unread (`MaxAnswers` 0); the proofs cover the rest.
- *Workflows.* Each of the eleven has a case that another lacks: two starts that
  meet, a condition with branches that meet again, a reader of data, branches that
  meet in a body and a node after them, a parallel node that is tried again, an entry
  of a body that another entry leads to (not structured, see section 4), loops
  with a condition and with a parallel node in their bodies, a cycle, a body that
  is missing. Two executions at a time are allowed for one workflow and two runs
  of one execution for two, where they matter; `Loop` and `Reader` were checked once
  with two runs too. Four walks are enough: no behaviour within these bounds needs
  a fifth. 150,316 states.
- *Lock files.* Four processes and three files let a dead holder's lock be judged
  twice and a live one be moved.
- *Graphs.* Cycles of length 1 to 4, with and without a tail, diamonds, and
  edges to an id that is not a node.

`graph` and `faults` each check `CacheCoherent`: the first for methods that touch
several tasks, the second for reloads, evictions and crashes inside a cancel.
`BackLinksComplete` and `CancelReleases` are checked without `session_ttl` and
`cancel_crash`, because with them the code does lose back links (section 6).

### Fairness

`RunsEnd` is checked under three conditions for every agent: it does not wait
for a slot for ever, its worker does not run for ever, and its back-off timer
does not stay armed for ever. Each of them enables the actions that end it for as
long as it holds, so they are the weak fairness of those actions written on
states. That a slot comes is a premise about the environment: the slot queue serves
every waiter while some slot is not held for an abandoned agent (`EveryWaiterServed` in
run `slots`), which the code does not guarantee (section 5). The others the code
justifies: a worker is ended by its own
completion, by a process exit or by the pool's watchdogs, and a Node timer fires.
Nothing is assumed of the Leader, of the user or of a restart. A behaviour in
which an agent cannot move because a bound is exhausted (a worker that would need
one receipt or one generation too many) does not meet the conditions and is not
considered: the run speaks of the behaviours that stay inside the bounds.

`SlotScheduler` assumes that a wrapper releases (`Settles`) unless its agent was
stopped without an event. The `finally` block runs when the promise of `dispatchAgent`
settles, which takes one of five events (`SlotScheduler.ts:326`); a worker that is left
alone ends with one, its own or that of a watchdog. `stopAll`, `completeAgent` and an
automatic retry that fails emit none: `Abandon`. Then `EveryWaiterServed` promises
nothing to those who wait once every slot is held this way. `TopologicalSort` assumes that the loop goes on.

`WorkerReporting` assumes what Node and the system give: the loop of the parent
turns, the timers of start, monitor and waiting expire, a call in progress goes on,
and a process that was sent SIGKILL dies. Nothing obliges a worker to speak or to
end; the timers of escalation and cleanup are not needed.

`LlmGuard` assumes that an attempt comes to an end (its watchdogs), that callers ask
again and that time goes on. Nothing obliges the provider to answer: `ServedAgain`
speaks of a provider that has recovered (`steady`), after which requests are
answered.

`PermissionExchange` assumes only that the user answers a gate that stays open.
`WorkflowEngine` assumes that the chain of promises goes on and that timers of
retries expire. That the executors of nodes end is a premise of `ExecutionEnds`, not
an assumption.

### Mutants

Each property has a mutant, a small change of a modelled definition of the kind a
programmer could make (a write forgotten, a fence dropped, an off-by-one, the
youngest waiter served first), under which TLC finds it violated. The mutants
stand before the definition they change, marked as such. (`CancelKeeps`, for
example, leaves a cancelled execution in `activeExecutions`; `GrantedByAny` takes
the first answer that comes.)

## 4. What is proved

All for every value of the constants: any number of tasks, agents, callers,
workflows and executions, any bounds.

| module | theorems |
|---|---|
| `TaskLifecycleProofs` | `TypeCorrect`, `CacheStaysCoherent`: `Spec => []TypeOK`, `Spec => []CacheCoherent`; `LedgerIsKept`: the refinement `RowsKeepLedger`; `VerdictsSettle`, `JudgedOnce`: `VerdictSettlesRun`, `OneVerdictPerWorker`, all for any set of features; without `session_ttl` and `cancel_crash`, `LinksComplete`, `CancelReleasesAll`: `BackLinksComplete`, `CancelReleases`; `InvariantHolds`: the inductive invariant |
| `LlmGuardProofs` | `TypeCorrect`, `BreakersCounted`, `ProbeOwned`: `TypeOK`, `OpenExactlyWhenCounted`, `OnlyAbortLosesProbe`; `ProbeOwnedUnlessAborted`; `GuardInvariant` |
| `WorkflowEngineProofs` | `TypeCorrect`, `IdleSettled`: `TypeOK`, `IdleIsSettled`; `FailureFinal`, `StopsHold`: `FailedIsFinal`, `StopHolds`; `OrderIsRespected`, `CompletedIsAll`: `OrderRespected`, `CompletedMeansAll`; `EngineInvariant` |
| `SlotSchedulerProofs` | `TypeCorrect`, `AlwaysAccounted`: `TypeOK`, `Accounted`; while the limit does not shrink, `WaitersKept`, `SchedulerIsPool`: `NoWaiterForgotten` and the refinement `ImplementsPool`; while it stays the same, `NoIdleSlot` |
| `WorkerReportingProofs` | `TypeCorrect`, `OneProcess`, `ActiveWatched`: `TypeOK`, `OneWorkerProcess`, `ActiveIsWatched`; `StopSilences`, `CompletedIsFinal`: `StopSilencesWorker`, `CompletedStays`; `CompletionWins`: `QueuedCompletionWins` |
| `PermissionExchangeProofs` | `TypeCorrect`, `GrantsApproved`, `RequestsKeptInMind`, `YoloChosen`: `TypeOK`, `GrantsAreApproved`, `NoRequestForgotten`, `YoloIsUsersChoice`; `InvariantHolds` |
| `TopologicalSortProofs` | `TypeCorrect`, `OrderSound`, `CycleExact`, `CycleTestExact`: `TypeOK`, `OrderRespectsEdges`, `CycleIsExactlyStuck`, `CheckedEdgesStayAcyclic`; `SortCorrect` |

### The task life cycle

Assumptions: `BoardAssumption` (there is at least one task id; the empty agent
name is no agent; the absent task is neither a row nor an object),
`LifecycleAssumption` (bounds are natural numbers; features are among the known
ones) and `LedgerAssumption` (the absent task is no entry of the ledger). TLC
evaluates them in every run of `TaskLifecycle`.

Neither `TypeOK` nor `CacheCoherent` is inductive alone. `TypeOK` needs coherence: `getTask`-less
methods write the cached object into a row, and the fallback of `Columns` yields a
generation only when one of the two spellings is a number; coherence itself compares
the row with what a write of the object would put there, fallbacks included; a task that is cached
but has no row would make the handlers that look into the row meaningless. Both need a third
fact, that a registered handle names a task: a crash, a timer or a receipt uses
the handle's task as an index. The inductive invariant `IInv` is therefore the
conjunction of three parts: `Good(board)` (well typed and coherent),
`PoolOK(pool)` (handles well typed, and a handle whose status is not `none` names
a task) and `RestOK` (the remaining types).

`TaskBoardLemmas` shows once that each method of the board keeps a good board
good; `OnEachGood` lifts this to the loops over several tasks (reconcile,
recovery, restart), each of which touches one task per turn. The proof that `Next`
preserves `IInv` has one lemma per action, and under each one step per part of the
invariant that the action can disturb; most follow from the lemma of the method
the handler calls and the shape of the handle it leaves.

The runs. `Follows` orders the rows of one task: the same generation, which may have
ended, or a later one. A method that works on one task is a `StepOf` it, and a handler
is a chain of such steps (`StepsCompose`, `AdvancesCompose`). Three facts carry the
proof. A method that starts a run adds one to the generation of the cached object, and
after a reload this is undefined and would count as 0: it is safe as every handler
reads the task first (`Counted`, which `ReadStep` establishes). The tool
`update_task_status` may mark a task running and end it in one go, which no row shows
(`BeginAndEndStep`). And a deletion removes a row only while it is dispatchable, by
coherence with the cached object it looks at. A judged run stays over as its row
follows the one that was judged, or is deleted; that its id is not given again needs
one more invariant, that the rows are behind the counter (`Numbered`), which a restart
re-establishes from the highest row while it forgets the judged receipts.

The links. `Linked` adds to `BackLinksComplete` what makes it inductive: every task
with a row is cached, whoever waits waits for a task that exists, and the cached back
links are among those of the row. The last is not equality: `deleteTask` rebuilds the
links of everybody and writes only the rows of those who waited. `LinkedBut` allows the
gap that the first half of a cancel opens and `ReleaseEffect` closes it. An eviction, or
a crash in the gap, breaks the links; the theorems assume that neither happens, as the
run that checks the two properties does.

### Requests to a language model

Assumptions: the threshold and the limit of retries are positive, the kinds of
callers are disjoint, and direct callers do not stream (`LlmGuard`, its ASSUMEs).
`OpenExactlyWhenCounted` is a fact about one breaker that each operation of
`CircuitBreaker` keeps (`Sound`; one lemma per operation). `OnlyAbortLosesProbe` needs
more: the probe's slot may be freed by the guard of a plain caller or by the
operation beneath it. `PlainCalls` says at which of its breakers a plain caller has
been admitted. With it, the caller that owns the slot keeps it until it frees it or its
guard is aborted (`OwnerStays`), and everybody else's step leaves its attempt alone
(`OthersOwn`). That the slot always has an owner (`SharedProbeOwned`) is false, since an
aborted guard leaves without telling the breaker; it holds of behaviours without such
an abort (`ProbeOwnedUnlessAborted`).

### Workflows

Assumptions: `EngineAssumption` (the definitions are made of nodes, bounds are
numbers), `NodesAssumption` (there are finitely many nodes) and `NoneAssumption` (the
absent walk is no walk). `TypeOK` includes two
facts that the types of single walks do not tell: a walk at a node has it in its body
(`Placed`), and a walk inside a node belongs to a walk of the same execution that waits
there (`Nested`). One lemma for each way in which walks change (`WalkGoesOn`,
`WalkLeaves`, `WalkIsFreed`, `RunBegins`, `WalksBeginInside`) keeps them; every action
is one of these. `IdleIsSettled` is inductive with three more facts: a paused
execution is in `activeExecutions`, an armed timer belongs to a run of `execute`, and
an execution that could not be resumed has failed. The second is why the timer may
write a status without writing the row: the run is still to end. `SameRuns` and
`SameStatus` say of most steps that they touch none of this. `FailedIsFinal` and
`StopHolds` follow from the types, action by action.

`CompletedMeansAll` and `OrderRespected` are about how the walks of an execution share
its nodes. The proof first says what each step does to one execution: a walk halts,
shifts, picks a node, closes it, opens it for others, advances behind it or is given up,
a run begins, or nothing moves (`Halts` to `Emptied`). Every action is one of these
(`EveryStep`; `EffectOn` for an execution that is not mixed), and each invariant is
then shown for these kinds of steps and not for each action. To see that an iteration
opens its node alone one needs that a loop has one iteration at a time
(`OneIteration`), and that no walk is left in an execution that was forgotten
(`NoWalkUnknown`). Three layers follow.

1. `Shaped`: the walks of an execution that is not mixed are a tree below its run, and
   each inner walk knows the body of the node that its parent waits in.
2. `RunKnows`: what the run has done or skipped has a final state or lies in the body
   of a node that has completed or is being worked on; what it has queued has its
   dependencies; when it is between two nodes, everything that is ready is queued
   (`Planned`); and the walks inside stay in the body of its node (`Within`).
   When the run returns, the queue is empty. If a node were left, the first one in the
   order of a workflow without a cycle would be ready and hence queued
   (`SomeNodeIsFirst`, `NothingLeft`), and no branch is under way since the walks inside
   the last node have returned (`Alone`).
3. `Ordered`: an inner walk comes to a node of its body only after all that leads to it
   there (`Walked`), and two inner walks never come to the same node. Without the
   second, a branch could run the node of another one again while what follows it works.
   It holds as a set of nodes that has a node of a body, and with a node all that leads
   to it, has the owner of the body (`BackToOwner`), and the owner is being worked on
   by the walk that waits there (`TakenOnce`, `EntryIsFresh`, `NextIsFresh`).

The proof attempts showed that neither property holds of every workflow that `validate`
(`ExecutionGraph.ts`) accepts, and TLC then found the counterexamples. A parallel node
with edges to 2 and 3, and an edge from 2 to 3: 3 begins with 2, as entries begin at
once. And a workflow of six nodes in which the body of a loop leaves the body of the
loop around it, where a node fails, the retry of its loop takes another branch, and the
execution is completed with a failed node. Therefore `OrderRespected` is
about workflows that are `Structured` (bodies lie in one another or apart, and no node of
a body leads to one of its entries) and `CompletedMeansAll` about those whose
bodies nest (`BodiesNest`). All workflows of the instance except `Early` are structured.

### The slot queue

Whatever the limit does, a wrapper holds exactly when it is in the running set and
waits exactly when its resolver is stored, and the queue names waiting wrappers, none
twice (`Accounted`). That they are all in the queue, and that no more hold than there
are slots, needs a hypothesis: `LimitNeverShrinks`, an action property. When the limit
shrinks below the number that run, `release` shifts keys off the queue without waking
them (a hazard listed at that line), so the theorem would be false without it; the
class has no operation that puts them back. With it every step maps to one of
`SlotPool`: acquire, wait, hand-over or release, or nothing. That nobody waits beside a
free slot (`NoIdleSlot`, state formula `Full`) needs a limit that does not grow either,
`LimitStays`: `resize` wakes nobody.

### The worker and its process

Three layers, each resting on the one before. *Processes* (`ProcessInv`): the process
of the entry was started, those after it were not, every earlier one is dead or
killed. *The entry* (`EntryInv`): there is one cleanup timer, set after the exit; an
entry is gone only after it; an entry that is active with an end time has lost its
process. Without these a cleanup timer of an earlier process could remove the entry of
its successor. *The agent* (`AgentInv`): who is not stopped has neither a barrier nor
an exit reason, and `Watched`, which strengthens `ActiveIsWatched` for the moments after
a spawn has resolved. `CompletedStays` needs to know that the barrier of a completed
agent is a process that was started, that no later call is waiting or rejected for it,
and that the start message, if it is still unread, is ahead of the completion in the
tier both share (`TiersSorted`, `StartAhead`).

`QueuedCompletionWins` has one hypothesis: a drain takes two messages of every process
that had the name (`2 * MaxProcs <= BatchSize`). The code's `IPCDrainQueue` takes 50, which
the runner does not change. With too small a batch, a start that is consumed without the
completion behind it could let a call fail between the two. Nothing is assumed of what
runs inside a spawn: messages of the earlier process may be queued and consumed while
`respawnAgent` awaits, so that the property names its report (`LeftoverReport`) as an
exception. The invariant says further that a process says its start and its end once
(`OneStart`, `OneEnd`), so that the urgent tier never holds more than two messages of
each process, and is taken whole by a drain (`FirstTierIsShort`, `UrgentFirst`).

### Permission requests

Assumptions: `DeskAssumption`, `GateAssumption` (the Leader is no worker; no gate is no
request) and `ExchangeAssumption`. The invariant `ExchangeInv` has, besides the four
properties,

- `DeskInOrder`: the requests at the gate and in the queue have different ids and none
  queues behind a shut gate, else `openNextPermissionGate` would drop one; a request that
  stands under the Leader's own name is of an id in its conversation, and no worker waits
  for that id, else the answer would go to nobody;
- `RequestsApart`: a request on its way is there once, and the Leader has not read its
  id. This is what keeps the Leader from asking in its own name with the id of a
  request that is still to come;
- `AnswersTrue`: every yes in an inbox, on a channel or held by the bridge is to an
  approved request. `GrantsAreApproved` follows because the call compares ids;
- `LayerChosen`: "yolo" in the session's layer implies `consent`. Every operator of the
  desk sets the mode through `SetMode`, and those that run without the user never with
  "yolo" (`UnattendedStep`).

Each operator of `PermissionDesk` has a lemma that says what it does to what stands
there. `replayPendingOnEternalEnable` is a loop, written as a recursive function; since
no induction theorem can be instantiated, `LoopRuns` builds the runs of a loop and
`LeastOf` finds the first bad turn, both from the well-foundedness of the numbers.

### The sort and the cycle test

For any number of nodes, any edges and any dangling ids (`SortAssumption`). The
invariant `SortInv` of Kahn's loop: a degree is the number of nodes of the graph that
are waited for and not taken yet, and the queue holds exactly the nodes that are not
taken and whose degree is zero; nothing is listed twice. A set of nodes that wait for
each other is never touched, as the first of them to be taken would wait for one taken
before it. When the queue is empty, what is left over is such a set. `InOrderLists` says
that `InOrder` lists a set: counting the smaller nodes numbers them without gaps.

`wouldCreateCycle` is a recursion over the set of nodes on the current path. `Leads`
says what it computes: there is a path without repetition that avoids this set. It
satisfies the recursion (`LeadsUnfolds`, `VisitExists`), and whatever does so agrees with
it, as a first wrong answer, with the least room for more, would come from another
(`VisitLeads`). A path that leads back and the new edge are a cycle; conversely, what is
stuck in the new graph and does not lead back was stuck in the old one
(`AddedEdgesCycle`).

### Only model-checked

Liveness (`RunsEnd`, `EveryWaiterServed`, `SortEnds`, `RunSettles`, `ServedAgain`,
`QueueIsServed`, `ExecutionEnds`) is out of the prover's reach. Every other property of
a run that passes is stated by a theorem, some under the hypotheses given above.
`StaleCompletionNeverLands`, `LeaderGivesUp` and `MutualExclusion` are false of the code
(section 5), and of the lock file nothing is proved.

## 5. Divergences between the code and what it says

Shown by runs:

1. `stale_completion`: the completion of a superseded worker ends the current run
   of its task; the bound generation is not compared when the row is written.
2. `hung_provider`: a Leader whose provider hangs asks for ever. Time-outs are left
   to the breaker (`LeaderThinkingLoop.ts:945`), and the guard that an open breaker
   refuses resets it (`LlmGuard.ts:385`).
3. `lock_file`: two processes hold the lock at once when two cleaners and a new
   holder meet at a stale lock: a live lock is renamed away before it is judged
   (`FileLock.ts:176`). With three processes mutual exclusion holds, but a lock
   moved back after its release stays behind as that of a live process.

Met while modelling, each readable in the code (those marked with a star were also
seen with TLC):

*Tasks and pool*

- * `update_task` may close a dependency cycle that `create_task` refuses
  (`TaskBoard.ts:433`, `:292`); the tasks on it are never ready.
- * A task that is put back after its worker crashed keeps its slot in
  `UnifiedScheduler` (`UnifiedScheduler.ts:247`, against the comments there at 237 and
  in `AgentPoolRuntime.ts:1879`), so it cannot be dispatched until some terminal event.
- * A successful respawn clears the record that counts attempts
  (`AgentPoolRuntime.ts:1098`, against `FaultRecovery.ts:25`): a worker that crashes
  after every start is always on attempt 1.
- * Raising `agents.max_concurrent` wakes no waiting wrapper (`SlotScheduler.ts:141`),
  and lowering it may forget some (`:126`).
- * An agent that is stopped by `stopAll` (`AgentPoolRuntime.ts:1788`) or `completeAgent`
  (`:1649`), or whose automatic retry fails after the crash that announced it
  (`FaultRecovery.ts:354`), emits none of the events that its wrapper waits for
  (`SlotScheduler.ts:326`): the slot is not released, and wrappers may wait for ever,
  until a later agent of the same name emits one.
- * A task that is reopened, assigned, put back or blocked after it was read keeps the
  `exit_reason` of its last run in its row: the methods clear `exitReason` only
  (`TaskBoard.ts:529`, `:547`, `:568`, `:619`), and a write falls back to the other
  spelling (`Database.ts:1223`, `:1260`). Readers of rows see a task that is open or
  running with an old exit (`TeamTaskBoard.ts:108`).

*Worker processes*

- The kill timer looks the name up again: it escalates to the next process of the
  name (`WorkerProcessRunner.ts`, `killWorker`).
- A late completion of the previous process completes the new run while that is
  still being prepared; an exit event of it in the same time ends the new run.
- After a watchdog's time-out `endTime` is set, so the escalation to SIGKILL does not
  come, and `awaitWorkerExit` returns while the process lives. A time-out of the
  start is reported twice.
- An error of the channel leaves an entry that is failed and watched by nobody until
  its process exits (`ChannelLost` in the properties).
- `stopAgent` of an agent that is starting does not kill its process; a stop is undone
  by a later time-out (`WorkerEventHandlerBinder.ts:596`, against
  `AgentPoolRuntime.ts:1789`, `:1804`). `StopSilencesWorker` exempts both.
- Messages that a process left in the queue when its successor was started are taken for
  the successor's, as the handlers know the name only (`LeftoverReport`).

*Requests to a language model*

- `LlmGuard.ts:565-605`: the last resort asks neither whether the history was discarded
  before nor how often; an error that cannot be helped is repeated for ever (against
  `:551`).
- A guard with the default scope counts a failure twice (against
  `provider_runtime.ts:214`) and is refused by its own probe.
- * An aborted probe keeps its slot (`LlmGuard.ts:403`), until a guard that is refused
  resets all breakers. This happens in the shared scope too: guards made without a scope
  (`LlmRoundExecutor.ts:451`) stream with the signal of their caller (`:244-258`;
  `LeaderAgent.ts:2150`, `:2203`), and callers without a guard are refused meanwhile. An open breaker refuses one request and is then reset (against
  `:436-446`). Late failures free the slot of a probe (against `CircuitBreaker.ts:7`).
- `_resetAllCircuitBreakers`, "for tests only" (`CircuitBreaker.ts:194`), is called by
  `LeaderAgent.ts:2108` and resets the breakers of all sessions.

*Permissions*

- A typed `/approve` or `/deny` while the Leader waits for its user, which opening a gate
  causes, is read as conversation and leaves the gate open (`LeaderAgent.ts:2917`,
  against the prompt in `LeaderPermissionManager.ts:392`).
- A response that the waiting call did not take makes the next request denied,
  although the user approves it (`BaseAgentRuntime.ts:571`).
- The replay of the eternal mode stops at a "yolo" request at the head, against
  `LeaderPermissionManager.ts:502`; `permissionTimeoutCount` is never reset, against
  `BaseAgentRuntime.ts:420`.
- `request_permission_update` with the id of a resolved request opens its gate again.
- A session without a stored mode is in "yolo" unless `security.permission_mode` names
  another one (`PermissionSystem.ts:81`). A worker reads a stored session layer alone: if
  it has no mode (only hosts or rules were approved), the worker takes "yolo", whatever
  the files below say (`BaseAgentRuntime.ts:528`, `PermissionSystem.ts:104`).
  An update of a permission file that has no mode writes "yolo" into it (`PermissionStore.ts:277`).
- The Leader's `sendWithAck` to a process worker always times out: the child's bus makes
  an id of its own and acknowledges there (`MessageBus.ts:738`).
- Messages of priority 0 and 1 are "never dropped" (`MessageBus.ts:256`, `:994`) but go
  with a dead inbox (`:939`).

*Workflows*

- * `resume` runs completed nodes again, and as nodes with a state are not skipped, both
  branches of a condition may run (against `WorkflowEngine.ts:1238`, `:1255`).
- * A join behind the branches of a parallel node, inside its body, never runs and
  counts as completed; so does a join behind a condition inside a body.
- * A resume before the running node has ended makes two runs of one execution: nodes
  run twice, even after it was reported completed. The history variable `mixed` marks
  such executions; the properties that do not hold of them say so.
- * Bodies that are nested in another body run once more as nodes of the outer one
  (`WorkflowEngine.ts:760`, `ParallelNodeExecutor.ts:71`).
- The end of one execution removes the cached workflow of another, which can then not
  be resumed and keeps its row (error `lost` in the model; against `:410`).
- * The entries of a body begin at once, although another node of the body leads to them
  (`ParallelNodeExecutor.ts:33`, `WorkflowEngine.ts:737`).
- * If a body leaves the body around it, a node of it that failed may stay failed while
  the retry of the outer node succeeds, and the execution counts as completed.
- A join more than one node behind a condition is skipped while the active branch is
  under way. Of two conditions, one may keep a node for the sake of a target that the
  other has skipped. Targets of a condition's data edges are skipped, and nodes that only
  read data may run before their source.
- A retry of a parallel node runs beside what is left of the attempt before. A pause
  inside a "while" loop uses up its iterations. The timer is not armed again by
  `resume`. The error of a cancelled execution may be overwritten by a late node.

## 6. Limits of the models

- `RunsEnd` holds in the instance given. It does not hold with `stop_commands`
  (a command on one task may stop an agent that works on another by then), nor
  with `respawn_throttle` (the retry is refused after the task was assigned), nor
  when as many workers as there are attempts in the budget overlap on one task:
  the record that says "exhausted" is then dropped as a stale block. Attempts add
  up only while no worker of the task starts (a start clears the record), so with
  the code's budget of 3 this takes three workers on one task; the run has two.
- A run may get two verdicts, of two workers that started after their task was
  put back and are bound to the same generation: the owner fence of the Leader
  passes everybody while the task has no owner. One verdict per worker and run
  is what the code guarantees (`OneVerdictPerWorker`), and that the judged run is
  over (`VerdictSettlesRun`).
- The set of processed receipts is a window of 10,000 in the code; the model
  keeps all of them.
- `slots` lets the limit grow, not shrink. A wrapper that was left behind may stay so
  (`Abandon`); which agent of the same name releases it later is not modelled, only that
  one may.
- The edges of a workflow are a set: two equal edges into one entry of a branch, which
  the engine would run twice, cannot be expressed.
- The graph of tasks is checked without `status_tool`; `faults` includes it. With two
  queued requests at most, `permissions` does not test their order much.
- The mode of permissions is that of the Leader's process, with the session as the
  destination of every update.
- One worker name, one provider, one workflow at a time. What a worker does between
  its messages, and what an answer of the provider says, is nobody's concern here.
- An evaluator created while its subject is being cancelled depends on a
  cancelled task and is in nobody's back links; it waits for ever.
- After an eviction, `rebuildBlocks` recomputes back links from a partial cache.
- `UnifiedScheduler.stats.currentRunning` is taken to be the size of the bucket.
- Between the actions, awaits on the database, on prompts and on worktrees are
  taken to be instantaneous.
- Not modelled, with the reason: see "components" in `PROJECT.json`.

## 7. Plan

Done: `DagScheduler`, `TaskBoard`, `TaskLedger`, `TaskLifecycle`, `SlotPool`,
`SlotScheduler`, `TopologicalSort`; `IpcQueue` and `WorkerReporting`; `CircuitBreaker`
and `LlmGuard`; `FileLock`; `PermissionDesk` and `PermissionExchange`; `WorkflowGraph`
and `WorkflowEngine`; the proofs of all that the passing runs check but liveness.

Next theorems: what holds of mixed executions, where two runs share the nodes; mutual
exclusion of the lock file among three processes, which TLC has checked for a few files.

Candidates for models: the retention of inboxes in `MessageBus` (P0 budget, dead
inboxes), requests of teams with deadlines, execution leases, the turns of the Leader.

Not modelled: remote and external agents (their own protocols, the same reports);
execution leases, blackboard, team mailbox, checkpoints (small stores beside the
task life cycle); scheduled tasks and eternal loop (timers that start turns); rules
of permissions, tools, memory and prompts (data and I/O); the web server, the
command line and the facade (presentation). `PROJECT.json` gives the reason for each.
