# RivetOS in TLA+

Specifications of the concurrent core of RivetOS: the durable task engine
(`packages/core/src/domain/task`), those who wait for its rows, the turns of a chat
session (`packages/core/src/domain/queue.ts`, `packages/core/src/runtime`), the runs of
a workflow (`packages/workflows`), the sessions of external harnesses
(`services/den-server/src/harness`) and the roster of the mesh
(`packages/core/src/domain/mesh.ts`). All paths below are relative to the repository.

## 1. Inventory

RivetOS is an agent runtime in TypeScript. A node runs channels, agents, tools
and a task runner; nodes of a mesh share a Postgres database.

| Component | State | Operations | Hard behaviour | What makes it correct |
|---|---|---|---|---|
| Task store, `task/store.ts` | rows of `ros_tasks`, graphile-worker jobs keyed `task:<id>` | create, claim, finish, send, park, kill, sweep, reenqueue, heartbeat, eval stamps | claims race; rows outlive processes; a job is handed out once | one claimer; rows that wait have a job; a terminal row stays |
| Task runner, `task/runner.ts` | worker slots, the local variables of `runClaimedTask`, the heartbeat timer | start (sweep), take a job, claim, run turns, budget, park or finish, stop | reads used after awaits; crashes between statements; overlapping processes; retries | a row is driven by one worker; retries and attempts are bounded and survive crashes |
| Evaluation coordinator, `task/evaluation-coordinator.ts` | `eval`, `eval_attempt` of the parent, a child row | evaluate, escalate, run the verifier child inline or wait for it | failing writes; the inline run races the queued job | judged before completed; escalated only when retries are spent |
| Task API and subagents, `task/task-api.ts`, `task/subagent-task-manager.ts` | none of their own | create (with wait), steer, kill; spawn, send, kill | check and send are two statements | a message that was accepted is run or visibly replaced |
| Waiter and heartbeat task, `task/completion-waiter.ts`, `task/heartbeat-task.ts` | waiters, a LISTEN connection | wait to a deadline, kill at the deadline | deadline against a late outcome; overlapping ticks | an answer stands, no row left running, no verifier left in the queue, waits end |
| Message queue, turn handler, commands, `domain/queue.ts`, `runtime/turn-handler.ts`, `runtime/commands.ts` | one queue per session; maps of abort controllers and active loops | enqueue, begin and end a turn, drain; /stop, /interrupt, /steer, /new, /clear | re-entrant drains; maps keyed by the session, not the turn | one turn at a time, in order, nothing lost or stranded |
| Agent loop, `domain/loop.ts` | message list, steer queue | run, steer, prepareStep, tools | turn timeout, abort | ends; steers are seen |
| Workflow engine, `packages/workflows` | case file, append-only journal, kill flags, run locks | start, resume, continue, kill, steps, gates, child runs | replay after a crash; time limits that leave scripts running; check then create | a step's result is recorded once, a gate answered once, nothing skipped; a kill stops; calls return |
| Harness registry, `services/den-server/src/harness` | alias chains, retired ids, live tails, rooms | subscribe, announce, rotate, re-key, restore | drivers and sinks that call back into the handler that calls them; late hooks; restarts | no cycle; a tail is where its session is; a rotation is handed once, in order |
| Mesh registry, `domain/mesh.ts` | a roster file all nodes rewrite, temporary files | register, heartbeat, prune, sync from a seed, join, forget | read, change and rename without a lock; one temporary path per process; unreadable counts as empty | nobody reads half a roster; a running node comes back, a dead one goes offline, infrastructure stays |
| Mesh delegation, `domain/mesh-delegation.ts` | none of its own | create a task on a node, wait, kill | deadline against a late outcome | no row left running |
| Den protocol, gateway client | a fold over events, a socket | reduce, reconnect | duplicated or missed events | the fold is the state |
| Memory, embedding, compaction | Postgres tables, jobs | store, search, embed, summarise | re-run jobs | idempotence |
| Providers, channels, tools, MCP, boot, CLI, apps, integrations, infra | | | input/output | not modelled |

How they interact: channels call the inbound callback of the runtime, which runs
commands at once and puts messages in the session's queue; the queue calls the
turn handler, which runs an agent loop. Tools, the API, the heartbeat schedule
and subagents create task rows; a row and its job commit together; runners on
any node take jobs and claim rows; executors run the agent loop or a harness.
The coordinator creates verifier rows in the same store; agent steps of workflows,
heartbeats, mesh delegations and `?wait` requests create rows and wait for them at one
waiter per node. All that the parts of
the engine share is the row, the job and what a worker remembers between two
statements.

The hazards, with the line at which each bites and the properties that cover it,
are in `PROJECT.json` under `hazards`.

## 2. Modules

| Module | What it is |
|---|---|
| `TaskLifecycle` | abstract specification of a row: a lease that one worker at a time holds |
| `TaskStore` | the rows, the jobs and the operations of `PgTaskStore` on them |
| `TaskEngine` | runners, workers, clients, faults and time over `TaskStore`; refines `TaskLifecycle` |
| `TaskWaits` | verifier children, callers with deadlines, the waiter and shutdown over `TaskStore` |
| `SessionTurns` | queue, turns and commands of one session |
| `WorkflowRun` | one run of a workflow: calls, script, journal, case file |
| `HarnessRegistry` | aliases, rotations and live tails of one harness |
| `MeshRegistry` | the shared roster file and the registry calls of the nodes on it |
| `MCTaskEngine`, `MCTaskWaits`, `MCWorkflowRun`, `MCHarnessRegistry`, `MCMeshRegistry` | the values of their constants for TLC |
| `TaskLifecycleProofs`, `TaskEngineProofs`, `TaskWaitsProofs`, `SessionTurnsProofs`, `WorkflowRunProofs`, `HarnessRegistryProofs`, `MeshRegistryProofs` | theorems about them |
| `TaskPromisesProofs` | theorems about `TaskEngine` that rest on those of `TaskEngineProofs`: budgets, jobs, messages, and that it implements `TaskLifecycle` |

`TaskEngine` and `TaskWaits` compose with the same `TaskStore`: the first has the whole
life of a row with crashes, retries and messages, and of a verifier only its verdict; the
second has the verifier as a row of its own, and the calls that wait. In each module
a definition headed "Mistake" is a plausible slip in the code beside it; no action uses it,
and `PROJECT.json` (`mutants`) names the property that fails when one does.

### The task engine

A **row** keeps `status`, `attempt`, `evalAttempt`, `pending` (the one pending
message), `claimedBy`, `eval` and `stale`. `stale` is the only trace of time: the
row's heartbeat is older than the limit the sweep applies to its status (90 s
when running, the TTL when parked). A **job** is the unlocked job of a row's key;
`add_job` replaces it. A job a worker has locked is the worker's `pc`; every job has
`max_attempts` 1 and is spent when its handler returns, throws or dies. An
operator of `TaskStore` is one SQL statement or one transaction; `XAllowed` is the
`WHERE` clause of `X`.

A **worker**'s `pc` is the next `await` of `createTaskHandler` or
`runClaimedTask`, so that an action is one statement with the code up to the next one:

| `pc` | code | actions |
|---|---|---|
| claim, recheck, reenqueue, add job | `createTaskHandler` 245-265, `reenqueue` | `Claim`, `ClaimRefused`, `Recheck`, `Reenqueue`, `ReenqueueJob`, `ClaimFails` |
| unserved, take, start | 294-365 | `NoExecutor`, `TakeResume`, `Start` |
| turn, overrun, reread, discard | 367-412 | `TurnEnd`, `Overrun`, `Reread`, `Discard` |
| park, reclaim, park again | 414-429 | `ParkRow`, `ParkRefused`, `Reclaim` |
| evaluate, escalate, stash, finish | 431-473 | `Evaluate`, `Escalate`, `Stash`, `Finish` |
| fail | the catch, 271-289 | `HandlerThrows`, `FailRow` |

Clients create rows, check and send as two statements (`SteerCheck`,
`SteerSend`), and kill. Processes start (the sweep is the first thing they do),
stop and crash. `HeartbeatLapse` lets a row nobody executes grow stale; with
`HeartbeatStalls` a row that is executed, too.

Faults: a statement fails without effect, or, with `LostReplies`, commits and
its reply is lost. Failing executors are among the faults (`HandlerThrows`).
A claim that failed to be sent is retried by `pg-transient.ts`, which changes
nothing; one that may have been sent is not retried (`ClaimFails`).

Abstractions: an executor is the verdict of its run, and a run with several turns
is one; the verifier child is its verdict; contents of messages, results, usage and
the reasons of failures are left out; `shouldEvaluate` and `spec.interactive` are
the sets `Evaluable` and `Interactive`, of which the code makes disjoint ones. A message
is sent once. A subagent's send, which admits fewer rows than the steer handler, is
covered by it.

The variables `goalRuns`, `heard`, `overwritten` and `judged` are history: no action reads them.

### The turns of a session

JavaScript runs one callback at a time: an action is the code between two awaits.
A turn's `stage` names what it waits for (`Working` in the module); `mq` is the
queue with the turns started so far; `abortOf` and `loopOf` are the session's
entries in the maps of the runtime. `HandlerReturns` is the handler's `finally`,
`Release` that of `process()`: each declares the queue idle and drains it, as
`queue.ts` does. A turn of a session whose object is cached passes "opening" without
waiting; the model lets it wait. `Skip` ends the turn twice, as the code does. `Fail` keeps
the map entries, as the catch does.

### Waiting for rows

`TaskWaits` is one node. A **slot** runs the handler of a job (`hand[<<s, "job">>]`) and,
inside it, the verifier child of that job's row (`hand[<<s, "inline">>]`), as
`runVerifierChild` does: create the child row with its job, run it in the same slot, look at
the row, wait, kill at the deadline, record the verdict. Each of its statements may fail: the catch of
`evaluate` then writes a refutation by error (`PassThrows`, and `Record` at "rewrite"), and if that
fails too the row is finished without it (`RewriteFails`); a failing kill of the child is swallowed (`KillChildFails`).
The **calls** (`client`) are those of
`HeartbeatTask.fire`, `POST ?wait`, `delegateRemoteViaTasks` and the agent executor of the
workflows, which create a row, wait, and kill it if `wait()` returned nothing (`Owner`), and
`GET :id/wait`, which only waits. `Rereads` are the owners that read the row again after the
kill, `Tick` those of one cron schedule.

`wait`, `wakeups` and `listen` are `completion-waiter.ts`. `read`, `decide` and `asleep` are the
awaits of its loop; the row can end between the read and the sleep, since a call is in its set
only while it sleeps. `wakeups[t]` names the set the map has for `t`: the `finally` of one call
deletes the entry though another call's set may be there (`End`). `Deliver` is the
notification of the trigger `trg_task_done`, `LoseListener` its loss. `phase` is the order of
`runtime.stop()`: schedule, waiter, runner.

Abstractions: a deadline is a choice at a read (`GiveUp`); the end of a turn and the re-read of
the row are one step, and so are a caller's insert and the start of its wait; the handler has no
crashes, messages or retries (they are in `TaskEngine`); there is one verifier pass for a row; of the callers' statements the reads of `wait()` and the kill
may fail (`StoreFails`), the insert and `POST ?wait`'s read after the kill do not; a
read after the database pool is closed still succeeds. `dropped` and `unwritten` are history.

### A run of a workflow

`startRun`, `resumeRun` and `continueRun` are **executions**. What runs concurrently is a **thread**
`<<e, r>>`: the engine's call, its script, each branch of a `step.parallel`; and `killRun`. `pc[t]`
is the await a thread is suspended at. On disk are `case`, `journal` and the file `KILLED`
(`killFile`); in the process the flag, the chain of calls waiting for the run lock, and
each execution's `liveJournal` and script position.

| Code | Actions |
|---|---|
| `engine.ts`: the three calls, the lock, the answer to a gate | `StartRun`, `RunStarted`, `ResumeRun`, `ContinueRun`, `Locked`, `CheckGate`, `ResolveGate`, `FlipStatus` |
| `execute` and its time limit | `Execute`, `Settled`, `TimeLimit`, `RunFinished` |
| `killRun` | `KillRun`, `KillFile`, `KillFinished` |
| `case.ts`, `updateCase`: read, then write what was read, patched | `ReadCase`, `WriteCase` |
| `step.ts` | `BeginStep`, `StepStarted`, `CallExecutor`, `ExecutorReturns`, `ExecutorThrows`, `FinishStep`, `FailStep`, `OpenGate`, `Fork`, `Join` |
| the process dies | `Crash` |

The script is a fixed sequence of steps, each with its own label, as the rule of determinism asks of
`run.ts`; the steps it catches are `Caught`. A paid step costs one token. A `step.run` and a
`step.call` are alike: both call something that returns or throws. Outputs, contracts and the text of
prompts are left out, but `step.done` may find its output incomplete. A journal line is
written or not. Torn lines are not modelled: a crash in the middle of an append leaves one,
`readJournal` throws on it (`JSON.parse`, `journal.ts:65`), and `resumeRun` and `continueRun` reject from then on.

### Sessions of a harness

A harness such as Claude Code changes its session id (`Switch`), which the den hears of late or
out of order (`posted`, `Announced`). The adopting driver tells its own sinks and the
registry, in an order that drivers differ in (`Orders`); the registry records
the alias, moves every live tail to the end of the chain and reports the old id ended.

A handler runs to completion, but it calls out: a sink may unsubscribe inside a delivery
(`MayLeave`), and a driver may throw (`MayRefuse`) or emit its next rotation (`MayReenter`)
from inside `subscribe`. The handlers under way are therefore frames of a **stack**, and an action
is what the innermost does up to its next call out: `Tell`, `Dropped` or `Recorded`, `Move`,
`Attached`, `Retire`, `Return`. `subscribeSession` calls out as well: between `Subscribe`, which
calls the driver, and `Subscribed`, which adds the tail to `sessionSubs` when the driver has returned, the tail is "opening" and its sink
known to the driver, but `rekey` does not find it. `next` is the alias store, `tails` and `sinks` the two ends of each
subscription. `Restart` loses all of it but the harness and the breadcrumbs in the memory
database, which `ReadCrumbs` and `ApplyCrumb` bring back.

`Heads` is a recursive function, so that proofs may use the module. There is one harness
with one driver; a nested emission, whether the `subscribe` opens a tail or moves one, is of the next rotation
of the session being subscribed to, with a new id (`MayEmit`); `missed` is history, the id a tail
was added on if that was superseded while the tail was opening; the order "silent" (the driver has no sinks of its own) is
allowed by the module and left out of the run, where "after" covers it.

### The roster of the mesh

`file` is `mesh.json` and `tmp` the temporary files: valid JSON with a roster, `Torn` (truncated, or
two texts mixed) or missing. A registry call in flight is a **slot**; its `pc` is the next
await of `load()` and `save()`: "load", "open" (which truncates the temporary file), "write",
"rename", and "fetch" for the answer of a seed. `fd` is where the descriptor of a writing call leads: a
rename under it turns it into one of `mesh.json` itself (`Moved`). `Load` is the statement after the read
with what the call makes of the roster (`LoadRegister`, `LoadHeartbeat`, `LoadPrune`, `LoadSync`); `Rename`
and `Return` go on to the next call of the same promise chain (`AfterCall`: a heartbeat is
followed by a prune, `start()` by the sync). `Tick` is the interval timer, which does not wait for
the tick before it; `Join` is `POST /api/mesh/join`; `ForgetRead` and `ForgetWrite` are `rivetos mesh forget`,
a process of its own. `Crash` and `Shutdown` end a process at any await; its temporary file stays.

Time is the age of `lastSeen` in ticks of `Clock`, which ages every copy of an entry alike; ages past the
stale threshold are not told apart, so a sync may find either of two such copies the newer one
(`Unclear`). Infrastructure entries are there from the start, past the threshold, and nobody
heartbeats them. All nodes share the file (a seed's answer is then an older copy of it); what an entry says beyond its
status and `lastSeen` is left out, and so are `parseMeshFile`'s hard errors and skipped nodes.
`stop()` and `deregister()` are not in the model since nothing but tests calls them.

## 3. Runs

`tlc -config <cfg> <module>`: `MCTaskEngine` for the engine, `SessionTurns` itself for the
sessions, the `MC` module for the others. States are TLC's count of distinct ones.

| cfg | instance | shows | states |
|---|---|---|---|
| `engine_lease` | a session, 2 overlapping processes and one of a node without an executor, 1 message, 2 attempts, 2 outages, 1 fault | `ImplementsLifecycle`: every step is a step of the lease, or none | 91 695 |
| `engine_verify` | a row with criteria, 2 overlapping processes, 2 retries, 2 outages, a fault, lost replies | one driver, judgement before completion, escalation, retry budget, bound on the runs of the goal | 249 583 |
| `engine_session` | a session pinned to one of 2 nodes, 2 messages, 2 slots there and 1 on the other, late heartbeats (harmless here, as only a starting process sweeps), no outages, fair | no accepted message is lost, waiting rows have a job, pins are kept and misrouted jobs added again, `Settles`, `MessageAnswered` | 83 344 |
| `turns` | 3 messages, all commands, fair | nothing stranded, lost, doubled or out of order; what waits is served | 184 310 |
| `waits` | 2 slots, a row and its verifier, a creator that reads again, a watcher, 2 faults (claims, the verifier pass, both writes of its verdict), kills, shutdown | no slot waits for a queued verifier, answers stand, nothing is left running | 1 312 440 |
| `waits_fair` | 1 slot, a tick and a watcher, a failing read, kill or write, lost notifications, shutdown, fair | calls return, waits for verifiers end, a stop comes to its end | 148 188 |
| `workflow` | a gate and an agent step, 3 calls, 1 crash, fair | a gate is answered once, a result recorded once, one script at a time, an open gate can be answered, calls return | 233 424 |
| `workflow_fork` | a caught agent step, a run, a fork of 2 branches, 2 calls, a budget of 1, a kill | no step skipped, a kill stops each thread, the budget holds | 102 349 |
| `harness` | 3 ids, 1 room, 2 clients, 3 orders, a late hook, leaving, refusing and re-entering (from the subscribe that opens a tail and from the one that moves it), 2 switches, 1 restart | no cycle, tails where their sessions are, rotations handed once and in order, ids ended once | 2 535 874 |
| `mesh_shared` | 1 node, 2 calls at once on one temporary path, a hub, a guest, 1 failing read, 1 outage, 1 forgotten entry | no copy shows the hub offline, torn and wiped files notwithstanding | 1 898 717 |
| `mesh_fair` | 2 nodes with temporary paths of their own, one seeded by the other, a hub, 2 outages, 1 failing call, fair | the file is never torn, the hub stays on it, running nodes come back, dead entries go offline | 273 140 |
| `bad_kill` | | what the code does not keep, below | |

Type invariants are proved (section 4) and checked in `engine_lease` only. `CHECK_DEADLOCK FALSE` everywhere: rows and runs end, bounds on messages, faults and
switches are used up, and the system then rightly stops.

**Bounds.** In the engine `MaxOutages` and `MaxFaults` bound crashes, stops and failing
calls; `Message`, `Task`, `MaxAttempts` and `MaxRetries` bound the rest. Two workers are the
least that race; two messages the least of which one replaces the other; two
attempts the least with a requeue and a failure by the sweep; two retries
the least with a retry that is neither the first nor the last. One row suffices,
since the code never relates two rows but in a sweep, which
treats them one by one. Three messages in a session make two turns run at once
and a third wait. The loss of a session's job with its process and the sweep of a
row under a live worker are left out of `engine_session`, which has no outages: the
code has no answer to the first (see below), and its 90 s window excludes the second.

`TaskWaits`: two slots are the least of which one can take the other's child; a creator and a
watcher of one row are the least two calls that share a set. `MaxFaults` bounds failing
calls; two are the least that lose a verdict, whose write is tried twice, and no property of `waits_fair` needs more than one. `WorkflowRun`: three calls are a running one, one that waits for the
lock and one that comes after a crash; the gate is first so that a resume re-executes a
script with a step behind it. In `workflow_fork` the first step is caught, so that the script goes
on after a failure, and a budget of one can be passed inside the fork. `HarnessRegistry`: three ids make a
chain of two and a rotation back to an earlier session; `MaxDepth` is 4, longer
than any chain of three ids, since what happens at the limit is a matter of its own (`bad_chain`; the
theorem `HandedOnce` holds for every `MaxDepth`); one rotation nested in another is what a driver
that re-emits in `subscribe` makes; one late announcement (`MaxPosted`) rotates the room back, and the next one forth again. `MeshRegistry`: `StaleAge` is 0, so that one tick of
the clock makes an entry stale and the next save may carry a stale one; two calls are the least that lose
an update, and with one temporary path the least that tear a file. `SYMMETRY` exchanges calls, slots, branches, ids and clients,
which no definition distinguishes; runs with a liveness property have none.

**Fairness.** `TaskEngine`: weak fairness of a worker's handler (an awaited
database call or executor run ends: executors have time limits), of a process's
start, of a client that checked and goes on to send, and of time for rows nobody
heartbeats. Clients need not call, processes need not stop, calls need not fail.
`SessionTurns`: weak fairness of the progress of each turn, as hooks, channels
and memory answer or reject and `AgentLoop.run` has a turn timeout; commands are
not fair. `TaskWaits`: weak fairness of each slot, each call and the shutdown; strong
fairness of `GiveUp`, since a deadline that has passed is found passed at each later read, and
reads go on at the poll. Jobs, clients, kills and notifications are not fair: `CallsEnd` needs none of
them. `WorkflowRun`: weak fairness of the engine's own steps, which wait for files and a
timer; nothing is assumed of executors and scripts, which is what the time limit is for.
`MeshRegistry`: weak fairness of each call's next await (file operations and the fetch, which has a
time limit, settle), of each interval timer, and of the clock; processes need not start or stop. Both properties are checked with
one call at a time in a process: calls of one process that overlap for ever can fail each other's renames for
ever. Of `HarnessRegistry` only safety is stated.

**What the code does not keep.** These cfgs state what a comment or an interface
document says, and TLC finds it violated. The first is a run of the project (`findings`
in `PROJECT.json` quotes the lines); the others can be run by hand.

| cfg, module | property | trace in short |
|---|---|---|
| `bad_kill`, `MCTaskEngine` | `KillSticks` | re-read, kill, finish: the kill is overwritten |
| `bad_open`, `MCHarnessRegistry` | `OpenedWhereItRuns` | the driver rotates from inside the subscribe that opens a tail: the old id is retired before the tail is in `sessionSubs` (`registry.ts:752-753`), and the tail stays on it |
| `bad_case`, `MCWorkflowRun` | `TerminalStays` | the call's `updateCase` has read a running case; a step of the script the time limit left behind has, too; the call writes "failed", the step writes the running case back |
| `bad_register`, `MCMeshRegistry` | `RegisteredNodeListed` | a shared-file registry needs "no separate coordination service" (`mesh.ts:6`): two nodes load, change and rename: the second copy lacks the first node until its next heartbeat |
| `bad_leave`, `MCMeshRegistry` | `LeftNodeOffline` | "On shutdown, node marks itself offline" (`mesh.ts:12`): `FileMeshRegistry.stop()` is not called by `runtime.stop()` or any hook, and tasks are routed to the node until another prunes it |
| `bad_resume`, `MCTaskEngine` | `GoalNotReplayedOnResume` | a steer during a turn leaves its job; the turn takes the message itself and parks; the job re-claims the row and runs the goal again |
| `bad_retry`, `MCTaskEngine` | `GoalNotReplayedOnRetry` | stash, crash, claim and take, crash, claim: the goal again |
| `bad_expire`, `MCTaskEngine` | `ResumedRowNotExpired` | message to a parked row, its process restarts: the row times out |
| `bad_sweep`, `MCTaskEngine` | `CrashedRowRecovered` | crash and restart within 90 s: the row stays running |
| `bad_turns`, `SessionTurns` | `OneQueuedTurn` | three messages: the second is started by `endTurn` in the handler's `finally` (`turn-handler.ts:318`), the third by `process()` beside it (`queue.ts:110`), though a message is to wait while a turn is active (`queue.ts:7`) |
| `bad_steer`, `SessionTurns` | `SteerFindsRunningTurn` | /steer after the loop returned: the text is dropped |
| `bad_wait`, `MCTaskWaits` | `NothingLeftOpen` | `wait()` "never rejects" (`completion-waiter.ts:33`), but a failing read rejects it: the creator returns an error and its row runs on |
| `bad_verdict`, `MCTaskWaits` | `SeenEvaluated` | the write of the verdict fails, and so does that of the refutation by error, which is swallowed (`evaluation-coordinator.ts:156`): the row completes without a verdict, though its readers are to "see an already-evaluated task" (`runner.ts:432`) |
| `bad_stop`, `MCTaskWaits` | `StopSparesRows` | the waiter stops, its callers get nothing and kill their rows, which were to survive (`completion-waiter.ts:127`) |
| `bad_tick`, `MCTaskWaits` | `TicksApart` | a tick gives up and kills, which does not abort the run; the next tick's row runs beside it |
| `bad_sleep`, `MCTaskWaits` | `SleepersReachable` | one call ends and deletes the map's entry of a later set: its members are woken by their polls only |
| `bad_answer`, `MCWorkflowRun` | `AnswersItsGate` | an answer submitted twice waits for the lock and answers the next gate, which has the same fields |
| `bad_fields`, `MCWorkflowRun` | `AnswerInCase` | a crash between `gate_resolved` and the fields: the recovered run goes past its gate without them |
| `bad_chain`, `MCHarnessRegistry` | `EveryIdResolves` | `record` refuses a link only if the chain from its near end is too long: one before it makes an older id unresolvable |
| `bad_tail`, `MCHarnessRegistry` | `TailFollowsRoom` | a session that goes back to an earlier id is refused as a cycle: its tails stay on the other |

More observations of the same kind have no property. A process that dies between taking
a job and claiming its row leaves a queued row without a job, which no sweep looks at.
A task that is steered while it is still queued opens with the message and never runs its
goal. /interrupt or /steer before the first message of a session starts a turn without
a queue, beside which that message starts another. `runtime.stop()` waits for the ticks of the
schedule before the waiter's hook could cancel their waits (`runtime.ts`, `agents.ts:196`), so a
stop lasts as long as a heartbeat; and a LISTEN connection in progress while the waiter stops is left
open. A driver that emits an old rotation again inside `subscribe` makes the outer
frame detach a tail that has no other attachment; one that tells the registry first and nests hands a
second tail the later rotation only; near `MaxDepth` a tail can be left on a retired id. After a restart the
den serves subscriptions before the aliases are restored, and restoring moves no tail.
Two saves at once in one process (a join during a tick, or a tick over a slow one), or in hosts whose processes
have one pid, share `mesh.json.tmp-<pid>`: the first opens, the second opens and thereby truncates, the first
writes, the second renames a file the first, or nobody, has finished, and `NeverTorn` fails (with `mesh_shared.cfg`'s
constants). Readers take it for an empty registry, and the next save replaces the roster of the whole mesh, the hub included, by one entry.

## 4. Proofs

`tlapm` on the eight modules that end in `Proofs`. For all values of the constants
that satisfy the assumptions of their modules (types, that null values are not members,
and the distinctness of the kinds of steps, rows and ids):

| Theorem | Says | Argument |
|---|---|---|
| `NoOutcomeUnderLease`, `OutcomesAreFinal` | the abstract lease: an owned row is running or killed, a terminal row nobody owns never changes | inductive with the types; by `Implements` they hold of `TaskEngine` |
| `TypeCorrect` (engine) | `Spec => []TypeOK` | `TypeInv`: with it, a worker that is not idle has a task, without which `row[worker[w].task]` means nothing |
| `OneDriver` | `~ HeartbeatStalls /\ Spec => []SoleRunner` | see below |
| `PinKept` | `Spec => []RunsWherePinned` | a worker executes what it executed before, or claimed now (`NewExecutor`); the claim's guard names the pin |
| `Implements` | `~ HeartbeatStalls /\ ~ LostReplies /\ Spec => ImplementsLifecycle` | `ExecInv` below: one step lemma per action names the step of the lease it is |
| `Judged`, `SpentBeforeEscalated` | `~ HeartbeatStalls /\ Spec =>` `[]JudgedBeforeCompleted`, `[]EscalatedWhenSpent` | `BudgetInv` below |
| `GoalBounded`, `RetriesKept` | `~ HeartbeatStalls /\ Spec =>` `[]GoalRunsWithinAttempts`, `RetryBudgetKept` | `BudgetInv`, which counts claims against runs |
| `NoRowForgotten` | `NoOutages /\ Spec => []WaitingRowAttended` | `AttendInv`: a row that waits has a job, or a handler before its claim, a refused re-claim or a re-enqueue, each of which ends in a claim or a job |
| `NoMessageDropped` | `NoOutages /\ Spec => []MessageAccounted` | `AccountInv`: a message is on the row, with a worker that will run it, or has its mark in the histories; sends and claims move it from one to the next |
| `TurnTypes` | `Spec => []TypeOK` | queue operators map queues to queues; `started` and `arrived` stay sequences of messages |
| `NobodyStranded` | `Spec => []NothingStranded` | every operator that sets `processing` to false leaves nothing waiting; the rest leave a served queue served |
| `BusyQueue` | `Spec => []BusyWithTurn` | see `MessagesConserved`: the queue is busy only by a turn that will return to it |
| `MessagesConserved` | `Spec => []MessageConserved` | the books of the queue: what arrived is what was started, waits or was cleared, and as many |
| `StartedAsArrived` | `Spec => []StartsInOrder` | `Order`: what was started, then what waits, stands in the order of arrival, and a session without a queue has nothing waiting, so a turn beside the queue is the newest; needs the types and the books |
| `TypeCorrect` (waits) | `Spec => []TypeOK` | with the frames of a slot: an inline handler is under a parent at "inline", and has its child |
| `WaitsOnDriven` | `Spec => []WaitsForDriven` | `LeaseInv`: a running row has exactly one driver; `ChildInv`: after the inline run a child is claimed, ended or its claim failed |
| `AnswersStand` | `Spec => []AnswerStands` | what a call read as completed had its verdict (`JudgeInv`: no driver of a row with criteria is at its finish without one, unless the last write of one failed, `unwritten`), and terminal rows change no more, since only drivers of open rows write |
| `NothingLeft` | `Spec => []NothingLeftOpen` if `StoreFails = FALSE` | `WaitInv` and `CallInv`: what a wait read or a kill left is terminal; without the assumption (reads of `wait()` and creators' kills succeed) the property is false (`bad_wait`) |
| `TypeCorrect` (workflow) | `Spec => []TypeOK` | with the position of a thread: a script at a step is within the script |
| `KillStops` | `Spec => []KillStopsSteps` | `LateInv`: once the file `KILLED` is there, a thread that called an executor does not come before a call again, since `BeginStep` is on the way and sees the kill |
| `AnsweredOnce` | `Spec => []GateAnsweredOnce` | the head of the lock's chain is the only call between reading the journal and answering, so the open gate it found is still open |
| `NoStepSkipped` | `Spec => []StartedInOrder` | a script past a step has its result in its live journal, which the journal contains; a journal only grows |
| `OneScript` | `Spec => []SingleScript` | `SoloInv` below |
| `StepsRecordedOnce` | `Spec => []RecordedOnce` | `DoneInv`: the live journal of a script that runs has every result the file has, and what is in a step has no result of that step there |
| `GatesAnswerable` | `~ EagerContinue => (Spec => []OpenGateAnswerable)` | `AnswerInv`: while a gate is open, no branch works, no script but the one that opens it, and no call past its check; the case says paused or ended, or that script has yet to write it |
| `BudgetKept` | `Spec => []WithinBudget` | `OverInv` and `PaidInv` below |
| `TypeCorrect` (harness) | `Spec => []TypeOK` | with the shape of the stack's frames |
| `HandedOnce` | `Spec => []RotationOnce` | `Windows`: what a tail remembers is the end of what it was handed, `MaxDepth` long or all of it |
| `EndedOnce` | `Spec => []RetiredOnce` | `Handlers`: at most one frame inside another, an id is in `ended` only if in `retired`, and frames past the recording have their link |
| `NoCycle` | `Spec => []AliasesAcyclic` | `record`, which restoring goes through as well, links only an id without a successor, to an id whose chain ends elsewhere |
| `TailsAttached` | `Spec => []AttachedWhereItIs` | `Attachments`: for each frame of the stack, which sinks are still where the frame will look for them |
| `TailsMoveOn` | `Spec /\ []EveryIdResolves => []NoTailLeftBehind` | `Trailing`: a tail on a superseded id is on the list of a frame that is moving tails, or the frame inside took it over, or it was superseded while it opened (`missed`), which the property excepts and `bad_open` shows |
| `ShortChains` | `IsFiniteSet(Id) /\ Cardinality(Id) <= MaxDepth => (Spec => []EveryIdResolves)` | an acyclic walk visits no id twice (pigeonhole) |
| `ChainOrderKept` | `Spec /\ []EveryIdResolves => []InChainOrder` | `ChainInv` below |
| `SmallRegistry` | `IsFiniteSet(Id) /\ Cardinality(Id) <= MaxDepth => (Spec => [](NoTailLeftBehind /\ InChainOrder))` | `ShortChains` with the two before it |
| `TypeCorrect` (mesh) | `Spec => []TypeOK` | `CallInv`: with what a call holds at each await, e.g. that only a writing call has a descriptor |
| `HubStaysOnline` | `Spec => []HubNeverOffline` | `HubInv`: the files, the temporary ones, what each call loaded and what each seed answered agree about infrastructure, so that it does not matter which of them is saved over which |
| `FileStaysWhole` | `PrivatePaths => (Spec => []NeverTorn)` | `TearInv`: a call that writes writes to its own truncated file, and what it is about to rename is what it wrote; false without the assumption |
| `HubSurvives` | `NoWipes => (Spec => []HubKept)` | `KeptInv`: every copy on its way to the file has the entry; `NoWipes` is private paths, no failing reads, no `mesh forget` |

`SoleRunner` is not inductive: a second claim is refused because of the row's
status, and the sweep gives that status back. `DrivenIsLeased` adds that a driven
row is running or terminal (so no claim accepts it) and, if running, not stale (so
no sweep requeues it). It speaks of `Drives`, which excludes the handler's catch:
after a lost reply of `markAwaitingInput` the catch of the first worker may
face a row that a second has claimed. The assumption `~ HeartbeatStalls` is the
condition the code's 90 s window rests on; without it the property is false.

`ExecInv` says what the mapping to the lease must know: one worker at most executes a row, its handler's catch included,
and that row is running with a fresh heartbeat, or was killed. A lost reply breaks it (the catch faces a row whose
park had committed), and so do stalls.
`BudgetInv` relates what the row says (`attempt`, `evalAttempt`, `eval`) to what the worker that drives it has in
its variables at each `pc`, lost replies included: the goal ran at most `attempt` times, less often when a
worker is about to run it again, and `attempt` is below its bound while the row is queued. `NoOutages` is `MaxOutages = 0` and no
failing call (`MaxFaults = 0`): a dying process loses the job it holds, and nothing but a sweep brings one back.

`SoloInv` is about the two doors to a script: the run lock, which `resumeRun` and `continueRun` hold over the check of
whether the run is live, and the flag of a live run. `SingleScript` excludes by its statement (`EagerContinue`)
a `continueRun` of a run that is live in this process, which the code does let in. `DoneInv` needs it, and that what a script
has behind it is in the journal (`OrderInv`).

`BudgetKept` counts. `OverInv` says that one execution at most is at work on steps: a script that is over was the last of
its process and nothing pauses its run, and a branch that still works belongs to a fork that its script is at, fails on or failed on.
So the paid steps in flight (`Flight`) are one step of one script, or branches of one execution, whatever late branches, resumes,
kills and crashes do; and that execution's live journal holds everything paid so far (`SeesPaid`), which the check in
`beginStep` therefore counts. What is paid plus what is in flight then stays within the bound (`PaidBounded`): a step that begins finds
at most the budget paid, and one that is recorded leaves the flight. Both need `SoloInv`, and that the
script catches no failure of a fork (`Caught`): it could go on beside the branches of the failed fork. The number of branches is finite
(`ScriptAssumption`), as the branches of a script are.

The chains of the harness registry are walked by a recursive function (`Heads`). What it returns is never
proved by induction; the proofs use its defining equation and least counterexamples in a well-founded order
(`WFMin` of the library), with the ids below an id as a set (`Below`) for the transitive closure. `TailsMoveOn` assumes what
`bad_chain` refutes for long chains, that every id resolves, and `ShortChains` that it holds
for any number of ids that is at most the cap: together (`SmallRegistry`) they need no assumption on behaviours; but the two properties say nothing of a tail that was superseded
inside the subscribe that opened it, since such a tail is on the retired id until a later rotation moves it (`bad_open`).
`ChainInv` holds from a start until the aliases are restored. Its main part, `Reaching`, says that what a tail was handed lies
behind it on the chain, or is the pair a handler is just moving it along; `Kept`, that a live tail on a superseded id
is in the hands of such a handler; `Announcing`, that a pair told before its alias is recorded is the innermost handler's, which starts
where the tail is; `Outer` and `Ready`, what a handler finds when the one inside it is over. Restoring an alias moves no tail, so a
later rotation above it may hand a tail below it a pair that does not continue the one before: the property claims nothing from then on
(`restore.reading`).

The steps of `MeshRegistry` are classed once by what they change (`StepKinds`: a call begins or ends, a call
has loaded, opens, writes, renames, ...), and each of its four invariants is proved over these kinds.

The theorems about waits are each a part of one inductive invariant, and each needs the
others: that a waited-for child is driven needs that a running row has one driver, which needs the
place of the inline frame; that an answer stands needs the verdict before the finish; that nothing is
left open needs both the wait and the kill.

Model-checked only: liveness (`Settles`, `MessageAnswered`, `WaitingServed`, `CallsReturn`, `CallsEnd`, `RunningNodeListed`,
`DeadEntryLeaves`), which is out of the prover's reach. Every invariant and every action property that a passing run checks is
stated by a theorem, under the condition its row names where it names one; a run remains the evidence that the property can be violated (the mutants) and that the cases occur.

## 5. Not modelled, and what is left

Left out of the modelled components: `recordTerminal` (inserts a finished row),
list and scoreboard reads, `InMemoryTaskStore`; of a session, what turns say, other
commands, streaming; of the workflows, child runs and the cascade of a kill to them, the cap on
concurrent runs (`engine.ts:534`, checked before the run exists), loading and checking of
scripts; of the harness registry, lineage by `supersedes`, capabilities, the probing of bare ids, listing and pinning; of the mesh
registry, seeds with a file of their own, `mesh sync` and enrolment, which replace the file of another host.

An assumption the model makes: no single statement of a handler, and not
`resolveContext`, which runs before the timer is set, takes longer than the sweep
window; `HeartbeatStalls` drops it.

Most of the repository is not modelled, and most of that has nothing a state machine would
say more clearly: user interfaces (`apps`), command line and editor integrations, adapters of providers,
channels and tools, terminals and the text protocols of external programs, SQL search and
its scoring, configuration and deployment. They are listed in `PROJECT.json`. The map covers a small share of
the lines for that reason; it covers most of the files that share state between callbacks, processes or nodes.

What is left, in this order: child runs
and the cap of the workflow engine; the quiet-time heuristics of the turn tracker; the gateway client's reconnection.
