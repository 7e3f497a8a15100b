# A TLA+ verification of Friday's kernel and hub services

Friday is a personal-agent system in two generations. Its live kernel is the
Rust workspace `rust-core` (crates `friday-core`, `friday-storage`,
`friday-hub`): a daemon that keeps all state in one SQLite file and runs
workflows, agent sessions and missions behind an approval gate. The hub in
`src/` is TypeScript: a single-threaded process with its own job scheduler,
workflow engine, satellites, channels, plugins and upgrade services. It is being
retired in favour of the kernel, and some of its services run only behind test
flags (`allowTestOnlyWorkflowRunExecution`,
`allowTestOnlySatelliteRuntimeExecution`,
`allowTestOnlySatellitePairingExecution`); the bridge to the retry engine has no
production constructor. They are modelled as they are written.

The project models the parts where failures and interleavings decide
correctness. Paths of the Rust part are relative to `rust-core/crates/`, paths
of the TypeScript part to `src/`. `PROJECT.json` lists every component with its
status, and the hazards with the line at which each one bites.

## 1. Inventory

### The kernel (Rust)

| Component | State | Operations | What is hard | What makes it correct |
|---|---|---|---|---|
| Scheduler tick (`friday-hub/src/scheduler_tick.rs`, `friday-storage/src/schedule.rs`) | schedule rows with a watermark, one receipt per slot, pause switch, lease | create, enable, delete, pause; one tick per minute decides every due slot | crashes between run, receipt and watermark; a tick that outlasts its lease; stale rows; two caps | a slot is driven at most once, decided once, never lost; the backlog does not fire; no schedule starves |
| Daemon loop and boot (`friday-hub/src/bin/hub_agent_run_server.rs`) | process, lease holder | boot sweep, acquire lease, stale sweep, tick | restart, lease takeover, overlap | the scheduler catches up after a crash |
| Crash recovery (`friday-hub/src/crash_recovery.rs`) | none of its own | fails in-flight `sched:` runs and orphaned work items | races with the driver | an orphan does not block its schedule for ever; a finished run stays finished |
| Workflow engine (`friday-hub/src/workflow_exec.rs`, `friday-storage/src/workflow.rs`) | run state, step rows, effect ledger | run, resume, retry, cancel | check and write without a transaction; crash between effect, ledger and step | steps are a verified prefix; done means complete; a committed effect is not repeated |
| Gate and approvals (`friday-core/src/gate.rs`, `friday-storage/src/authorize.rs`) | spent approvals | evaluate, authorize | double spend under concurrent resumes | one approval, one execution |
| Run control (`friday-hub/src/workflow_run_control.rs`) | none | resume, retry, cancel by run id | racing requests | as for the engine |
| Cron (`friday-hub/src/scheduler.rs`) | none | parse, match, next due | day-of-month/day-of-week rule, leap days | matcher agrees with a reference |
| Missions and work items (`mission_runtime.rs`, `mission.rs`) | work item state, bindings | dispatch, accept, recover | crash recovery, resume of a paused mission | every item ends; no illegal transition |
| Sessions, pending requests, trust grants, process registry, offline queue | rows with deadlines and counters | open, close, reap, decide, expire | a reaper racing a live turn, a decision racing expiry | one decision per request; limits hold |
| Transport, pairing, audit, providers, tools, memory, apps | - | - | cryptography, I/O, text | outside this project |

Components interact through the database only: the tick calls the engine inline
(`run_stored_published_workflow`), the sweep and the run-control calls write the
same `workflow_run` rows, and the gate is called by the engine for each step.

### The hub (TypeScript)

| Component | State | Operations | What is hard | What makes it correct |
|---|---|---|---|---|
| Job scheduler, cron tool, automations (`jobs/scheduler`, `agent/tools/friday-agent-cron-tool.ts`) | job rows, timer, map of definitions | start, stop, seed, run loop, catch-up, add, update, trigger, remove | a wake-up during a pass; rows read before an await; crash while a job runs; one-shot jobs; schedules without a next run | an enabled row has a wake-up ahead; a due job runs; a marker stands for a run; a one-shot ends |
| Workflow graph engine, approvals, sweeps, satellite dispatch (`workflows/services`) | run, attempt and approval rows, loop state in memory | start, batch, pause, resume, cancel, retry, approve, reject, remote report, three sweeps | requests during a batch; four failure policies with retries; satellites that stay silent | one live attempt per node; gates hold; completed means complete; every run ends |
| Satellite outbox, sync, runner (`satellites/services`) | outbox rows, leases, checkpoint, epoch | enqueue, lease, push, acknowledge, requeue, expire, delete | lost requests and answers, crashes between batch and acknowledgement, sequence numbers | no acknowledged message leaves its task waiting; every message ends |
| Satellite pairing and health (`satellites/services`) | satellite row, pairing request, token, capabilities | register, approve, handshake, heartbeat, revoke (with or without its tokens), sweep, retention | revocation against approval, heartbeats that show no token, late reports | ended tokens stay ended; a usable token comes from an approval; capabilities never go back |
| Sub-agent registry (`agent/subagent`) | run records, executions in flight | spawn, spawnDetached, wait, finalize, drain, resume on boot, cleanup | check before await, throws in between, restart | limits hold; the active count is true; outcomes are final; children end |
| Telegram inbox (`channels/telegram`) | inbox rows, cursor, loop or webhook | fetch, commit, deliver, recover, prune, start, stop | crash between commit, handler and mark; lost answers | nothing forgotten, nothing given to the handler again once processed |
| Channel registry (`channels/friday-channel-registry.ts`) | entry, attempts, monitor | register, start, health tick, unregister, stop | attempts in flight across stop and unregister | one restart at a time; connected means usable |
| Retry orchestrator, circuit breaker (`retry/engine`) | contexts, budget, circuit | execute, record, sleep, release; admit, report, elapse | calls that share a key or the budget; late outcomes | permits balance; settled stays; a half-open circuit has a probe |
| Run evidence (`workflows/runtime`) | label and status per run, in memory and in a column | report, persist, degrade, retry, restart | writes that fail and are swallowed, nodes that report after their timeout, restarts | a run is not read as better than it was |
| Task workflows (`task-workflows`) | claims, evidence, lanes, revisions, verdicts | add, verify, block, revise, hand off, close out | verdicts that outlive what they rest on | complete and proof are earned |
| Upgrade lifecycles of adapters, MCP servers, providers, skills, plugins (`autonomy/services`) | row, evidence file, directories | shadow, canary, promote, roll back | two writes per operation; canaries awaited; restarts | promoted means proven; what is in service can be undone |
| Plugin service, loader, health monitor (`plugins/services`) | rows, loaded map, activated modules, failure counts | install, enable, disable, uninstall | a module for each kind, hooks that throw half-way, overlapping requests, dependencies | running means loaded; off means off |
| Dependency resolver (`plugins/services/friday-plugin-dependency-resolver.ts`) | local | expand, Kahn's sort, search for a cycle | missing plugins, unmet ranges, cycles | dependencies first, least plan, the right refusal |
| Agent runtime, API, providers, memory, sessions, UI, security, learning, packaging | - | - | prompts, I/O, text, cryptography | outside this project |

The graph engine hands satellite nodes to the outbox and takes the satellites'
reports; task workflows read the labels and status of run evidence; the plugin
lifecycle calls the plugin service, whose load plan is the resolver's. The other
services share no state.

## 2. Modules

| Module | Content |
|---|---|
| `SchedulerTick` | schedules, receipts, lease, daemons, tick, sweep |
| `FireLedger` | abstract specification of a slot: created once, driven once, decided once, reported fired only if its run exists |
| `WorkflowRun` | one run: engine, run control, sweep, gate, approvals, effect ledger |
| `JobScheduler` | job rows, timer, loop, catch-up, cron tool, automations |
| `GraphRun` | the graph engine with approvals, control requests, reports and sweeps |
| `Outbox` | outbox rows and their two clients, the runner and the command client |
| `SatelliteLifecycle` | one satellite: registration, pairing, heartbeats, capabilities |
| `SubagentRegistry` | spawned children, their records and executions |
| `TelegramInbox` | polling and webhook over the durable inbox |
| `ChannelRegistry` | one channel kind with its start attempts and monitor |
| `RetryLoop` | concurrent calls of the retry orchestrator with contexts and budget |
| `CircuitBreaker` | one target and its concurrent requests |
| `RunEvidence` | evidence status and completion label of runs |
| `TaskWorkflow` | task workflows composed with `RunEvidence` (EXTENDS it) |
| `UpgradeLifecycle` | one row and its evidence file, for adapters, MCP servers and providers (constant `Kind`) |
| `SkillLifecycle` | the skill lifecycle over its directories |
| `PluginRuntime` | plugin service, loader and health monitor |
| `PluginUpgrade` | the plugin lifecycle composed with `PluginRuntime` (EXTENDS it) |
| `LoadPlan` | the dependency resolver, with reference definitions of its answers |
| `SchedulerProofs`, `WorkflowProofs` | proofs about `SchedulerTick` (refinement of `FireLedger` included), `WorkflowRun` |
| `ExtensionProofs` | proofs about `LoadPlan`, `UpgradeLifecycle`, `SkillLifecycle`, `PluginRuntime`, `PluginUpgrade` and the scenarios of `MCExtensions` |
| `HubProofs` | proofs about `SubagentRegistry`, `TelegramInbox`, `ChannelRegistry`, `RetryLoop`, `CircuitBreaker` |
| `EvidenceProofs` | proofs about `RunEvidence` and `TaskWorkflow` |
| `TaskProofs`, `ServiceProofs`, `SatelliteProofs` | proofs about the scenarios of `MCTasks`, `MCServices` and `MCSatellites`; the first two instantiate `EvidenceProofs` and `HubProofs` |
| `MCScheduler`, `MCWorkflow`, `MCJobs`, `MCGraph`, `MCTasks`, `MCSatellites`, `MCServices`, `MCExtensions` | instances for TLC |

### SchedulerTick and the code

Time is counted in minute slots (`MIN_MS`); `clock` is the wall clock. `row` is
`workflow_schedule`, `fire` is `workflow_schedule_fire`, `run` is `workflow_run`
for the ids `sched:<schedule>:<slot>`, `lease` and `paused` are the two
singleton tables. A daemon is a process: a restarted one has a new pid, hence a
new lease holder, and is a new element of `Daemons`. `tick[d]` holds its program
counter and the locals of `run_one_tick` and `tick_one_schedule`. Each statement
(or immediate transaction) another process can observe is an action, and a daemon
may crash between any two; a read is merged with the write that follows it when
no other writer can tell the difference (`record_fire`, `set_last_slot` and
`acquire_lease` are transactions in the code).

- `Boot`, `AcquireLease`, `ScanStale`, `ReconcileRun`, `ReconcileDone`,
  `SweepError`: the daemon loop and the sweep.
- `StartTick`, `EndTick`, `InvalidSchedule`, `TakeSchedule`: the loop over the
  enabled rows, stalest watermark first, from the copy read at the start.
- `ConsiderMissed`, `AlreadyConsidered`, `SkipPreviousAwaiting`, `DeferSlot`,
  `HealOrphan`, `ChooseDispatch`: the decision about a slot, in the code's order.
- `NoPublishedVersion`, `CreateRun`, `DuplicateRun`, `StartRun`, `FinishRun`,
  `DispatchError`, `RecordOutcome`, `AdvanceWatermark`, `ScheduleGone`: dispatch,
  receipt, watermark.
- `TickError`, `Crash`, `SetClockBack`: faults, at most `MaxFaults` of them.
- `CreateSchedule`, `SetEnabled`, `DeleteSchedule`, `SetPaused`, `CancelRun`:
  requests of the operator and the run-control plane, at any time, at most
  `MaxOps`.

Abstractions: the cron text is the constant `Due` (and `Parses`); the scan limit
of eight years of slots is not reached; the engine inside the tick is start and
end only (`WorkflowRun` has the rest); `set_run_state` is one step here (its
read/write race is in `WorkflowRun`). A row whose cron does not parse exists
from the start, because `create_schedule` refuses it and only storage's
`insert_schedule` stores it. `drives`, `base`, `passed` and `setback` are history
variables: how often the engine began to drive a run, where the window of the
tick that first set the watermark began, how many ticks in a row left a schedule
aside, and whether the clock was ever set back.

### WorkflowRun and the code

`run` is `workflow_run.state`, `step` the `workflow_step` rows, `ledger` the
`workflow_step_effect` rows, `spent` the `consumed_approval` rows. `call[c]` is a
synchronous call in progress: `RunWorkflow`, `ResumeWorkflow`, `RetryWorkflow`,
`Cancel`, `Sweep` start one, the remaining actions are its statements, and `Stop`
ends it anywhere (a crash, or a storage error that `?` returns).

- `CheckTransition`, `CheckComplete`, `WriteRunState` are `set_run_state`, whose
  read and write are separate statements; `CheckStep`/`CompleteStep` and
  `CheckReopen`/`ReopenFailedStep` are split the same way.
- `RegisterStep`, `LookUpEffect`, the gate actions, `Execute`, `ExecError`,
  `RecordCommittedEffect`, `CompleteStep` are one turn of `advance_from`.
- A step's kind is what `plan_step` and the gate say of its action: auto-advance
  or checkpoint, evidence required, base decision. `DefinitionsAssumption` is
  what `plan_step` guarantees: an auto step never needs an approval.

Abstractions: one run with one definition; an approval is signed for one step's
action (the digest), and all reasons for refusing one are `RefuseApproval`; the
sweep's age condition is left out, so it may race with any driver; the executor
carries the action out or fails. `execs` and `uses` are history variables.

### The TypeScript modules and the code

The hub is one JavaScript thread. An action is what runs between two `await`s
(or from the entry of a handler to its first one): nothing else observes its
intermediate states, except a crash, and where a crash between two writes of one
handler matters (`UpgradeLifecycle`, `SkillLifecycle`, `PluginUpgrade`) the writes
are steps of their own. What a handler read before an `await` and uses after it
is kept in the record of the call (`calls`, `pc`, `loop`), so it can be stale.
Statements on SQLite are synchronous and single; state in memory is lost by a
crash, rows and files stay.

- `JobScheduler`: `row` is the job table; `timer`, `defs`, the flags and `task`
  (the two asynchronous activities, catch-up and run loop) are the process.
  Requests of the cron tool and of automations come at any time, at most `MaxOps`;
  time is counted in ticks of a period of `Period`.
- `GraphRun`: a graph with edge conditions, one failure policy and a bound on
  attempts. `st` is the status map the loop keeps in memory beside the stored
  attempts `att`; `exec` is the batch in flight. Which satellite is chosen is left
  out; a dispatch succeeds or is blocked.
- `Outbox`: a message is its key; a row has status, lease, sequence number and
  attempts. Lost requests and lost answers are actions of their own.
- `SatelliteLifecycle`: `RevokeSatellite` ends the tokens or keeps them
  (`revokeTokens === false`); a heartbeat and a capability report ask for no token
  and no approval, as in the code. `ended` (history) is the first kind of
  revocation, until the next approval.
- `RunEvidence`: `label` is the map in memory, `column` the row; the write of a
  label may fail and is swallowed. A node that lost against its timeout is not
  stopped and may report after its run (`late`); a failed run may be retried.
- `TelegramInbox`: `acked` is what Telegram has forgotten (external), `row` the
  durable inbox, `work` the handlers at work. `Awaited` says whether the handler
  returns its promise; the hub's does not. `startPolling` does not wait for the loop
  before it, so there may be two.
- `UpgradeLifecycle`: the row and the evidence file of one adapter, server or
  profile; `ran` (history) is what the canaries really gave.
- `PluginRuntime`: `row` (the table), `loaded` (the loader's map), `alive` (for
  each plugin the modules whose `activate` ran, which no code records) and `health`.
  They are separate because the code updates them at different moments. A plugin
  has a module for each of its kinds; they are activated one by one and deactivated
  in reverse, and a throw in the middle leaves the rest as it is. `adrift` (history)
  are the plugins on which an operation failed, or crossed another, with modules
  activated.
- `PluginUpgrade`: its plugin has no dependencies. `mixed` (history) are the
  registrations whose counters took in a canary of another one, or lost one to an
  older row that was written back.
- `LoadPlan`: one action per turn of the resolver's loops. Version ranges are the
  set `unmet` of edges whose range is not met.

Left out in all of them: texts, identifiers, time stamps that no condition
reads, validation of inputs, and storage errors unless the code handles them. The
evidence of a skill is written atomically, and a canary that another service
reports without a ticket of its own is left out.

## 3. Runs

The kernel's runs have a question each. The hub's runs put together scenarios:
a variable fixed by the initial state chooses one instance of a module, with its
constants, and the next-state relation follows that instance alone. Each
behaviour of a run is a behaviour of one instance, and a property is the
conjunction, over the scenarios, of the properties that scenario is there for.
Scenarios differ because properties have conditions: which one is claimed where
is visible in the MC module.

| Run | Question | Bounds |
|---|---|---|
| `scheduler_recovery` | crash, error, clock step and operator requests with one daemon at a time | 1 schedule due every minute, 4 minutes, 2 processes, 1 fault, 3 requests |
| `scheduler_overlap` | two daemons ticking at once; refinement of `FireLedger` | 3 minutes, lease of 1 minute, 1 fault, 2 requests |
| `scheduler_caps` | fire budget 1 shared by 3 schedules, one unparsable | 3 minutes, 4 requests |
| `scheduler_live` | liveness after a crash | due every second minute (so quiet windows occur), 4 minutes, faults until minute 1 |
| `workflow_engine` | 6 calls in a row, all 216 definitions of 3 steps | 2 approvals for each step |
| `workflow_race` | 2 calls at once, 4 calls, definitions of 2 steps with a write | 2 approvals for each step |
| `jobs` | requests, crash recovery, unschedulable jobs, fair scheduling | 2 jobs, 3 or 4 ticks, 1 or 2 crashes, 2 requests |
| `graph` | chain of satellite nodes; policies; control; retries; a gate beside work; a gate in a chain with rejections; a crash with nobody left | graphs of 3 or 4 nodes, 2 to 5 requests, up to 4 failures |
| `tasks` | two claims on a run whose evidence fails; the same through restarts with swallowed labels and late nodes; a high-risk claim with two lanes and a revision; a run alone under every error; runs in one process | 2 claims, 2 runs, 2 lanes, 3 providers, 3 faults, 2 restarts |
| `satellites` | pairing with both kinds of revocation; sweeper; runner with a malformed payload, crashes and lost requests; command client with a crash; a silent satellite | 2 or 3 messages, 2 leases, 2 attempts, 3 token versions |
| `services` | sub-agents (fresh; both modes with throws; both modes, fair), Telegram (polling with awaited handlers; the hub's webhook and polling, not awaited), channels, retries (own and shared keys), breaker | 2 spawns, 2 updates, 2 poll loops, 2 plugins, 3 calls, 3 requests |
| `extensions` | every graph on 4 plugins; every single fault on 3; adapter, provider and server upgrades; skills; plugin runtime (`routes`); plugin lifecycle (`undo`, `gate`, `again`) | 2 or 3 versions, 3 registrations, 6 canaries, 2 crashes; 2 plugins of 2 modules, 2 requests at a time, 1 restart |

The bounds let each hazard happen: a crash in a tick, a restart that crosses a
minute, a backlog slot, a lease that expires during a tick, a failed step
followed by two retries, a resume racing a retry, a wake-up during catch-up, a
cancel during a batch, a late rejection, an answer lost after the work was done,
a canary that ends after the next registration, a module activated while its
plugin is being disabled. The largest runs (`tasks`, `extensions`) have about 10^6
states, and each ends within minutes. The lease of 1 and staleness of
2 slots keep the order of the code's 3 and 5 minutes. Deadlock is not checked
where requests are bounded or a behaviour may simply end (a run is done, a
satellite is gone, a plan is made). Interchangeable process ids, calls and
claims justify the symmetry sets; no run that checks liveness uses one.

Every property has at least one mutant: a change of one mapped definition that a
plausible mistake in that code would make, under which TLC finds the property
violated. A property with parts has mutants for its main parts.

### Conditions of the properties

`NoSlotLost` and `NoPileUp` are stated for one daemon at a time (`MaxUp = 1`), the
supported topology, and for backlogs within `max_considered_per_tick`: the code
drops the older rest of a larger backlog on purpose ("the remainder is dropped"),
so the run keeps the cap above the number of slots. `NoPileUp` names its
exceptions: a run whose dispatch ended in an error receipt is not what the guard
looks at, nor is one before the windows of a schedule that was created again, nor
a live run that is older than the latest fired slot
(`previous_fire_non_terminal`). The last case needs the clock to go back: a slot
fires and its run ends, the clock steps back, the schedule is deleted and created
again, an earlier slot fires, and the guard of the next slot sees the ended run of
the later slot, not the live one. A proof attempt came upon it, TLC confirmed it,
and the property says so by `~setback`. `AtMostOnce`, `DecisionsFinal`,
`FiredReceiptHasRun` and the refinement hold with overlapping daemons.
`VerifiedPrefix`, `DoneIsComplete`, `PausedIsResumable` and
`CommittedNotReExecuted` are stated for one call at a time: nothing in the engine
serialises two calls on one run.

In the hub conditions are exceptions that the properties name:

- `SlotsBounded` is checked for fresh spawns. With forks the limit can be passed,
  and `OverLimitByForks` says that nothing but the return of a fork does so.
- `NeverLost`: the handler was called with what a terminal row stands for, always.
  That its work is done, or under way, holds through crashes when the poll loop
  awaits the handler, and up to the first crash for the hub's handler, which
  nobody awaits. `EachHandled` leaves out what a crash cut off that way (`CutOff`).
- `Deduplicated`: two poll loops may be alive; only a recovery that listed a row
  before the other loop processed it gives an update to the handler once more.
- `NoneStranded` leaves out a task that the holder of its lease gave up (a bad
  payload, a crash, a lost request) before the ack of a later drain covered it, and
  one the client acknowledged as no more than received (`left`).
- `RevokedUnusable` is about revocations that end the tokens.
- `VerifiedNotForged` and `VerifiedRunsHold` leave out a run whose label was
  never written and then lost with the process (`forgotten`); a node that reports
  after its run is `late`, not `reported`. `WorstKept`, `EvidenceHonest` and
  `ProofIsWhole` are stated within one process, the second with no other error than
  a missing table.
- `PromotedGreen` of provider profiles is stated for one canary at a time: of two
  that overlap, the later one writes back the record it read before.
- `RunningIsLoaded`, `Tracked`, `OffIsOff`, `GateHolds` and `RollbackStops` hold
  under any overlap of requests, but for plugins that are `adrift`, and
  `PromotedGreen` of plugins but for registrations that are `mixed`.

### Fairness

- `scheduler_live`: the loop of `spawn_scheduler_tick` is a thread whose waits
  are all bounded (sleep, busy timeout), so it takes its next step; launchd
  restarts a dead daemon; the clock advances. `CatchesUp` speaks only of a
  schedule that stays enabled and unpaused, and of one daemon at a time.
- `jobs`, scenario fair: the event loop runs what is ready, an armed timer
  fires, a job ends (it has a timeout), a crashed process is started again.
- `graph`, scenario faulty: the event loop drives the loop, a local node ends
  within its timeout, the sweep of runs is called every 30 seconds. Nothing is
  assumed of satellites, approvers and operators.
- `satellites`: time passes, every message has an expiry time, the retention job
  runs daily. Nothing is assumed of satellites. `OfflineDetected` also assumes
  that the sweeper is called, which is what `sweepOffline` is for; in the hub as
  it is wired nobody calls it (see below).
- `services`: promises settle (a child run and a call have timeouts), a poll loop
  and a handler that can go on do, a stopped hub or channel is started again within
  the bound on starts, the reset timeout of a circuit elapses, and a target that
  admits requests gets one. `SpawnsEnd`, `CallsEnd` and `EachHandled` say that from
  some moment on nothing is left open, which for calls and updates that come once
  means that each of them ends.

### Where comments and code disagree

Some sentences in comments, documents and tests are stronger than the code. Each
is stated as a definition in its module, and TLC refutes it under the condition
given (with no condition: as soon as the module's requests allow it). They are not
among the runs, which check the same definitions where they hold, if they hold
anywhere.

Kernel:

- `OneDaemonTicks` (two daemons): "exactly one daemon may tick at a time". A tick
  does not look at its lease again. The primary key still gives at-most-once.
- `OrphanReported` (crash in the first tick of a schedule): "never a
  silently-dropped fire". A first dispatch without a watermark lies before the
  window of a tick in the next minute.
- `ReceiptCap`, `DispatchCap` (several schedules): "hard cap on receipts written
  per tick", "hard cap on real dispatches per tick". Only the backlog loop looks
  at the first; a dispatch that fails after its run was created does not count
  for the second.
- `ScheduleErrorContained` (a schedule deleted during a tick): "a per-schedule
  error NEVER aborts the tick". The failing watermark write ends the tick; the
  next one takes the rest up.
- `SweepSparesDone` (two processes): "never a double-write or an illegal hop". The
  sweep's check and write are two statements.

Job scheduler:

- `StopAwaitsLoop`: a wake-up during a pass replaces the promise `stop()` awaits.
- `NoGhostSpin` (a crash): a job of the cron tool has no definition after a
  restart, and its row wakes the loop at once, again and again.
- `OneShotExactlyOnce` (several jobs at catch-up): catch-up works on rows it read
  at the start.
- `TriggeredRuns`: a trigger during a run of the same job, or of a disabled job,
  is lost.

Graph engine:

- `GateHolds` with resumes after a failure under fail_fast: a cancelled approval
  counts as settled. `RejectedGateHolds`: a batch in flight goes on after a
  rejection.
- `OwnApproval`: a resume completes every blocked approval node.
- `ApprovedIsApplied` with a satellite reporting meanwhile: the run is running,
  the resume throws, the request is resolved.
- `ResumeAccepted`: the second resume inserts an attempt that exists.
- `TerminalIsFinal` under pause_for_approval: a batch result is written over a
  cancelled run.
- `RetriesUsed`: a failure a satellite reported is not retried.
- `NoStranded` with the node sweep or a crash: an attempt is failed and nobody
  continues the run (until the sweep of runs ends it); `recoverActiveRuns` has no
  caller.
- `CompletedIsComplete` with a report during a batch, or a retry after a skipped
  branch. `AttemptsBounded` with the fallback policy.

Satellites:

- `MalformedStayLeased`: "Malformed queue payloads remain leased until expiry".
  The ack of the next drain covers whatever an earlier one left leased.
  `AckHeard`: a reused or requeued sequence number below the checkpoint.
  `AttemptsBounded`: the requeue does not look at `max_attempts`.
- `OfflineDetected` without the sweeper. `RevokedStays`: a pending request
  approved after the revocation pairs again. `HandshakeTokenFresh`: without a
  lifetime the row never expires and the token does. `PairedCanConnect`: retention
  deletes the request the handshake needs. `DegradedStays`: a sweep forgets the
  failure rate. `ApprovedOnly`: the heartbeat of a satellite that waits for its
  approval makes it online, degraded or offline.

Services:

- `SlotsBounded` with forks (the check is before an await); `CountIsRunning` when
  preparation throws; `DrainSettles` (a draining child spawns); `CleanupSettled`
  (a running record is deleted).
- `CrashAfterAckRecovers`: "a crash after ACK cannot lose it (recovered from the
  inbox)". The channel does not await the hub's handler, so the row is processed
  while the handler works, and recovery leaves it alone after a crash.
- `Reconnected`, `StoppedStaysDown`, `NoOrphan`, `FailedStartRetried`: a failed
  restart is not tried again; attempts in flight outlive stop and unregister; a
  kind that was registered again.
- `ResultReturned`, `DocumentedError`, `InFlightOnly`: calls that share run and
  node, and retries that sleep.
- `SingleProbe`: a late outcome is taken for the probe's.
- `LabelSurvives`: "so the truth survives a hub restart". The write of a label is
  best effort, and a failed one is swallowed. `WorstKept` across a restart,
  `EvidenceHonest` when a write fails otherwise than for a missing table,
  `ProofIsWhole` across a restart, `RevisionUnblocks`, `HandoffOnOpenLane`.

Extensions:

- `PromotedGreen` of provider profiles with overlapping canaries, and of adapters
  and servers with a crash between evidence and row; `RollbackRestores` when a
  version is staged over a staged one; `Undoable` and `RollbackOfPromoted` of MCP
  servers across a crash and a new registration.
- `PromotesOverSeen`, `RollbackWhole`, `RollbackAvailable` of skills: another
  candidate's artifact, a torn copy, a status recorded at a second registration.
- `RunningIsLoaded` across a restart, `FailedIsOff` (a flag that is never cleared),
  `DependencyUndisturbed`; `Tracked`, `OffIsOff`, `GateHolds`, `RollbackStops` and
  `PromotedGreen` of plugins without their exceptions; `Undoable` of plugins when a
  crash falls before the promotion is filed.

## 4. Proofs

All theorems hold for every value of the constants that satisfies the named
assumptions: any number of schedules, slots, daemons, faults, requests,
definitions, steps, approvals, concurrent calls, plugins, runs, claims, lanes,
spawned children, Telegram updates, channel plugins, retried calls and requests.
The assumptions are types of the constants, for `WorkflowRun` what `plan_step`
guarantees, and for `LoadPlan` that there are finitely many plugins. A condition
that a property has (section 3) is a hypothesis of its theorem.

`SchedulerProofs`. The inductive invariant `IInv` adds to the type invariant:
what each program counter says of its locals (`LocalInv`: a daemon at "start" or
"engine" created the run of its slot, which is the latest due slot of its
window; a "fired" outcome has its run), that at most one daemon is at "start"
for a slot and that slot was not driven yet (`OneStarter`, `DrivesInv`), and
that a run's time is its creator's minute (`RunsLatest`). `AtMostOnce` is not
inductive alone: without `OneStarter` two daemons could both be about to start
one run; the primary key in `create_run` is what establishes it. From `IInv`
follow `TypeCorrect`, `AtMostOnceHolds`, `FiredReceiptHasRunHolds` and
`OnlyLatestSlotFiresHolds`; `DecisionsFinalHolds` and `WatermarkMonotonicHolds`
are action properties; `ImplementsLedgerHolds` shows that every step is a step of
`FireLedger` or leaves its variables unchanged.

`WorkflowProofs`. `IInv` adds that a call working on a step knows its number and
a call completing with a receipt saw the step carried out (`LocalInv`), that a
held approval is spent, unused, and held by one call (`OneHolder`), that unspent
approvals are unused (`UnspentUnused`), and that the ledger names only steps that
were carried out (`LedgerFounded`). Spending before executing is what makes it
inductive. It gives `TypeCorrect`, `ApprovalSingleUseHolds` and
`VerifiedWasExecutedHolds`.

`ExtensionProofs`, the resolver. `DependenciesFirst` is about the order of a
sequence, Kahn's algorithm about numbers; `SortInv` ties them: the relevant
plugins are closed under dependencies but for the edges still to be followed
(`ExpandInv`), a plugin is in one place once (`OnceInv`), its degree is the number
of its dependencies that are not planned (`DegreeInv`), and what is in the queue
or the batch has all of its dependencies in the plan (`ReadyInv`). This gives
`DependenciesFirstHolds` at every moment of the sort and, with `WholeInv` (a
finished plan is everything relevant), `PlanSoundHolds`. `VerdictRightHolds` needs
a second invariant, `ReasonInv`: what is relevant lies in every set that holds the
targets and their dependencies (`EdgeInv`), each refusal has its edge
(`FaultInv`), what is neither planned nor queued has an unplanned dependency
(`WaitInv`), and after the sort the queue is empty (`RestInv`). A rest is then a
set each of whose members depends on another one of it, which is what a cycle
means for a finite set; and a finished plan excludes one, because the member
planned first would come before its dependency (well-foundedness of the places in
the plan).

`EvidenceProofs`. `VerifiedNotForged` is about what is read; the invariant behind
it is about what is stored. `ColumnBacks`: a run one of whose nodes reported less
than verified has a stored label, and so has one whose label in memory is lower,
unless the write of its label failed: then memory has it (`Unsaved`) until the
process ends (`forgotten`). The second part is needed because a report that is no
worse than the label in memory is not written. The two theorems about one
process carry their condition in the statement (`MaxRestarts = 0`, and no other
errors) and rest on `MemoryWorst` and `LostShows`: the map in memory is the worst
label reported, and lost evidence has changed the status.

### One daemon, one caller

`NoSlotLost` and `NoPileUp` are proved for `SoleDaemon` (`MaxUp = 1`: a crashed
daemon is succeeded by another one) and `RoomForBacklog` (a tick may consider as
many slots as there are). Both conditions are the property's own (section 3), and
the run satisfies them. `NoSlotLost` is about rows at rest; what a tick is in the
middle of is `WindowInv`: while the only daemon is at a schedule, every due slot
of its window has a receipt, is among those still to be considered, or is the slot
at hand, and the watermark in the row is the one it read, unless the row was
deleted or created again meanwhile (`WindowDecided`). The rows it has yet to visit
are the rows as they are, or were deleted (`QueueCurrent`), and the budget of
considered slots is not larger than the number of receipts, which is why it never
ends a backlog early (`WithinBudget`). A crash leaves the watermark where it was,
so nothing below it is undecided. `NoPileUp` needs in addition `PileInv`: a live
run that a later one has overtaken has an error receipt, or none and lies before
the windows of its schedule (`RunsWell`), the minute of a tick is not behind what
it finds (`TickLeads`), its windows begin after such runs (`WindowsAfter`), and at
the dispatch of a slot no run of a fired slot is live (`SlotOpen`): what the guard
read is still true when the run is created, as no other daemon is there to change
it.

The four properties of a single caller of `WorkflowRun` are proved for
`OneCaller`: one call at a time, as many in a row as one likes, each of them cut
by a crash anywhere. `SoleInv` says of the call what it knows of the rows
(`CallInv`: in the loop all earlier steps are verified; the step it dispatches is
pending; one about to be executed is not in the ledger; a move to "done" finds all
steps verified and a move to the checkpoint one pending), and that a step in the
ledger has a row marked as an effect (`LedgerRegistered`). `VerifiedPrefix` is a
part of it: `PausedIsResumable` follows because a waiting step is then the only
one that is neither verified nor without a row.

### Satellites, task workflows, services

`SatelliteProofs`. `RevokedUnusable` is about what the validator would accept;
`PairingInv` says why it does not: from a revocation that ends the tokens to the
next approval the token is itself marked revoked, if there is one (`EndedTokens`),
which no heartbeat, handshake, sweep or registration undoes, and a usable one
comes from an approval (`TokenApproved`). Revocations that keep the tokens and
heartbeats that show none are among the steps.

`EvidenceProofs`, second part. A verdict is given on what can be read at that
moment; `TaskInv` says what it stands on from then on. `VerdictsGrounded`: a
verified claim has references of its kind, its runs completed with every node
verified that had reported by then (or their label was forgotten), and its lane is
a verifier that may verify. It is preserved because no step takes any of it back:
a completed run keeps its status and its labels (`RunsFinal`), a lane what it is
(`LanesFinal`), and nothing is attached to a verified claim. That a run read as
verified was verified is `ColumnBacks`, the invariant of the first part.
`VerifiersFollow`, a verifier lane has an executor lane that is at least as old,
gives `NoVerdictDriftHolds`: a complete closeout finds all executor lanes on the
current specification, and a verifier lane lies between one of them and now.
`ProofIsWholeInOneProcess` carries the conditions of `EvidenceHonestInOneProcess`.

`HubProofs`, sub-agents. `RecordInv` ties where a call stands to its record: none before
`repo.create`, active or deleted while it executes, and nothing executes in a
process that is gone. It gives `OutcomeStaysHolds` in every hub.
`CountIsRunningHolds` rests on `ActiveRuns` and needs that nothing before the try
of `executeChild` throws, which is in its statement. `OverLimitByForksHolds` is for
both modes: a fresh spawn counts and creates in one synchronous step, and no other
step than the return of a fork adds an active record. That fresh spawns alone stay
within the limit is the lemma `SlotsBoundedFresh`.

`HubProofs`, the inbox. `NothingForgotten` compares Telegram's memory with the
rows; `StoredInv` says why they agree: the stored cursor is behind no update
without a row, nor is the offset a loop carries, and a webhook request holds an
update whose row is committed. `Deduplicated` is an action property of the
handler; an update of a batch is looked up as it is delivered, and `InboxFresh`
says the same of a webhook request: what it will hand over has a row that is not
processed. `NeverLost` needs `HandledInv` in addition: what is terminal or gone
was handed over (`EndedInv`), and so was each unknown row, unless a recovery still
has it on its list (`UnknownInv`), which is why retention takes nothing before its
re-drive. None of these theorems has a condition on the loops or the handler;
where the handler is not awaited the property itself claims less. The hook's
record had to be typed more exactly for the induction (an update exactly while a
request is under way), now part of `TypeOK`.

`HubProofs`, channels, retries, circuits. `RestartInv`: until `stopAll` the flag
is up while a restart is in flight, and once `stopAll` has cleared it the monitor
no longer ticks. `PermitInv` ties the counter of the budget to the calls at the
places of the loop that hold a permit (a step takes or returns one, so their
number moves by one); `ContextInv` says that a trace in progress has a call that
will still write to it, which is what makes `NoOpenContext` hold for calls that
share a key, and that there is room for one attempt more. `BreakerInv`: a
half-open circuit that is waiting has a probe among the admitted requests, and a
closed one has counted no failure from before the last success (`ClosedCount`).
These theorems have no condition.

`TaskProofs` and `ServiceProofs` carry these results over to `VerdictsHold`,
`CloseoutEarned`, `SpawnsSound`, `InboxKept` and `LinksSound`, the properties of the
runs. A scenario is an instance of a component module, and the proof modules are
instantiated with the same constants: the lemmas `Same...` show that both
instances are one specification, the lemmas `...Step` that the constants satisfy
the assumptions. `OneProcessOnly` is what the cfg gives `MaxRestarts` and
`OtherErrors`. The proof of `LinksSound` found a flaw of the scenarios: the one of
shared retry keys started with the tokens of the other retry scenario, more than
its own bucket holds; `MCInit` now starts each scenario from its own instance.

### Plugins, adapters, servers, profiles, skills

`MCExtensions` instantiates each component once, with a record `k` of constants:
`Life(k)`, `Skill(k)`, `Plug(k)`; a scenario is a value of `k`. The theorems of
`ExtensionProofs` are about any `k` that satisfies the component's assumption and
the condition of the property, and the scenarios of the run are what remains to be
looked up (`LifeScenariosFit`, `SkillScenariosFit`, `PluginScenariosFit`). That
gives `PluginsTrackedHolds`, `PromotedProvenHolds` and `RollbackKeptHolds`, the
properties of the run.

Plugins. The theorems are for any number of plugins, modules and requests that
overlap. `KeptInv` says of each plugin where its row, the map and its activated
modules agree, and of a request in flight how many modules it has activated,
unless the plugin is adrift; it gives `RunningIsLoadedHolds`, `TrackedHolds` and
`OffIsOffHolds`. `GateInv` adds why a plugin that runs, or is about to, may do so:
its columns say promoted, or a canary, a promotion or an unload of it is under
way. With it `GateHoldsHolds` and `RollbackStopsHolds` hold for any number of
registrations and restarts. `AloneInv` is the model's plugin without dependencies:
one pulled in by another is activated without its own gate. `UndoInv` follows the
snapshot through overlapping requests within one registration and process.
`WindowInv` and `GreenInv` tie the two counters of a row to the canaries of its
registration (`Tell`), unless it is mixed.

Adapters. A crash leaves one of the two records unwritten, and which one is the
difference between the services (`StoreCases`). For the channel service, whose file
is written first, `OrderlyInv` says that the file is about the staged version, its
snapshot is from before, and what is in service now, or was before a promotion on
file, is what the snapshot says. For the provider service the record that an
awaiting canary holds may be older than the one on file and replaces it in the end;
`ProviderInv` therefore says of both records the same (`Tells`: the outcomes since
the registration, and what was in service before), and that a record in hand is
the one on file or nothing was filed in its place (`Outdated`). It needs canaries in
turn and is used for the scenario of the run only. Crashes are unbounded in
`OrderlyUndoHolds`; `AdapterGreenHolds` is about processes that do not crash, as is
the scenario of servers: a crash between the two writes does break these properties.

Skills. `ProvenInv`: the outcomes since the last registration are those filed under
its window; it needs no condition, since a result is compared with the window
when it is filed. `Clean` (the active directory is the installed version, and so
was every version a rollback pointer names) is inductive without crashes. With one
crash it is not: `CutInv` says that until the crash the records are clean and the
original is in a backup or was never replaced, and that after it one of the two
remains. The order of `promote`, backup before active directory, is what the proof of
`CutPromote` rests on.

### Only model-checked

- Liveness: `CatchesUp`, `InFlightRunsSettle`, `DueJobsRun`, `RunsEnd`,
  `EverythingSettles`, `ServicesSettle`; fairness is outside the prover's reach.
- `NoStarvation`: its invariant counts, for each schedule, the ticks of the others
  since it was last considered; the argument is a sum over a set, which needs
  induction over its size.
- `TasksKept`: the order of a batch is a sorted sequence of a set, and that there
  is one needs induction over the set.
- `PlanLeast` and `CycleReal` of `LoadPlan`, hence `PlanRight`: paths of any length.
- `RunsSound` and `GatesHold` hold in the scenarios they are checked in and not for
  every set of requests (a retry after a fail-fast cancel passes a gate, a resume
  during a back-off starts a second attempt), so a theorem needs the requests of
  the scenario in its invariant.
- `SchedulerSound`, `HistoryKept`: not attempted yet.

## 5. Plan

1. Proofs: `SchedulerSound`, `HistoryKept`; `TasksKept` with the items of a batch as a
   set.
2. Composition of `SchedulerTick` and `WorkflowRun`: the tick's start and end
   implemented by the engine; of `GraphRun` and `Outbox`.
3. `CronMatch`: `parse_cron`, `matches`, `next_due` against a reference calendar.
4. `WorkItem`: the mission work item with its boot and periodic recovery;
   pending requests, trust grants, sessions and the process registry.
5. The workflow upgrade lifecycle, the last of the six.

## 6. Not modelled

Cryptography and wire formats (the property is the primitive's), providers,
tools and protocol clients (I/O), memory, skills' contents, learning and prompts
(text), routes and wiring (delegation to the services that are modelled), apps
and UI (presentation). They are the greater part of the repository's lines, and
have little state a model checker could say more about than a test.

Operations without a caller are left out, because a caller's use of them would be
guesswork: `refresh_lease`, `release_lease`, `recoverActiveRuns`, `expirePending`,
`failLeasedMessage`, `incrementAttempts`, the rolling-back `startAll`, the two
interval jobs of satellites. (The operator's schedule operations of the kernel
have no caller in the hub yet either; they are complete requests of their own and
the tick is written for them, so they are modelled.)

Known hazards that no property covers: a crash after the executor of a workflow
step answered and before `record_committed_effect` (the effect is repeated, which
only the executor can prevent); a manually dispatched run that was in flight when
the process died (out of the sweep's scope in the code as well, it stays running
until it is cancelled); a definition that changes under a paused run; the cron
matcher (day-of-month against day-of-week, leap days); heartbeats of a satellite
that overtake one another; the caps of a tick, which are exceeded (`ReceiptCap`,
`DispatchCap`); the answer of a driver and the sweep's "failed", which overwrite each
other (`SweepSparesDone`); a state of a workflow run lost between the two statements
of `set_run_state` when two calls overlap; a job that runs twice, for catch-up and
for the timer (`OneShotExactlyOnce`); overlapping canaries of a provider profile; an
evidence status that a restart forgets. A satellite's report that comes late or twice
is only lightly exercised by the scenarios of `graph`.
