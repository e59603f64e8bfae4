# Verification of AI Butler's engines: missions, agents, conversations, tools, schedules

AI Butler (`src/main.go`, `src/internal/`) is a personal agent written in Go. Most of its packages are
adapters: channels, model providers, tools, storage. What it does on its own account, concurrently and over
a long time, is less:

* **mission mode**: a goal is stored as a mission with a plan of steps; a runtime finds it and spawns a supervisor,
  a manager tier and a worker; the supervisor hands the steps over an in-process bus, answers failures with
  replans, pauses for its user, and carries on after a restart;
* the **tool calls of a turn**, which run in parallel through one dispatcher (grants, hooks, response cache,
  repeat breaker, checkpoints) and may spend money, start sub-agents or call an MCP server;
* **conversations**: each message of a user is handled in a goroutine of its own, finds or makes its session, has an
  agent run and answer, and is recorded, while a cleanup removes old sessions;
* the **scheduler**, which runs what is due while nobody is talking to it.

This project specifies these parts in TLA+, checks them with TLC, and proves with TLAPS what of it is safety.

## 1. The system: components, state, operations, hazards

| Component | State | Operations | What is hard | What makes it correct |
|---|---|---|---|---|
| Mission model `mission/mission.go` | none | `CanTransition`, `IsTerminal` | – | the matrix |
| Mission manager and store `mission/manager.go`, `store.go` | rows of `missions`, `mission_steps`, `mission_events` | Create, SetPlan, Start, Pause, Resume, Complete, Fail, Cancel, Replan | every method is read, check, write in separate SQL statements; several goroutines call it; each statement may fail | states move along the matrix; `completed_at` agrees with the state; over is over |
| Supervisor `agent/supervisor` | the run's copy of the steps, the step in hand or those in flight, `replanCount`, `firstFailure` | `Run`, sequential and parallel dispatch, replan, auto-pause | interruptions between any two statements, results late, twice or never, external pause and cancel, deadlines | plan order, dependencies, completed means settled, settled steps keep their outcome, the mission comes to rest |
| Worker `agent/worker` | semaphore, handlers | receive, ack, execute, publish | acks before it works, publishes in a goroutine nobody waits for | the supervisor's properties above |
| Runtime `agent/missionruntime` | map of runs | scan, spawn, stopAll | respawns whatever is planned or running | one run per mission; every open mission is driven on |
| Bus `agent/bus` | subscriber lists, channels, reply channels | PublishReliable, PublishCompeting, (Un)Subscribe*, Ack, Nack | a call works on a snapshot, peers answer late or leave, buffers fill | at least once; exactly one peer unless an ack is late; calls return |
| Manager tier `agent/manager` | the group and sub-step in hand, its events channel | runs the sub-steps of a grouped step through the worker | it does not read its events while it is idle; two timeouts nest; results of an abandoned dispatch arrive in the next one | sub-steps run in order; a completed group has all of them; a group is always answered |
| Sub-agents `agent/agent.go`, `tools.go` | `agent_delegations`, `background_agents`, two semaphores | agent.delegate, agent.spawn, agent.cancel, the loop's exits | nested delegates wait for slots their callers hold; goroutine and agent.cancel update two tables with one statement after the other | no slot is lost; the tables agree; calls return |
| Tool dispatcher `tool/tool.go`, grants `capability`, cache `cache` | counters of the grants, `response_cache`, repeat counts | check, execute, cache, break | counters in two critical sections, windows on a moving clock, probes; a cached success of a tool that acts | budgets and limits hold; what is reported done is done |
| Checkpoints `checkpoint` | rows, spill files, `.tmp` files | Snapshot, Restore, PurgeOlderThan | nothing locks the spill directory; look-up and insert are two statements | a row keeps its content; what is overwritten is recorded |
| Transactions `transaction` | `transactions` | prepare, confirm, execute, cancel, daily limit | read, then write by id alone, from parallel tool calls; midnight | executed only if confirmed, within the limits; a settled purchase stays settled |
| MCP client `mcp/mcp.go`, `transport.go` | the connected process, pending requests, `c.mu`, the registered tools | call, reconnect, connect, disconnect, read loop | a server may hang, die or answer late; every waiting call reconnects after one crash; the lock is held through handshakes | nothing leaks, tools come back, a working server is left alone, calls return |
| Conversations `channel/router.go`, `session/session.go`, `agent/agent.go` | the router's map, `sessions`, `messages`, `agents` | HandleMessage, resolveSession, AddMessage, Run, persistState, CleanupExpired | look-up and creation of a session are apart; errors of statements are logged and forgotten; contexts end between any two; the cleanup runs beside it | one conversation, one session; what was answered is recorded; no run looks alive that is over |
| Schedules `schedule` | `schedules`, `schedule_runs` | tick, RecoverMissed, run, record, create, delete | runs nobody waits for; loop and recovery side by side; row ids used again; cron search | each fire is made up by one run; outcomes are final; nothing due is missed |

How they interact: the supervisor and the chat turns that call `mission.*` tools share the manager and its rows;
the supervisor, the manager tier and the worker exchange tasks and results through the bus, on three topics per
mission (`dispatch` and `manager_dispatch` competing, `events` broadcast); the runtime owns the goroutines of
all of them and knows the mission only through its row. The tool calls of a turn run in parallel goroutines
(`Agent.executeToolsParallel`); each goes through the dispatcher, which snapshots the files a tool is about to
change, and ends in a tool: a purchase, a sub-agent with a loop of its own, a request to an MCP server. What these
share with each other is the database, one statement at a time, and the counters in the process.

The remaining packages (memory, model adapters, the channels' adapters, web chat, tools, desktop, voice, IoT,
A2A, plugins, login, vault, configuration, backup, command line) are listed in `PROJECT.json`, each with the
reason it is not modelled. The hazards listed there, each at its line, are what the properties are for.

## 2. Modules

| Module | Stands for | State | Actions |
|---|---|---|---|
| `Mission` | `mission.go` | – (constant level) | `CanTransition`, `Terminal` |
| `MissionLifecycle` | what the engine promises of one mission | `state` | `Create`, `Move` |
| `MissionManager` | `manager.go` over `store.go`, one mission, many callers | `row` (state, plan, started, completed), `steps`, `ids`, `call` | one SQL statement each: `Create`, `Transition`, `SetPlan`, `Replan`, `ListSteps`, `Supersede`, `AddStep`, `Reread`, `UpdateMission`, `AppendEvent`; `Abort` |
| `SupervisorRun` | what both dispatch modes share, the worker, the runtime, the user | `pc`, `mem`, `cur`, `replans`, `tries`, `exec`, `results`, `disturb` | `Spawn`, `Load`, `CallStart`, `Dispatch`, `TryReplan`, `WorkerDone`, `Interrupt`, `StatementFails`, `UserCall`, … |
| `SequentialSupervisor` | `runSequential`, `runStep` | as above | `Finish`, `Check`, `Mark`, `StepError`, `Record`, `AutoPause`, … |
| `ParallelSupervisor` | `runParallel` | + `deps`, `todo`, `inFlight`, `failure` | `Sweep`, `Mark`, `DispatchReady`, `DispatchError`, `Record`, `StepTimeout`, `Conclude`, … |
| `Delivery` | what a publisher may rely on | `copies`, `outcome` | `Start`, `HandOver`, `Return` |
| `Bus` | acknowledged delivery on one topic, both modes | `peer`, `queue`, `hand`, `reply`, `pub`, history | `Snapshot`, `Broadcast`, `Offer`, `Skip`, `Tried`, `Read`, `AckTimeout`, `Cancel`, `Subscribe`, `Reply`, … |
| `GroupRun` | `agent/manager`, with the supervisor's wait above it and the workers below | `waits`, `outcome`, `mgr`, `work`, `events`, `results` | `Dispatch`, `Receive`, `StepTimeout`, `BeginGroup`, `DispatchSub`, `TakeEvent`, `SubStepTimeout`, `Execute`, … |
| `Delegation` | `agent/tools.go`, the semaphores and the loop's exits of `agent.go` | `job`, `delegation`, `background`, `users`, `slots`, `late`, `cut` | `Delegate`, `Spawn`, `AcquireUser`, `AcquireSlot`, `GiveUp`, `LoopNext`, `UpdateDelegation`, `UpdateBackground`, `CancelBackground`, `Panic`, `Crash`, … |
| `ToolDispatch` | `ExecuteWithCaps`, `CapabilitySet.check`, the response cache, the breaker | `slots`, `totals`, `cached`, `repeat`, `job`, `device`, `now` | `Ask`, `CheckRate`, `CheckGrant`, `Cached`, `NotCached`, `Repeat`, `Run`, `Store`, `Clock`, … |
| `Checkpoint` | `checkpoint.go` and the file tools around it | `disk`, `rows`, `spill`, `tmp`, `edit`, `janitor`, `epoch` | one statement or file operation each: `Look`, `Dedup`, `StatSpill`, `CreateTmp`, `FillTmp`, `RenameTmp`, `InsertRow`, `Apply`, `Purge`, `SweepTmp`, `SweepRemove`, … |
| `Transaction` | `transaction.go`, many callers | `limits`, `tx` (status, amount, confirmed, day), `today`, `call` | one SQL statement each: `Prepare`; `Confirm`, `Cancel`, `Execute` (the read and its checks), `CheckDaily`, `Write`, `Audit`; `StatementFails`, `Midnight` |
| `McpClient` | `mcp.go`, `transport.go`, the hook of `tools.go`, one server | `conn`, `proc`, `closed`, `eof`, `asked`, `said`, `pending`, `holder`, `call`, `tools` | `Lookup`, `Register`, `TakePipe`, `Write`, `PipeBreaks`, `Await`, `TearDown`, `Forget`, `StartProcess`, `Connected`, `Hook`, `PutTools`, `Read`, `EndOfFile`, `Serve`, `Die`, … |
| `Conversation` | `router.go`, `session.go`, the exits of `agent.go`'s loop with its row, the cleanup | `turn`, `mapped`, `rows`, `log`, `runs`, `sweep`, `now` | `Receive`, `CreateSession`, `Enter`, `Ask`, `Compose`, `Begin`, `EndRun`, `Answer`, `Send`, `Deadline`, `Disconnect`, `SweepMessages`, `SweepSession`, `Restart`, … |
| `Cron` | `cron.go` | – (constant level) | `Next`, `Matches`, `Accepted` |
| `Schedule` | `schedule.go`, `reliability.go`, `store.go` and the tools | `rows`, `runs`, `disp`, `execs`, `deleting`, `up`, `now` | `List`, `ReadLast`, `Record`, `Finish`, `Create`, `DeleteRuns`, `DeleteRow`, `Stop`, `Start`, … |
| `Missions_proofs` | theorems about `MissionManager`, and what holds of a run of `SupervisorRun` in both modes | | |
| `SequentialSupervisor_proofs`, `ParallelSupervisor_proofs`, `Bus_proofs`, `Conversation_proofs` | theorems about the module they are named after | | |
| `Tools_proofs` | theorems about `Checkpoint`, `ToolDispatch`, `Transaction` | | |
| `Turns_proofs` | theorems about `Delegation`, `McpClient`, `MCTurns` | | |
| `Background_proofs` | theorems about `Cron`, `Schedule`, `GroupRun`, `MCBackground` | | |
| `MC*` | TLC instances | | |

**Composition.** `SupervisorRun` extends `MissionManager`: the supervisor is one of the manager's callers and its
Start, Complete, Fail, Pause and Replan run statement by statement, interleaved with those of the user's
`mission.interrupt`. `SequentialSupervisor` and `ParallelSupervisor` extend `SupervisorRun`; `Schedule` extends
`Cron`. `Bus` stands on its own; the supervisor modules and `GroupRun` use of it what `Delivery` promises: a
dispatch reaches a worker with a free slot once, or again if the ack was late; a result is delivered, lost or
repeated in any order. Two refinements are stated: `MissionManager` implements `MissionLifecycle` if there is one
caller (`LifecycleSpec`, proved; its steps are what `SoloLifecycle` checks), and `Bus` implements `Delivery`
(`DeliverySpec`, checked as a property and proved).

The other components share no state with each other in the model. Four instances hold several of them side by
side and run one in each behaviour, chosen at the start (`part`): `MCManagers` (the mission manager with several
callers, the same with one, conversations), `MCTools` (transactions, checkpoints, dispatcher), `MCBackground`
(scheduler, manager tier, cron expressions) and `MCTurns` (sub-agents, MCP client). Nothing is claimed about their interleaving.

**How the code is read.**

* SQLite is opened with one connection, so a statement is atomic and a method is not. `call[c].read` is the
  copy `GetMission` returned; `UpdateMission` writes all its columns back.
* A step's identity is its place in `GetSteps`' order, (created_at, id). `mem` is the run's in-memory copy.
* `pc` names the place in the code where the run stands; `Stopped` are the states in which
  `checkExternalState` leaves the mission alone.
* `Load` merges the two reads at the start of `Run`. An empty plan, which `Run` completes itself, takes the same
  path as the sequential loop that finds nothing to do; `ParallelSupervisor` assumes plans that are not empty.
* `exec` is a set: two deliveries of one step that execute at the same time count as one. `results` are those on
  their way; they outlive the run, as the goroutines that publish them may.
* `Interrupt` is the end of a run anywhere: process death, shutdown, a cancelled context, a failed statement of
  the run itself. `StatementFails` is a failed statement inside a manager call of the run, which goes on with
  the error. `Abort` in `MissionManager` is the same for any caller; it reports failure also where `Create`
  and `setPlan` swallow the error of their event, since no caller looks.
* In `Bus` a call's reply channels are one set per call, `Visible` says which answers the call can see: those of
  this attempt, in competing mode those of the peer asked last. The order in which a call goes through its
  snapshot is left open. A topic is used in one mode only, as in the program. `Skip` in competing mode is always
  possible, because whether a peer is at its receive when the timer runs is a matter of scheduling. The result
  `failed` stands for three errors no property tells apart.
* In `GroupRun` the manager takes a dispatch only when it is idle, because it is at its receive only then;
  `waits' = None` in `Dispatch` is a late ack. `Execute` adds the result to the manager's channel whether the
  manager listens or not, since it stays subscribed, and drops it when the channel is full.
* In `Delegation` `perUser` is one limit for everybody, because the tools are registered once, with an empty
  user id. `late` is an agent's own timeout, `cut` the end of the context its caller runs in; `within` says whose
  contexts those are. `spoiled` is history: agents that lost a write or their goroutine, of which `TablesAgree`
  says nothing.
* In `ToolDispatch` a call and its input are one *ask*; acting asks set the device, reading ones look at it.
  `slots` and `totals` are the two critical sections of `CapabilitySet.check`; a hook or a confirmation that
  denies is the early `Answer` of `CheckGrant`, a failing snapshot or tool is `RunFails`.
* The tables `checkpoints` and `messages` are sets of rows with an id, which SQLite makes one more than the largest
  there is (`INTEGER PRIMARY KEY`); the newest row is the one with the largest id. Ids are used again when the
  newest rows are deleted, as in the database.
* In `Checkpoint` a content stands for its own hash, `fd` for the inode a writer has open: the name may be
  renamed or removed under it, which is how POSIX file systems behave. `quiet`, `changed`, `purged`, `torn` are
  history.
* In `Transaction` the copy a call holds is its `read` status; the amount never changes, so the row's is the
  copy's. `executed_at` is taken between the daily check and the statement that stores it: `Write` takes any day
  from the one to the other. A refused call changes nothing and is no action. `limits` is chosen at the start and
  kept, so one run covers several configurations; 0 means no limit, as the code has it. (The comments at
  `config.go:525-526` and `app.go:1086` read 0 as "no spend"; `transaction.go:57-58` and the code read it as
  "unlimited", so that an unconfigured engine executes any amount. The model follows the code.)
* In `McpClient` each process has a number, and its transport the same one. `answered` is the buffered channel of
  a request; `Await` may take any of its ready cases, as `select` does. A result that cannot be parsed counts as
  a failed transport (`mcp.go:575-577`). `Send` writes under `writeMu` and without its context
  (`transport.go:259-261`), so the write of a request may wait: `pipe` is where a caller holds `writeMu`, and
  `Write` comes when the server reads, if it ever does. `PipeBreaks` is the error the writer gets from a process
  that has died or an input that was closed. The few small messages of a handshake are taken to fit a fresh pipe;
  replies to requests of the server are left out.
* In `Conversation` a session goes by the message that created it. `ctx` is `late` when the run's own timeout has
  passed, `over` when the message's context has ended; every later statement under it fails. `hurt` says that the
  database refused a statement of the turn. Of a turn that is over only its session and `answered` are kept, which
  are what the properties ask of it. `rows` holds `updated_at`, which nothing moves after the INSERT. The factory
  sets no budget for the agent, so that exit of the loop is left out. Going back from the tools is `Begin` again.
* In `Schedule` a run is recorded with the time of the tick that listed it, and its outcome goes to whatever row
  has its id when it ends. `Stop` cuts off executions, because their context and their statement end with it.
  In `Cron` the calendar is a constant; a time is a number of minutes.

**Not modelled within these components**: the texts of events, reasons, outputs and errors; the budget, which
nothing in the mission packages enforces; several missions at a time and the runtime's `MaxConcurrent`; the
replanner's conversation with a model; the fire-and-forget bus; the matching of grants to paths and domains; MCP
notifications, elicitation and versions; natural-language schedules. `PROJECT.json` names what each "partly" leaves
out.

## 3. Runs

| Run | Instance | Checks | Shows |
|---|---|---|---|
| `managers` | see below | `CompletedAtIffTerminal`, `IllegalMoveIsLostUpdate`, `QuietTerminalIsFinal`, `SoloLifecycle`; `OneSession`, `TurnRecorded`, `RunRecorded` | what survives of missions and of conversations when callers overlap, statements fail and contexts end |
| `sessions_kept` | 1 message, sessions that expire after 1 tick of 2 | `SweptIsGone`, **violated** | a session that was ever answered cannot be removed: its messages go, it stays |
| `sequential` | plans of 0–2 of 3 steps, 1 replan, 1 late ack, 1 slot, 1 result under way, 2 disturbances | `InPlanOrder`, `CompletedMeansSettled`, `SettledStepsFinal`, `ComesToRest` | the sequential mode under restarts, timeouts, user interrupts and repeated results |
| `parallel` | plan of 2 of 3 steps, five graphs (independent, chain, replacement after the first step, cycle, dependency on a step that may never exist), 2 slots, 1 replan, 1 disturbance | `DepsCompleted`, `ReplanIsSettled`, `CompletedMeansSettled`, `RunEnds` | the parallel mode |
| `parallel_confirm` | 2 independent steps, 1 slot | `ConfirmationNeverFails`, **violated** | a request for confirmation fails a parallel step |
| `bus` | 2 calls, 2 peers, both modes, 2 attempts in all, buffer 1, 1 message in hand | `ExactlyOneUnlessLate`, `AllNackedIsHonest`, `PublishReturns`, `DeliverySpec` | the bus keeps its promise |
| `tools` | see below | `ExecutedWasApproved`, `DailyOverrunBounded`, `SettledUnlessRaced`; `RowsHold`, `RecordedUnlessRaced`; `BudgetKept`, `RepeatsBounded` | what overlapping tool calls leave of the promises of transactions, checkpoints and dispatcher |
| `transactions_daily` | transactions as in `tools` | `DailyLimitKept`, **violated** | two executions pass the daily check together |
| `dispatch_cached` | dispatcher as in `tools`, with a tool that acts and is not on the list of names | `ReportedIsDone`, **violated** | such a tool is answered from the cache and does nothing |
| `background` | see below | `BackgroundTypeOK`; `OncePerFire`, `OutcomeFinal`, `DueIsServed`; `GroupInOrder`, `GroupAnswered`; `CronNextIsEarliest` | scheduler and manager tier under stops, failing statements and timeouts; the search of the next fire |
| `schedule_never` | an expression without a fire | `RunsOnlyWhenDue`, **violated** | what never fires runs at every tick |
| `turns` | see below | `TurnsTypeOK`; `SlotsAccounted`, `TablesAgree`; `NothingLeaks`, `ToolsComeBack`, `WorkingConnectionStays`; `EveryCallReturns` | sub-agents and MCP calls under timeouts, crashes and dying servers |

The instances of the four runs that hold several components:

* `managers`. Missions: 2 callers, 2 steps; or one of the callers alone. Conversations: 2 messages, 2 conversations
  (each symmetric), sessions that expire at the next of 2 times, 1 mishap (a statement that fails, a context that
  ends, a restart).
* `tools`. Transactions: 2 callers (symmetric), 3 transactions, amounts −1 and 2, 2 days; limits 2 per transaction
  and 3 a day, or 1 per transaction and none a day. Checkpoints: 2 editors and 2 files (each symmetric), one
  content, which spills, 3 calls, 1 retention period. Dispatcher: 2 workers, an acting and a reading ask, 4 calls,
  2 ticks; at most 2 calls a tick, 3 in all, grant and cache entries valid for 1 tick, the second repetition within
  a tick broken.
* `background`. Scheduler: 1 schedule, two expressions (hourly, daily), 3 minutes with two fires of the first and one of the
  second,
  2 mishaps (stop, failing statement, deletion). Manager tier: groups of 0, 1 and 2 sub-steps, 2 dispatches, a
  channel of 2, 1 repeated result. Cron: all 567 expressions of a calendar of 43 days of 2 hours of 2 minutes, with
  months of 2 days and a leap day, at every minute from 4 to 71.
* `turns`. Sub-agents: 2, so one may delegate to the other; 1 slot; at most 1 or 2 agents of the user; 1 fault.
  MCP: 2 calls, 3 processes, 1 mishap (a death, a failing start, a shutdown).

The violated runs are findings; `PROJECT.json` quotes the line of the repository each of them contradicts.
`CHECK_DEADLOCK FALSE` is set where the system may stop: a mission that is over, or one waiting for a user who
never comes, a bus nobody publishes on any more, tools nobody calls, a scheduler that was stopped, calls that have
all returned, a message that was handled.

**The properties in words.**

* `IllegalMoveIsLostUpdate`: the state leaves the matrix only when a caller overwrites a row that changed after
  it read it. `QuietTerminalIsFinal`: once a mission is over and no call that read it earlier is still to write,
  nothing moves it again. `CompletedAtIffTerminal`: `completed_at` and a terminal state come and go together.
  `SoloLifecycle`: while one caller acts alone, every change of the state is one the life cycle allows.
* `OneSession`: two messages that are handled at the same time have the same session exactly if they are of the
  same conversation, whoever created it first. `TurnRecorded`: a reply the user got is recorded behind the message
  it replies to, each once, as long as the session is not expired and no statement of the turn failed.
  `RunRecorded`: the row of a run that has ended says how it ended, unless a context ended under it.
* `InPlanOrder`: a step that has been touched has only settled steps before it, across timeouts that leave a
  step running, replans, restarts and stray results.
* `SettledStepsFinal`: a completed, failed or cancelled step is never rewritten.
* `CompletedMeansSettled`: a completed mission has no open step (a failed one is not open), although a user's
  pause or a stale replan may overwrite the row the supervisor is completing.
* `DepsCompleted`: a step that has been started has all its dependencies completed. `ReplanIsSettled`: while a
  replan is asked for and written, nothing is running.
* `ComesToRest` (sequential): the mission ends up over, or waiting for its user. `RunEnds` (parallel): no run
  hangs, whatever the graph; whether the runs of a parallel mission come to an end is not claimed.
* `ExactlyOneUnlessLate`: two peers ack the same competing message only if one of them had let its ack timer
  run out. `AllNackedIsHonest`: a call that reports "all nacked" had no ack in its last attempt, even though
  acks of earlier attempts arrive during it. `PublishReturns`: every call returns.
* `ExecutedWasApproved`: whatever is executed was confirmed and is within the limit of one transaction, although
  the write looks at neither. `SettledUnlessRaced`: an executed or cancelled transaction changes only by a call
  that read it before it was settled; there the model does show a cancelled purchase executed and an executed
  one confirmed again. `DailyOverrunBounded`: a day is overspent by at most one purchase for each caller beyond
  the first, midnight included; with one caller at a time the limit holds.
* `RowsHold`: a spilled content a row refers to keeps its file, unless a purge ran into the snapshot that recorded
  it, and the file is whole unless two snapshots wrote the same `.tmp` at once. `RecordedUnlessRaced`: whoever
  overwrites a file overwrites a content some row of it records, unless another call wrote the file or a purge
  deleted rows since the snapshot looked.
* `BudgetKept`: no window of the rate limit, wherever it starts, holds more calls than the limit, and no more
  calls than the total are ever allowed, although the two are counted in separate critical sections and probes
  count too. `RepeatsBounded`: no window sees a repeated call let through more than twice the limit less three
  times (the breaker's own windows start with a call, so two of them can meet).
* `OncePerFire`: between two fires a schedule runs at most once for the loop and once for the recovery.
  `OutcomeFinal`: the outcome of a run stays, unless an execution with the same id, of a run that was deleted, is
  still under way. `DueIsServed`: a schedule that is due is run in the end. `CronNextIsEarliest`: `Next` finds the
  earliest match, and finds one whenever there is one.
* `GroupInOrder`: a sub-step begins after the success of the ones before it, and a completed group has all of them
  executed, whatever results arrive late, twice or not at all. `GroupAnswered`: the manager gets free again.
* `SlotsAccounted`: both semaphores count exactly the agents that hold something. `TablesAgree`: the two tables say
  the same of a background agent that has ended, whatever agent.cancel did meanwhile.
* `NothingLeaks`: a running server process is connected or in the hands of the call that started it, and a
  request waits only for a call that is in `Send`. `ToolsComeBack`: when no reconnect is under way, a connected
  server has its tools registered. `WorkingConnectionStays`: a call does not tear down the connection it used while
  its process runs. `EveryCallReturns`: calls of sub-agents and of MCP tools come back, with one
  exception (`BehindPipe`): a call that writes, or waits for `writeMu` to write, to a process that runs and has
  stopped reading. Nobody else is held up by such a write, not even on the next process of the same server.

**Bounds and why they are enough.** `MaxStep` bounds the step rows ever inserted: three allow a plan of two and a
replacement, which is the least at which order, dependencies between old and new steps, and a replan with
finished, failed and blocked steps on both sides occur. `MaxReplans = 1` has the first replan succeed and the
next failure meet the limit. `MaxLate` is the number of deliveries of one dispatch acked too late; one gives
the duplicate execution. `MaxResults = 1` still lets a stale result be the one that is seen; the result it keeps
out is lost, which is allowed anyway. `MaxDisturb` bounds user calls, failed statements and interruptions
together: two give an interruption during the recovery from another. In `Bus`, `MaxAttempts` is shared by the
calls: two attempts are one call with a retry, or two calls at once; `Buffer = 1` fills at the second copy. In
`Transaction`, three purchases of 2 are the fewest that exceed the bound of `DailyOverrunBounded` (3 + 2), so it
could fail; two days put a midnight between check and write. In `Checkpoint`, two editors on one content share a
`.tmp`, two files share a spill file, a third call restores or overwrites what the first two did; one retention
period lets a purge delete rows under a call. In `ToolDispatch`, the total (3) is above the rate (2), so each can
be the one that binds; two ticks let a window, a grant and a cache entry run out. In `GroupRun`, two sub-steps are
the least with an order, the second dispatch meets the results of an abandoned first, and the channel of 2 fills.
In `Schedule`, three minutes hold a fire, a minute without one and the next fire; two mishaps are a stop and one failure
more, or a deletion (which takes a stop or another one to leave an execution behind). In `Conversation`, two messages are the least
that race for a session, in one conversation or in two; with an age of 0 the cleanup finds at the second time what
was created at the first. In `Delegation`, with one slot a
delegate of a delegate waits for its own caller. In `McpClient`, one death makes both calls reconnect, and a third
process is the second reconnect; the proofs cover every number of each.

**Fairness.** `WF(SupNext)`: the goroutine of a run goes on, its timers fire, the runtime keeps polling; every
statement it waits for returns. `SF(StepTimeout)` in parallel mode: the wait may end early again and again (the
deadline of a finished step is still counted), but real time passes and the deadline of a step in flight with
it. `WF(drain, WorkerNext)`: when a run is being cleaned up, an executor returns because its context is
cancelled; the code cannot enforce this of an executor, so it is an assumption. Nothing is owed by the worker
otherwise (a step may never be answered), by users, or by a bus peer. In `Bus`, `WF(CallNext(m))`: a publishing
goroutine runs and its timers fire. In `MCBackground`: the scheduler's loop goes on (its ticker), time passes, the
manager tier goes on and its sub-step timer fires; workers, executions and the recovery owe nothing. In `MCTurns`:
some goroutine of a sub-agent goes on if one can, and some timeout passes (every turn and every agent has one);
some caller of the MCP client goes on if one can, and deadlines pass. The server owes nothing: `Serve`,
`Connected` and `Write` are unfair, so it may hang in a call or in a handshake, or read no more.

**Differences between code and documents seen while modelling, not kept as runs.**

* *Missions.* A terminal state is left by a lost update when two callers overlap (`manager.go:355`;
  `mission.go:147-148` promises that it is not). A sequential supervisor that restarts after it recorded a failed
  step, and before it failed the mission, completes the mission (`supervisor.go:239-242`). In parallel mode more
  ready steps than worker slots end the run, and the runtime respawns it for ever (`MISSIONS.md:281-284`). A broadcast
  skips a subscriber whose buffer is full and still succeeds (`bus.go:366-369`; `MISSIONS.md:167-168`). After a
  StepTimeout a group is dispatched again while sub-steps of the first dispatch still execute (`MISSIONS.md:69`).
* *Sub-agents.* The depth limit is never enforced: the tools are registered once, with depth 0 (`cmd_run.go:584-599`;
  `docs/agents/OVERVIEW.md:83`, `FAQ.md:87`). Sub-agents have no session, so the foreign key refuses their row in
  `agents`; `agent.status` then says "not found" and `agent.cancel` "not_found_or_already_terminal". The user id is
  empty, so the limit per user is one limit for all; BackgroundMax is not enforced. A delegation that gets no slot
  stays `running`; `RecoverAgents` looks at `agents` only; nothing calls `CleanupExpiredBackgroundAgents`.
* *Schedules.* `enforceMinInterval` looks at the first gap only (`2,10,58 * * * *` passes although 58 and 2 are four
  minutes apart); `schedule.create` says "saved" of a "today at" in the past without storing it
  (`schedule/tools.go:93-106`); the limit of 3 concurrent runs (`SCHEDULED-AGENTS.md:80`) is not in the code;
  nothing calls `RunWithRetry`; row ids are used again after a delete (`store.go:172-201`).
* *Conversations.* A run that reaches its own deadline writes its last state under the context that has just ended
  (`agent.go:210-217`), so its row stays `running`, against the comment at 435-437. A session the cleanup did remove
  (one no run ever referred to, because composing its prompt failed) stays in the router's map, and nothing its
  conversation says is recorded until a restart. `typing.go:31` says that an active indicator "is restarted": the
  heartbeat that was stopped cancels the new one when it returns (its deferred `Stop`).
* *Checkpoints.* Under the races `RowsHold` and `RecordedUnlessRaced` name, a state the package comment calls
  restorable (`checkpoint.go:1-6`) is not.
* *MCP.* A server that stops reading, once its pipe is full, holds the call that writes and every later one past
  their deadlines, because `Send` waits for `writeMu` and writes without its context (`transport.go:259-261`),
  against the timeout `mcp.go:501-506` gives every call. Such a call never comes to reconnect, so it is free only
  when the process dies or somebody else closes the connection. After one crash two calls tear down each other's
  fresh connection; a result that cannot be parsed restarts a healthy server (`mcp.go:575-577`, against the comment at 496-499); after a failed reconnect the server
  stays disconnected; an answer that is ready together with the end of the read loop may be dropped and its request
  executed again (`transport.go:287-312`).

## 4. Proofs

Proved for every value of the constants, from the `ASSUME` of the modules concerned, and from the hypotheses
named in the table where there are any. Every safety invariant and every action property of a passing run is among them.

| Module | Theorem | Statement |
|---|---|---|
| `Missions_proofs` | `TypeCorrect`, `IInvCorrect` | `Spec => []TypeOK`, `Spec => []IInv` |
| | `CompletedAtCorrect` | `Spec => []CompletedAtIffTerminal` |
| | `LostUpdate` | `Spec => IllegalMoveIsLostUpdate` |
| | `QuietFinal` | `Spec => QuietTerminalIsFinal` |
| | `SerialImplements` | if all callers are the same one, `Spec => LifecycleSpec` |
| `SequentialSupervisor_proofs` | `SeqInvCorrect`, `SeqTypeCorrect` | `SeqSpec => []SeqInv`, `SeqSpec => []RunTypeOK` |
| | `PlanOrderCorrect` | `SeqSpec => []InPlanOrder` |
| | `SeqCompletedCorrect` | `SeqSpec => []CompletedMeansSettled` |
| | `SeqSettledFinal` | `SeqSpec => SettledStepsFinal` |
| `ParallelSupervisor_proofs` | `ParInvCorrect`, `ParTypeCorrect` | `ParSpec => []ParInv`, `ParSpec => []ParTypeOK` |
| | `DepsCorrect` | `ParSpec => []DepsCompleted` |
| | `ReplanSettledCorrect` | `ParSpec => []ReplanIsSettled` |
| | `ParCompletedCorrect` | `ParSpec => []CompletedMeansSettled` |
| | `ParSettledFinal` | `ParSpec => SettledStepsFinal` |
| `Bus_proofs` | `BusTypeCorrect` | `Spec => []BusTypeOK` |
| | `OneHandler` | `Spec => []ExactlyOneUnlessLate` |
| | `NackedHonest` | `Spec => AllNackedIsHonest` |
| | `BusKeepsPromise` | `Spec => DeliverySpec` |
| `Tools_proofs` | `CkInvCorrect`, `CkTypeCorrect` | `CkSpec => []CkInv`, `CkSpec => []CkTypeOK` |
| | `RowsHoldCorrect` | `CkSpec => []RowsHold` |
| | `RecordedCorrect` | `CkSpec => RecordedUnlessRaced` |
| | `TdTypeCorrect` | `TdSpec => []TdTypeOK` |
| | `BudgetCorrect` | `TdSpec => []BudgetKept` |
| | `RepeatsCorrect` | `TdSpec => []RepeatsBounded` |
| | `TxTypeCorrect`, `TxInvCorrect` | `TxSpec => []TxTypeOK`, `TxSpec => []TxInv` |
| | `ApprovedCorrect` | `TxSpec => []ExecutedWasApproved` |
| | `SettledCorrect` | `TxSpec => SettledUnlessRaced` |
| | `OverrunCorrect` | `TxSpec => []DailyOverrunBounded` |
| `Turns_proofs` | `DgTypeCorrect` | `DgSpec => []DgTypeOK` |
| | `NoSlotLost` | `DgSpec => []SlotsAccounted` |
| | `TablesStayInStep` | `DgSpec => []TablesAgree` |
| | `McInvCorrect` | `McSpec => []McInv` |
| | `NothingLeaked`, `ToolsCameBack` | `McSpec => []NothingLeaks`, `McSpec => []ToolsComeBack` |
| | `WorkingConnectionStaysCorrect` | `McSpec => WorkingConnectionStays` |
| | `TurnsTypeCorrect` | `Spec => []TurnsTypeOK`, of the instance with both |
| `Background_proofs` | `NextIsEarliestCorrect` | `Next` is the earliest match, or there is none, where the calendar `Covers` the search |
| | `CronNextCorrect` | `Spec => []CronNextIsEarliest`, under the same hypothesis |
| | `SchedInvCorrect` | `SchedSpec => []SchedInv` |
| | `OncePerFireCorrect` | if `KeepsFiring`, `SchedSpec => []OncePerFire` |
| | `OutcomeFinalCorrect` | `SchedSpec => OutcomeFinal` |
| | `GrTypeCorrect`, `GroupsInOrder` | `GrSpec => []GrTypeOK`, `GrSpec => []GroupInOrder` |
| | `BackgroundTypeCorrect` | `Spec => []BackgroundTypeOK`, of the instance with all three |
| `Conversation_proofs` | `CvInvCorrect`, `CvTypeCorrect` | `CvSpec => []CvInv`, `CvSpec => []CvTypeOK` |
| | `OneSessionCorrect` | `CvSpec => []OneSession` |
| | `RunsRecorded` | `CvSpec => []RunRecorded` |
| | `LogInvCorrect`, `TurnRecordedCorrect` | `CvSpec => []LogInv`, `CvSpec => []TurnRecorded` |

**What is assumed.** Most assumptions say of which kind a constant is. The others:

* `DelegationAssumption`, `TransactionAssumption`, `BusAssumption`: agents, callers and peers are finitely many; what is
  counted could not be compared with a counter otherwise. `Tools_proofs` derives the same for the dispatcher's calls
  from the number of calls made.
* `DispatchAssumption`: there is something to ask for. `ScheduleAssumption`: there are a schedule and an accepted
  expression, and time begins after minute 0 (`sched.CreatedAt.Add(-time.Minute)` stands for the last run of a schedule
  that has none).
* `CronAssumption`: days have no gap, and another month begins with its first day.
* `Covers` (hypothesis of the two theorems about the search): the finite calendar goes on past what a search looks
  at, and has a first of a month after it, where a month that does not match lets the search go on. Go's calendar
  does not end; the model's does.
* `KeepsFiring` (hypothesis of `OncePerFireCorrect`): every expression in use has a next fire within the horizon of
  the search. **The code does not see to this**: it accepts `0 0 30 2 *`, and what never fires counts as due at every
  tick. That is the finding of the run `schedule_never`, and the theorem says that nothing else is needed. Both
  hypotheses hold for the constants of `background.cfg`, where `OncePerFire` and `CronNextIsEarliest` are checked.

**Mission manager.** `CompletedAtIffTerminal` is not inductive: `UpdateMission` writes whatever copy its caller
holds. `IInv` adds that every caller that will still write (`WillWrite`) holds a checked copy (`ReadChecked`): its
two columns agree, and the move it is about to make is one the matrix allowed for that copy. `WrittenIsLegal` turns a
checked copy into a consistent row one legal move away from what was read; hence `CompletedAtCorrect`, and
hence `LostUpdate`, since an illegal move must then come from a copy that no longer equals the row. `QuietFinal`
needs type correctness only: on a terminal mission every new call is refused, so none starts to write.
`SerialImplements` adds `CopyCurrent`: with one caller the copy still equals the row when it is written, so
every step of the manager is a step of the life cycle or a stutter.

**Supervisor.** What both modes share is proved once, in the second part of `Missions_proofs`. `RunInv` ties the run
to its call of the manager: the supervisor is in the call its place awaits and in no other (`AwaitsCall`), nobody else
replans (`CallsKnown`), the ids a replan took are behind every step and its new steps are untouched (`FreshAbove`).
`CompletedMeansSettled` is about a row that users overwrite, and needs both ends: a run that completes the
mission has seen every step settled (`SettledAtEnd`), and while the row says completed no run is where it could touch
a step (`DoneRests`), which a stale Replan cannot undo because it writes a running mission back (`ReplanRead`).
Each mode then has to know what its copy `mem` may differ in from the rows: nothing, between the start of the run
and the end of a step (`MemCurrent`), because the run is the only one that writes steps while it lives, and the
statements that could fail end it. *Sequential*: the step in hand is the first that is not settled (`CurNext`), from
which `InPlanOrder` follows, and a replan keeps it by appending behind and superseding only what was not begun
(`Moves`). *Parallel*: `RoundInv` says what a round, the wait after it, a drain and the pause before a replan leave
running: in flight or still to be dispatched (`RoundOpen`), in flight (`Drains`), nothing (`RoundEmpty`, which is
`ReplanIsSettled`); what a round is about to start has had its dependencies completed, and since settled steps stay,
`DepsCompleted` lasts.

**Bus.** A copy is in one place, a buffer, a worker's hand or among
the acked (`Places`), and only attempts made so far have copies and answers (`OnlyPast`). An answer says what became
of its copy (`AnswersTrue`), and every nack counted in an attempt is that of another peer (`NacksCounted`): when
their number reaches that of the peers asked, each has nacked and none has acked, which is `NackedHonest`. In
competing mode one copy at a time may still be acked in time (`OneLive`), whence `OneHandler`. `BusKeepsPromise` maps
a step of the bus to the handing over of one copy, the start or return of a call, or a stutter (`Advances`): by `Handed` a
peer has had at most one copy in each attempt, and by `AllHanded` at least one if it was served in this attempt,
which is what a success rests on.

**Checkpoints.** `RowsHold` speaks of rows; what decides is who is between two file operations. `FilesInv`: a snapshot no
purge ran into finds the janitor at rest until its row is inserted (`QuietSnapshot`), the janitor removes nothing a
quiet row refers to (`GoneUnreferred`), so a quiet row keeps its file (`QuietRowHeld`); and while one snapshot at a
time has written a `.tmp`, it is whole when it is renamed (`WholeUnlessTorn`). `HoldsRead`: a call nobody raced holds
what the file is from its look to its write, and once its snapshot is over a row of the path has that content, which
is `RecordedUnlessRaced`.

**Dispatcher.** Every counter stays at most the number of calls made, because each call counts in it once and where
it stands tells whether it has yet (`OncePerCall`); this bounds the types. `BudgetInv`: a call that takes a slot
leaves every window, also those that begin earlier, within the rate (`WindowsKept`), and every allowed call has taken a
slot before (`Slotted`), so a probe or a denial cannot make room. `BreakerInv` follows the breaker's window from its first
call: fewer than the limit since, fewer still in the time before it, none after it is over (`Window`); a window
of any other beginning meets at most two of these, which gives the twice-the-limit-less-three of `RepeatsBounded`.

**Transactions.** `ExecutedWasApproved` is not inductive: `Write` looks at nothing. `TxInv` adds that an execution
still to write read a confirmed row within the limit of one transaction (`ExecuteApproved`), that `confirmed_at` is
set with the status and never cleared (`ConfirmedHasTime`), and that a call goes on only from an unsettled copy
(`ReadOpen`), which gives `SettledCorrect`. `DailyOverrunBounded` is about a sum that several calls are about to add
to. `DailyInv` bounds together what a day has spent and what callers that passed the check may still date on it
(`DayFits`): the first of them fits the limit, each further one adds at most the largest purchase, and a midnight
moves a call from one day's account to the next without making it larger.

**Sums and searches.** TLAPS has no induction here over an operator that is a parameter. What had to be known of the
sums (`MapThenSumSet`), of windows of counters and of the cron search is proved by the least counterexample:
the set of naturals, or of cardinalities, at which the claim fails would have a least element, and one step of the
recursion refutes it. For sums this needs first that the function the library's `CHOOSE` picks exists
(`Adds`); it is then determined.

**Sub-agents.** The counters are compared with the cardinality of a set: `SlotsStep` says that a step that moves
one goroutine changes both by the same one, from the library's facts on finite sets. `TablesAgree` follows from
`Written`: how far the goroutine and agent.cancel each are determines what each table may still say.

**MCP client.** `NothingLeaks` and `ToolsComeBack` rest on `OneReconnects`: whoever stops a process or shakes
hands holds the lock; whoever starts one is alone and nothing is connected, because with nothing connected nobody
else gets past the head of `Reconnect`. `AnswersTaken` keeps the request of an answered call out of `pending`.
`WorkingConnectionStays` adds `UsedInv`: a call never holds a process that is still being started, and what it takes
to `Reconnect` it has seen fail, its process dead or its transport closed.

**Cron and schedules.** The search `Next` is a recursive function that jumps; every function that takes its steps
(`Searches`) returns the first match ahead (`FirstAhead`), by the largest time at which it does not. `OncePerFire` asks who
began a run, which no row says. The invariant behind it (`Begun`) is that the runs can be attributed to the loop or the
recovery such that one dispatcher begins no two between two fires (`Apart`) and finds, when it is about to begin
one, that the fire after each of its earlier ones has come (`FireHasCome`); two runs in one interval are then of different
dispatchers. `OutcomeFinal` needs no invariant, only each step by itself.

**Manager tier.** `GroupInOrder` speaks of what has been executed; what decides are messages. `GrInv` adds that
the sub-steps before the one the manager is at have been executed (`ManagerInOrder`), and that every message that
claims a success tells the truth: an event of a sub-step was executed, a group's result has all of its sub-steps
(`ClaimsHold`). Late and repeated messages are no special case, because what is true of history stays true
(`HistoryGrows`).

**Conversations.** `OneSession` compares turns; what decides is the map. `CvInv` adds that a turn under way with a
session has that of its conversation in the map, and that a message which has not yet entered its session is in no
entry (`InMap`); no session is in two entries (`Apart`), so entering keeps both. `RunOf` says how far a run may be
from how far its turn is; the row of a run outlives the sweep because a session a run refers to is not removed.
`TurnRecorded` is about the table of messages, which the sweep empties next to the turns. `LogInv` says what the table
holds of a message at each stage of its turn, if its session is fresh and no statement of it failed (`Trail`). A
session is made once (`Born`), only ages, and the sweep works on expired ones only (`SweepsOld`), so what it takes from is
fresh never again.

**Only model-checked**: liveness (`ComesToRest`, `RunEnds`, `PublishReturns`, `DueIsServed`, `GroupAnswered`,
`EveryCallReturns`), which needs `ENABLED` and is out of the prover's reach; `SoloLifecycle`, the form TLC can check
of what `SerialImplements` proves. The five properties of the violated runs are false.

## 5. Not modelled

* *The supervisor's tier with several missions.* The modules follow one mission; the runtime's `MaxConcurrent` and
  the order in which it picks missions are left out. Two missions share nothing but the database and the runtime's
  map.
* *What an agent's loop says to its model*: prompts, tool results, prices. Its exits are in `Conversation` (the agent
  of a conversation) and `Delegation` (sub-agents).
* *A2A tasks, task contexts, memory, channels, web chat, login, vault, desktop tools.* Operations on single rows,
  text processing, calls of outside services: what could go wrong there is in data, formats and the other side's
  protocol. One observation: in A2A (`protocol/a2a/handler.go:268, 368`) the end of a delegation overwrites a
  cancellation, as in agent.cancel.
* *Storage, configuration, command line.* Most lines of the repository; input and output without control of its
  own.

What would come next: the liveness properties are only model-checked, and small instances are all that speaks for
them. Of the code, the parts that are listed as not modelled and keep state of their own (task contexts, the A2A
tasks) are the next candidates; each is a table with few operations.
