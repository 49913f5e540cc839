# OpenMozi: a verification development in TLA+

OpenMozi is an assistant server: one Node.js process that takes messages from
chat channels, answers them with a model loop, and runs plans, background jobs
and scheduled jobs of its own. This directory holds TLA+ models of the parts
whose correctness is a matter of order and interleaving, the TLC runs that check
them, and TLAPS proofs. Paths below are relative to `src/` of the repository's
implementation (`src/src/` from the root of the checkout).

## 1. The system

One process, one event loop, one SQLite database opened with the synchronous
`better-sqlite3`. That gives every model its unit of atomicity: the code between
two `await`s is one step, and everything else may happen between two steps. A
database call is part of the step that makes it; a transaction that spans no
`await` is atomic also across a crash, two separate statements are not.

| Component | State | Operations | Interacts with |
|---|---|---|---|
| DAG executor `core/dag-executor.ts`, `core/dag-graph.ts` | a map of `state` per task, `inFlight`, `retryDelays` | `executeDag`: settle, mark ready, start, await, sweep; `startReadyTask`, `executeAttempt`, `handleOutcome`, `failDependents`, `cancelDependents` | rows of the task store, cancellation registry, limiter, sub-agents |
| Limiter `DagConcurrencyLimiter` (same file) | `active`, `waiters` | `acquire(limit)`, release, `drain` | every DAG execution of the process |
| Cancellation registry `core/task-cancellation.ts` | controllers by task, `pendingRequests`, hooks | register, finish, request, clear | task store (cancel cascade), executor, background runner |
| Task store `store/task-dag.ts` | rows: status, attempts, dependencies, policy | create, updateStatus, incrementAttempts, complete, fail, cancel | everyone |
| Plan runner `core/plan-runner.ts` | the plan root's status and attempts, a set of running plans | start detached, restart, resume after boot | executor, crash recovery |
| Crash recovery `core/crash-recovery.ts` | none of its own | `recover()` at boot rewrites task rows | task store, plan runner |
| Background runner `background-executor/runner.ts`, `core/background-tasks.ts` | jobs in SQLite, `runningTasks`, handlers | enqueue, tick, claim, execute, timeout sweep, delivery with retries, orphan recovery, stop | cron, plans, channels |
| Cron `scheduler/cron-tasks.ts` | cron rows with a next time and a last status, runs | add, pause, resume, check-and-fire (claim and enqueue in one transaction), run now, complete, delete, delete after run | background runner |
| Reminders `scheduler/reminders.ts`, ticker `scheduler/index.ts`, `scheduled-tasks.ts` | reminder rows with attempts and claims, a `running` flag per kind of schedule | add, cancel, claim, send, retry, reclaim of stale claims | channels |
| Turn cancellation `core/turn-cancellation.ts`, `gateway/steer-store.ts` | running turns by two keys, steers queued for a turn | register, cancel, finish, steer, read steers | gateway, engine |
| Gateway `gateway/`, `index.ts` | a queue per chat, places per user, sessions, the state and envelope of a turn | queue and handle a message, answer, fail, time out, sweep, drain | engine, channels, turn cancellation |
| Approvals `security/approval-wait.ts`, `security/gates.ts`, `tools/executor.ts` | requests, the calls that wait for one | ask, decide, time out | gateway, engine |
| Provider failover `core/provider-failover.ts`, `core/provider-health.ts` | a mode (normal, fallback, degraded), health counters per provider, a queue for complex requests, sticky entries per session, a recovery timer | `chat`, `chatStream`, success and failure, probe, drain, destroy | engine, rate limiter |
| Rate limiter `core/rate-limiter.ts` | per provider: calls under way, the minute's budget, a queue | acquire, release, poll, abort | failover |
| Artifacts `artifacts/` | drafts, versions | create, promote, version | tools, tasks |
| Quotas, billing, gates `security/`, `tenants/` | counters, tokens | check, consume, reset | API, gateway |
| Watchdog `watchdog/` | heartbeat | beat, restart | process |

`PROJECT.json` lists every component, the ones left out too with the reason.

What is hard in this code:

* *interleaving at awaits*: a step of a plan is looked at, awaits its permit or
  the event that reports it, and finds the world changed; a cancellation may come
  in any of those windows, for a task that is pending, queued for a permit,
  running, waiting for a retry, reported, or already done;
* *two copies of a status*: the executor's map and the `tasks` table, written at
  different moments by different parties (a cancellation writes the table at once,
  the map follows when the loop looks);
* *cascades* with an `await` inside;
* *a process-wide permit queue* that callers with different limits share;
* *crashes between two statements* and boot-time repair;
* *timeouts that race a late answer*;
* *one turn, five registries*: queues, places, controllers, the registry of running turns and the
  session objects each have their own idea of who is at work, and each way a turn can end has to
  tell all of them;
* *a mode read by one call and changed by another*: answers of calls, and of recovery
  probes nobody stops, arrive in an order of their own.

## 2. What is modelled

### DagLimiter (`core/dag-executor.ts`, class `DagConcurrencyLimiter`)

`active` is the count of permits, `waiting` the FIFO of waiters each with its own
limit, `holders` the clients that have been granted a permit and not released it
(the code has no such set: it is the promises that have resolved). `Acquire` is the
fast path and the enqueue; `Release` is the closure `acquire` returns, with the
`drain` loop it ends in: `Drain` grants the longest prefix of the queue whose
limits still admit one more.

### DagExecutor (`executeDag` with the rows, the registry and the limiter)

`state`/`attempts` are the executor's map, `db`/`dbAttempts` the table,
`activeTasks`/`requested` the registry, `pc[t]` where `startReadyTask(t)` stands
("idle" when the task is not in `inFlight`) and `main`/`cursor` where the loop of
`executeDag` stands. An action is the code from one `await` to the next:

| Actions | Code |
|---|---|
| `Call`, `SettleQueuedTask`, `SettledReported`, `SettledCascade` | `settleQueuedTasks` with the events it awaits |
| `MarkNewlyReady`, `StartReadyTask`, `AwaitWork`, `RaceSettles` | one turn of the `while` loop and its `Promise.race` |
| `AbandonStart`, `ExecuteAttempt`, `CancelledBeforeStart` | what happens once the permit is granted |
| `OutcomeSuccess`, `OutcomeCancelled`, `OutcomeRetry`, `OutcomeFailed`, `OutcomeReported`, `ContinueCascade`, `ReportRejected` | `handleOutcome`, `cancelDependents`, the `catch`/`finally` of `startReadyTask` |
| `RetryDelayOver` | the timer of a retry |
| `SweepLeftover`, `SweptReported`, `Return`, `LoopRejected` | the loop after the loop |
| `RequestTaskCancellation` | `requestTaskCancellation` with the cascade in the table |

Tasks are numbered in the order `topologicalOrder` returns, so `deps[t]` is a subset
of `1 .. t - 1` (`Acyclic`); `Graphs` bounds the graphs of a run: all of them in `dag_executor`, a chain and a pair beside
a single task in `dag_resumed`, which starts from rows of a resumed plan, never tried or with their attempts used up (`EarlierAttempts`: at most one attempt more than retries, which is all a call leaves, see
`ExecutorKeepsBudget`). Two guards express run-to-completion:
`Yielded` (the loop starts all ready tasks without an `await` in between) and `Idle`
(a timer or an incoming request is a macrotask: no continuation that could run at
once is left when it comes). `EventsTakeTime` says whether the awaited progress
callback does I/O: all callers of `executeDag` in the repository pass none, and
then no request can come while an event is being awaited.

An attempt is opaque: it succeeds, fails for good, fails in a retryable way, or is
cancelled. A success may still arrive after the signal was aborted. The retry
window of 15 minutes is the choice between `OutcomeRetry` and `OutcomeFailed`.

### DagContract

What the executor promises, without loops, permits or tables: a task waits, may run
when its dependencies are resolved, may go back to waiting, ends once and never leaves its
end. The retry budget is `DagExecutor`'s alone. `DagExecutor` implements it (`ImplementsContract`, with
pending, ready and waiting for a retry all mapped to "waiting").

### BackgroundRunner (`background-executor/runner.ts`, `core/background-tasks.ts`)

`status`, `retries`, `backoff`, `delivery`, `tries`, `deliveryBackoff` are columns of
`background_tasks` (the two `..._after` times are sets: the row is a member while the
time is still ahead), `handled` the rows whose handler type is registered, `run` the status of the
`cron_task_runs` row a cron job belongs to. They survive a crash. `missed` is a history variable: the
status a run was not told because the process ended between the two writes. The rest is the process's memory: `pc[j]` where
`executeTask(j)` stands, `signal[j]` the state of its `AbortController` (aborted by the
timeout, or with a `TaskCancelledError`), `entries` the maps `running` and
`activeHandlers`, `tick`/`snapshot`/`outbox`/`parcel` where `tick()` stands and what it
has read before its awaits.

| Actions | Code |
|---|---|
| `AddJob` | `addBackgroundTask`, from wherever it is called |
| `Tick` | `tick` up to its first delivery: `checkTimeouts`, `getPendingTasks`, `getPendingTaskDeliveries` |
| `SendNext`, `TickDelivered` | one turn of the delivery loop of `tick`, on both sides of its `await` |
| `StartJobs` | the rest of `tick`: slots, `claimTaskForRun`, `executeTask` up to its first `await` |
| `HandlerResolves`, `HandlerRetries`, `HandlerFails`, `HandlerCancelled`, `ResultDelivered` | `executeTask` after the handler, by outcome |
| `TimeoutFires`, `BecomesOverdue`, `BackoffOver`, `DeliveryBackoffOver` | the timer of a job, and the clock |
| `CascadeCancelCronTask` | `cascadeCancelCronTask`, the transaction and the aborts |
| `Stop`, `Exit` | `stop`; the end of the process between two steps, or at an `await` of a tick |
| `ExitSweeping`, `ExitStarting`, `ExitConcluding`, `ExitRetrying` | its end inside a step, after any write of a row or of its run: in `checkTimeouts`, in the loop of `tick` over the jobs it starts, after `completeTask` or `failTask`, after `markRetrying` |
| `Restart` | `start` with `recoverOrphanedBackgroundTasks` |

Jobs of `Managed` (handler type `managed_brain`) have no deadline; the type of a job of `Unknown` may
have no handler; a job of `Stubborn` may
go on long after its signal was aborted, so that the stale sweep finds its row.

### PlanRunner (`core/plan-runner.ts`, with `core/crash-recovery.ts` and the `managed_brain` handler)

One plan. `root`, `rootAttempts`, `step`, `tries`, `retryable`, `result` are columns of the
`tasks` rows of the root and its steps and survive a crash; `run` is where `runPlan()` stands
("none": not in `activeRuns`), `mem` the executor's map, `outcome` the local variables of
`runPlan()`, `requested` the `pendingRequests` of the cancellation registry, `job`/`failures`
the scheduled job that owns the plan, `process`/`clean` how far the boot has come and the
`clean_shutdown` flag.

| Actions | Code |
|---|---|
| `StartFirstRun` | `startDetachedPlanRun` by the creator of the plan |
| `StepStarts` ... `StepCancelled` | `executeDag`, by what `DagContract` says of it |
| `ReadOutcome`, `Verified`, `Deliver`, `PersistResult`, `Finish` | `runPlan` after `executeDag`: outcome and artifacts, semantic verification, message, `persistTaskResult`, final status |
| `RunThrows` | the `catch` of the detached run |
| `HandlerEnters`, `HandlerLearns` | `waitForExistingPlan` and the job around it |
| `CancelStep`, `CancelRoot` | `requestTaskCancellation` with its cascade in the table |
| `Shutdown`, `Exit`, `Crash` | a signal, which sets the flag and stops the job runner; the exit it leads to; any other end |
| `Recover`, `Sweep`, `Resume` | `recover`, `sweepOrphanedPlanTasks`, `resumeIncompletePlans` of the next process |

`Restart` is `restartPlanFromMetadata`, which the handler and the resume pass call: its cap
comes first, the normalisation of the rows second, and whether a run is active last.
`Busy` names the synchronous stretches: between two of their writes only a crash may
come. Steps depend on earlier steps, in every acyclic shape; `createPlanTasks` sets no
failure policy, so that a failure blocks what waits for it (the default, `fail_fast`).

A managed job has no timeout and the stale sweep passes it over (`runner.ts:285`, `:365`): the one abort its handler
meets is that of `stop()` at a shutdown (`runner.ts:182`), which ends the wait and counts as a failure of the job,
while the plan itself is not stopped and runs on until the process exits. The shutdown of ACP mode, which never sets
the flag, is left out: to the next process it is a crash.

### RateLimiter (`core/rate-limiter.ts`) and ProviderFailover (`core/provider-failover.ts`, `core/provider-health.ts`)

`RateLimiter` holds, per provider that has limits, the calls admitted (`concurrent`), the budget used in
the current minute (`spent`: requests and tokens are one budget) and the FIFO of callers (`waitQueue`). `ProcessQueue`
admits the longest prefix that fits; `Acquire`'s fast path does not look at who waits, as in the code.
`ProviderFailover` instantiates it. An entry of the chain is a number, `Provider[e]` its provider
(several entries may share one); `mode`, `active`, `timer`, `queue` are the manager's variables, `health` the records of
`provider-health.ts` with counters capped at their thresholds, `toProcess`/`serving` what a running `drainQueue` has taken
and what it awaits, `phase[r]`/`todo[r]` where a call stands and the candidates it has left, `pinned` and `sticky` the
entry a session keeps.

| Actions | Code |
|---|---|
| `Chat`, `ChatStream` | `chat` (queued when degraded and complex, with eviction and backpressure), `chatStream`, up to the first candidate |
| `NextCandidate` | one turn of the loop over candidates, with the admission by the limiter |
| `CallSucceeds`, `CallFails`, `Abort` | the rest of that turn: `recordProviderSuccess`, `recordProviderFailure`, `setMode` with the synchronous part of `drainQueue`, the `finally` |
| `DrainNext` | one turn of the loop of `drainQueue` |
| `ProbeTick`, `ProbeAnswered`, `ProbeFails` | `attemptRecovery`, candidate by candidate |
| `RequestAges`, `PinExpires`, `LimiterTime` | the clock: queue TTL, sticky TTL, the limiter's poll and its minute |
| `Destroy` | `destroy` |

`Quiet` expresses run-to-completion: a failed call's next candidate and the drain's next request run
before anything from outside.

### CronTasks (`scheduler/cron-tasks.ts`), Reminders (`scheduler/reminders.ts`), Scheduler (`scheduled-tasks.ts`, `scheduler/index.ts`)

`rows`/`cron` are `cron_tasks` (a next time is none, ahead or due), `past` the one-shot tasks whose time has gone by, `jobs` the
background jobs of each task with the statuses `BackgroundRunner` gives them, and `torn` the tasks that were not told of the end
of a run, because of a crash, nor of anything since. `reminder`, `attempts`, `later`, `stale` are columns of `reminders` (a claim is stale after
ten minutes), `round`, `due`, `sending` the memory of one dispatch, `sent` the messages that went out. `Scheduler`
composes both with restarts of the process. The stale sweep is a job that fails with retries left (`Rejected`); a handler's answer after it is in `BackgroundRunner` only.

| Actions | Code |
|---|---|
| `AddCronTask`, `SetCronTaskEnabled`, `RunCronTaskNow`, `CancelRun`, `DeleteBegins`, `DeleteEnds` | the operations of users; deleting a task awaits the cancellations of its cascade in between |
| `TimeComes`, `CheckAndFireCronTasks` | the clock, and the dispatch of all due tasks in one stretch; one whose dispatch throws stays due and says `failed` |
| `StartJob`, `StartWithoutRow`, `JobFails`, `JobCompletes` | `markCronRunStarted`, a `managed_brain` job whose task is gone, `markCronRunRetrying` and `failCronRun`, `completeCronRun` |
| `AddReminder`, `CancelReminder`, `CheckAndFireReminders`, `SendSettles` | `addReminder`, `cancelReminder`, `checkAndFireReminders` up to its first send, and from one send to the next |
| `Restart` | the end of the process (`CronRestartTorn`: between the write of a job's row, whichever it is, and that of its task; a reminder's message may be out and its row not say so) and the recovery of jobs by the next |

### TurnRegistry (`core/turn-cancellation.ts`, `gateway/steer-store.ts`), TurnRecord (`core/turn-control.ts`, `memory/turn-envelopes.ts`, approvals), Turns (`index.ts`, `gateway/handler.ts`)

The turns of one user, numbered in the order their messages arrive. `activeTurns`, `activeTurnByChat`, `pendingByTurn` are
the maps of the registry and the steer store: a turn is registered under the chat it came from and under its session's key, which differ
for a first Web message (`SessionKey`). `turnState` is the control state (only "open" and the terminal states matter), `envelope` the durable row,
`call`/`caller` the tool calls that need an approval. `phase[t]` is where the handling of a message stands, `slots`/`slotQueue`/`controllers` the
maps of `index.ts`, `sessions`/`object`/`mine` the map of session objects, their states, and the object a turn
works on; an object is named by the turn that made it. `reason` is why a signal was aborted, which decides how the turn ends.
The queue of a chat needs no variable: its tail is the promise of the message before (`HeadOfLine`).

| Actions | Code |
|---|---|
| `Arrive`, `AcquireUserTurnSlot`, `CleanupDone` | `runInChatQueue`, `acquireUserTurnSlot`, the `finally` blocks of `executeMessage` and `runInChatQueue` |
| `Enter` | `handleMessage` up to its first `await`: session, busy check or reset, registration, envelope; also for a scheduled prompt, which passes no queue |
| `DrainSteers`, `CallTools`, `Ask`, `DecideOrTimeOut`, `ToolsDone`, `BudgetElapses` | what the model loop does that the rest can see |
| `BrainAnswers`, `SendSettles`, `SendFails`, `TurnFails`, `AbortSettles` | the ways `handleMessage` ends, with `publishTurnState`, `catch` and `finally` |
| `RequestTurnCancellation`, `AbortFromCaller`, `DrainActiveTurns` | the Web UI's cancel; `/cancel`, timeouts and a job's signal; `drainActiveTurns` |
| `Steer`, `SweepSession`, `Restart` | `/steer`, the hourly sweep, the end of the process with `terminalizeStaleActiveTurns` |

An error that looks like an abort ends a turn as cancelled, or as failed when it speaks of a timeout, whether or not the signal is
aborted (`CatchThrown`).

`Prompt` names the steps that are continuations of resolved promises: they come before any other event (`Quiet`). An abort
ends the approval waits of its turn in the step itself; the two continuations of a wait run before the longer chain that rejects the turn.
Left out: requests whose row outlives the wait, elevation requests that several calls share, calls that ask twice, empty answers (nothing is sent), and
the self-recovery after an error, which is off unless `MOZI_LLM_SELF_RECOVERY` is set. Approved and rejected
are one outcome: what a call does with its decision is its own affair. A scheduled turn never asks (`isUnattendedContext`).

## 3. What is checked

Every run is exhaustive for its constants.

| Run | Question | Bounds |
|---|---|---|
| `dag_limiter` | permits, order and wake-ups of the queue under three configured limits | 4 clients, limits 1 to 3 |
| `dag_executor` | dependencies, permits, map against table, and the implementation of `DagContract` | 3 tasks, all graphs and policies, 2 permits, 1 retry, 1 cancellation |
| `dag_resumed` | the retry budget over two runs of a plan; what the call leaves behind, also when an event rejects; every call ends; a cancellation of a waiting task takes effect | 3 tasks (a pair and a single one, or a chain), rows never tried or with attempts used up, 1 permit, 2 cancellations, 1 rejection |
| `background_runner` | rows, cron runs and handlers, through timeouts, retries, deliveries, a cancellation and a restart; every job ends and every outcome is delivered or given up | 2 jobs, 1 slot, 1 retry, 2 delivery attempts, 1 restart |
| `plan_runner` | what plan, steps, run and job say of each other through two ends of the process; every plan ends | 2 steps, 2 runs, 1 step retry, 1 job retry, 1 cancellation |
| `provider_failover` | requests are neither lost nor served twice by the queue, permits match the calls under way, the mode tells the truth, a session keeps its model | 2 callers, a chain of 2 providers, 2 (symmetric) probes, queue of 1, one limited provider with 1 call at a time and 1 a minute |
| `turns` | what a turn holds in five registries goes with it and with nobody else; its record is true; a newer turn keeps its keys; every message is dealt with | 2 or 3 messages and scheduled prompts of a user, on the Web and on Telegram, 1 or 2 places, up to 2 calls that ask, 1 steer at a time, 1 restart: seven scenarios (`Bounds`) |
| `scheduler` | the last status of a task is true, nothing that is to happen once happens twice, every run and every reminder ends | 1 task with 2 runs and 1 retry, or 2 reminders with 2 attempts; 2 restarts |

Why the bounds are enough: the interesting executor cases need a task, a dependent and a
third that is independent of them or depends on both (a diamond closes over three tasks
and the two orders they may end in), one permit less than the tasks that could run, and
one cancellation that comes in any window; a second one is needed only for a task and
its dependent. In the runner two jobs, one of which holds the only slot while the other waits, has no handler, or
outlives its deadline, give every pair of handlers, ticks and deliveries. A plan needs two
runs to have a restart and one more attempt than that to meet the cap, and the second end
of the process is the one that finds the first one's restart under way. The failover needs a second caller for
the queue, the permit and the drain to be contended, a second probe because a tick does not
wait for the last one, and a queue of one to be full with one request. Cron tasks and
reminders share no state but the process, so that one kind at a time is scheduled
(`Populations`); two runs of a task make an overlap, two reminders a round with something left in it. Two turns meet in a queue,
in a session or under a key; the third is the one behind a turn that was joined, and the one of another chat that competes for the place. `Bounds` in `MCTurns` pairs
them: a first Web message with the next one of its session, a message with a scheduled prompt in either order, two chats with one place. The theorems of
section 4 have no bounds.

`PROJECT.json` gives for each property of a passing run a mutant of the code (an operator with a
comment "Mutant: ...", used by no specification) under which TLC refutes the property in the
same run: a dropped guard, a missing write, an off-by-one, an order that was swapped.

### Fairness

Weak fairness of the actions the event loop is bound to take: attempts and handlers settle
(each is under a timeout, or aborted), timers fire, promises that have resolved continue, the
tick interval comes round, and a supervisor starts a process that has ended. A shutdown
that has begun exits (`WF_vars(Exit)`). No fairness on
cancellations, crashes, shutdowns, timeouts or new jobs: no property depends on their coming.
`BackgroundRunner` needs strong fairness for the outcome of a handler: it is not
enabled while a tick runs, and the ticks come again and again, but the process yields between
them and a continuation that is due runs then. A job that ends is what `OutcomesDelivered` promises
under the assumption that its handler settles; nothing in the code forces a stubborn handler to,
and the run lets one go on past its deadline, but not for ever.

`SchedulesSettle` assumes that the ticker ticks, that sends and jobs settle and that delays elapse; nobody has to add, pause
or cancel anything. A send that never settles would hold up all reminders: the ticker's `running` flag
has no deadline. `PrimaryTriedAgain` is refuted under the most generous fairness the code could claim:
continuations run, calls and probes end, and callers go on calling. `TurnsEnd` assumes that model calls, sends and tools settle (all have timeouts), that approval waits time
out (five minutes) and that resumed promises run; nobody has to decide, cancel or write.

### What the code does otherwise than it says

Four runs end in a violation of a statement of the repository:

* `dag_cancel_promotes` (`CancelledNotPromoted`): a cancellation marks the pending dependents of a task
  cancelled in the table only; when the task itself completes all the same, the executor
  writes `ready` over a dependent's `cancelled` and runs it (`task-dag.ts:403` and
  `dag-executor.test.ts:659` say that dependents are cancelled and not promoted).
* `background_cancel_late` (`CancelledStaysCancelled`): a cron job is cancelled after its timeout has aborted its
  signal; the signal's reason is then no `TaskCancelledError`, the late handler's rejection is
  taken for a failure, and the cancelled row is put back to `retrying` and run again
  (`runner.ts:60` says it cannot be).
* `plan_crash_not_resumed` (`InterruptedIsResumed`): `recover()` fails a root that was running when the process
  crashed, because a root never has a checkpoint; `resumeIncompletePlans` looks for roots that
  are not terminal and does not find it (`plan-runner.ts:15` and `:1188` say an unclean end
  makes no difference).
* `failover_primary_forgotten` (`PrimaryTriedAgain`): once the primary is down and a fallback is healthy, the
  mode is `fallback`, calls skip the primary, and the recovery timer runs in degraded mode only: while the
  fallback answers, the primary is not asked again (`provider-failover.ts:8` promises automatic
  recovery detection).

`PROJECT.json` quotes the lines. Other behaviour that was met while modelling, is in the models,
and has no run of its own:

* after the stale sweep has let go of a handler that still works, the limit of
  `MAX_CONCURRENT_TASKS` counts it no longer (`runner.ts:375`), so more may be at work; `WorkInHand`
  leaves such rows out;
* `stop()` while a tick awaits a delivery: the tick goes on to start handlers (`runner.ts:230`);
* a crash during a delivery leaves the row `delivering` for ever (`background-tasks.ts:413`);
  `OutcomesDelivered` names these rows, `DeliveryOrphaned`;
* a crash between a write of a job's row and that of its cron run (`runner.ts:265`, `:276`, `:307`, `:338`, `:349`, `:378`)
  leaves the run with what it said before. The next start of the job makes it good, but a run whose job has ended
  shows as running, or queued, for ever; `RunAgreesWithJob` says that one missed write is all that comes apart (`missed`);
* a shutdown uses up a retry of every job it interrupts, or fails it: `stop()` aborts without a cancellation as the reason (`runner.ts:182`, `:338`);
* the resume pass normalises the rows of a plan whose run the job's handler has restarted
  already, and, if the attempts are used up, fails the root of that live run
  (`plan-runner.ts:407` comes before the look at `activeRuns`);
* the cap is looked at before rows are normalised: a plan given up there keeps rows that
  show as running, as does one cancelled before the pass. `NoGhostStep` names these two, and the
  theorem says there are no others;
* steps blocked by a failure are run again after a resume without the failed dependency,
  because the executor ignores dependencies that are not among its tasks
  (`dag-graph.ts:17`, `plan-runner.ts:575`);
* `runPlan` reads whether its root is cancelled once; a cancellation during the semantic verification or the
  delivery is overwritten by the final status (`plan-runner.ts:656`, `:897`);
* the completion message may be delivered a second time when the process ends between
  the delivery and the final status (`plan-runner.ts:861`, `:897`);
* the resume pass looks at 20 roots at most (`task-dag.ts:249`); the model has one plan;
* a manual run of a one-shot task that is to be deleted after its run deletes the row before the task's own time
  (`cron-tasks.ts:315`, `:411`); `FiredOnce` says at most once, for this reason;
* resuming a paused task computes its next time from now on, also when one was due: that slot is skipped;
* a cancelled run leaves the task's last status as it was; `LastStatusIsTrue` leaves these tasks out;
* the reclaim of a stale claim does not look at `max_attempts`: each end of the process may add an attempt
  (`TypeOK` of `Scheduler` has the bound);
* a request the drain has taken is queued again when the mode has become degraded meanwhile; the drain awaits
  it, and `queueDraining` keeps out the only other one that could serve it: nothing settles it but its expiry when a
  later request is queued, or `destroy()` (`provider-failover.ts:541`, `:557`; no caller in the repository asks for the queue);
* an answer that comes after `destroy()` may start the recovery timer again (`ModeTellsTruth` is about a
  manager that lives);
* the fast path of the rate limiter overtakes callers that wait;
* `chatStream` starts again on a fallback after chunks were yielded;
* a tool call outlives its turn when the loop's budget elapses while it waits for an approval, and a call of an aborted turn may still get to ask: the
  wait writes `active` over the terminal envelope (`executor.ts:81`; `executor.ts:43` and `turn-envelopes.ts:219` expect terminal to be last), and a late approval
  runs the tool. `EnvelopeTellsTruth` names these turns, `late`; the next boot marks them interrupted;
* of two calls that wait at once the first decision sets the envelope to `active` while the other still waits;
* a scheduled prompt takes over a session object in RESPONDING while the answer of the turn before is being sent; that turn's
  `transition('IDLE')` then throws, and the turn that was answered is published as failed (`handler.ts:979`);
* an aborted or failed turn deletes whatever session its chat has by then, also that of a newer turn (`handler.ts:996`, `:1022`);
* a second turn on the session's key takes it over from a first Web turn; when the second ends, the first still
  runs and `getActiveTurnForChat`, "authoritative" (`turn-cancellation.ts:193`), finds nobody under the session;
* `/approve` as a chat command queues behind the very turn that waits for it: only `cancel` and `steer` bypass the queue (`index.ts:1043`);
* the supersede branch (`index.ts:880`) is never taken, because messages of one chat do not overlap: the last conjunct of `SlotsMatchTurns` says so;
* the shutdown drain aborts the turns that run; a message queued behind them starts during the drain.

## 4. What is proved

TLAPS proves the following for every value of the constants that satisfies the named
assumptions (finite sets of clients, natural caps, at least one run).

`DagLimiterProofs`: `LimiterTypeCorrect`, `LimiterSlotAccounting` (the counter `drain` decides by is the number of
permits out), `LimiterNoLostWakeup` (the head of the queue waits only while its own limit is used
up), `LimiterFirstComeFirstServed` (an action property: no step lets anybody pass who came later). The invariant adds to the state
properties that nobody holds a permit and waits at once. `GrantableIsLongest` says that what `Drain` grants is the longest prefix of the
queue that fits; `DrainPlaces`, `AcquirePlaces`, `ReleasePlaces`, `DrainBound`, `StepBound`, `DrainOrder` and `StepOrder` what a step does to the places,
the count and the order. The executor's proofs use them for the queue inside it (`LP == INSTANCE DagLimiterProofs`), with
the executor's steps as clients and one limit.

`DagExecutorProofs`: from `ExecutorInvariant`, the properties `TypeOK`, `StartedAfterDependencies`, `StoreMirrorsState`, `NothingRunsOnCancelled`
and `ReturnsSettled`, and the refinement `ExecutorImplementsContract`. The invariant `IInv` adds

* `QueueInOrder`, `StepPlaces`, `StepStates`: the invariant of the permit queue, that a step is in flight exactly while it has a place there,
  and what the map shows of a step by where it stands;
* `StepsResolved`: a step keeps what it began on, since a dependency that is completed, or failed and passed over, stays so;
* `RowsWritten`: why `markNewlyReady` may leave a row alone that says it is ready;
* `Counted`, `SettledInTime`: map and table count the same attempts but for one under way, and a task without retries is settled before
  it could be made ready, without which a resumed plan runs it once more;
* `LoopKnows`: what the loop has made sure of wherever it awaits, so that it neither sweeps nor returns over a step or a delay.

`cancelDependents` walks the graph by a recursive function (`Reach`); that it exists follows from the graph being acyclic (`WalkExists`, by the
least task for which it would not), and `ReachBacks` that each task it visits depends on the first one or on another one it visits, which is all
the proofs need of it. `StateMoves` says which statuses a step may give a task, and the refinement follows from it by cases: a task that
starts has its dependencies resolved and a permit, a task that goes back has a retry left, an end is never left. `ExecutorKeepsBudget` is what justifies
`EarlierAssumption`, that a call starts from rows with at most one attempt more than retries: only `executeAttempt` counts attempts
(`dag-executor.ts:454`), and no call leaves more. `IInv` was model-checked under the constants of `dag_executor` and of `dag_resumed` before it was proved.

`BackgroundRunnerProofs`: from `RunnerInvariant`, the properties `TypeOK`, `WorkInHand` and `RunAgreesWithJob` and the action properties `OneHandlerPerJob` and
`OutcomeIsFinal`. `IInv` adds `ParcelInHand` (what the tick delivers is a job), `RowsOfHandlers` and `SignalsTellWhy` (what a row may say while its handler works, and why
its signal was aborted, without which a late answer could write over anything), `NothingDown`, `EndedBefore` (a runner that
is stopped or down has spent one of the ends of the process, which is all that lets a run miss a write), and `SlotsCounted`: the map of running jobs holds every
handler whose row was not failed, and no more than there are slots. That a tick does not overfill them is a fact about finite sets: of any set of
numbers, at most `n` have fewer than `n` others below them (`OldestFit`), applied to the jobs a tick may start.

`SchedulerProofs`: from `SchedulerInvariant`, the properties `TypeOK`, `LastStatusIsTrue` and `FiredOnce`. `RowsKnown` says that an id never added has no past, and that a due task has
room for its run; `TimeGone`, that a one-shot task whose time has gone by, or that has fired, never gets it back: pausing forgets the time, resuming is refused.
`Claims` says which reminder a round holds and how many attempts and messages ends of the process may have added. The lemmas
`JobMoves`, `CascadeWrites` and `RequeueWrites` say what runner, cascade and boot do to the jobs of a task, `KeepsRuns` that none of them adds or revives a run, `StatusesHold` when
a step keeps the last status true. `IInv` was model-checked under the constants of `scheduler` before it was proved.

`PlanRunnerProofs`: from `PlanInvariant`, the properties `TypeOK`, `NoStrandedPlan`, `NoGhostStep`, `CompletedIsDelivered`,
`JobAgreesWithPlan`, and the action properties `WorkNotRepeated` and `CompletedMeansAllSteps`. None of them is
inductive alone. The invariant `IInv` adds

* `FirstIsFirst`, `RetriesLeft`: why an attempt, and a failure, may still be counted;
* `DeliveredFirst`, `ResultSecond`, `CompletedIsOver`: how far the run's three writes have come, without which a crash
  or an overtaking cancellation between them says nothing about a completed root;
* `StepsRest`, `NothingDoneToDo`, `SuccessLasts`: a run past its steps has none under way, the executor is
  never given a completed step, and a success that was read is undone by cancellations only;
* `WaitEnds`, `DoneForGood`: what a waiting job waits for;
* `RunningIsRun`, `NoneRunning`, `LeftBehind`: where a row may show as running.

`TypeInductive`, `OrderInductive`, `WorkInductive`, `AgreementInductive` and `NoGhostsInductive` each have one step per action; the lemmas
`Restart...` say once what a restart does to root, run and rows, `StepWrites...` what the executor
writes, `BootRows` and `CancelStepRows` what recovery and a cancellation do to completed rows. `IInv` was model-checked
under the constants of `plan_runner` before it was proved.

`TurnsProofs`: `NothingIsLeftBehind` (the property `NothingLeftBehind`) and `KeysGoToNewer` (`KeysYieldToNewer`), from
`TurnsAssumption`. `RegistryMatchesTurns`, `SlotsMatchTurns` and `SessionsMatchTurns` hold only together. The invariant `IInv` adds

* `Line`: turns arrive in order, and a user's turn past the line finds the ones before it in its chat over, which is why
  its controller replaces nobody's;
* `InQueue`, `Places`: nobody is twice in the queue for a place, and the count is that of the turns let in;
* `Controllers`, `Registry`: which chat each entry is under, without which a turn could give up another's key;
* `Objects`: an object is used in the chat of the turn that made it and by nobody before that turn is in, which is
  why a turn that fails and drops its chat's session drops no other chat's.

The many actions come down to ten forms (`Form`) by what they do to these variables (`MovingForms`, `StepForms`); for each
part of the invariant a lemma per form says why it is kept (`PlaceLetGo`, `ControlTaken`, `RegistryFinished`, `ObjectTaken`, `ObjectQuit`, ...).

`TurnRecordProofs` builds on that invariant: `TurnsTypeCorrect` (`TypeOK`) and `RecordTellsTruth` (`EnvelopeTellsTruth`). `Truth` adds what
the control state says of a turn in each phase (`RecordAtWork`: a turn at work is open on record, or its failure is published and its answer
going out), and that a call which still runs belongs to a turn at work or to one with a terminal state (`CallsOfTurns`); so a late write can only
hit a turn that is then `late`. Both invariants were model-checked under the constants of `turns` before they were proved.

`ProviderFailoverProofs`: from `FailoverInvariant`, the properties `TypeOK`, `QueuedOnce`, `PermitsMatchCalls` and `ModeTellsTruth` and the action property
`SessionStaysPinned`, for any finite set of callers, any chain, limits and queue policy. The invariant `IInv` adds

* `Places`: nobody is twice in the queue, in the drain's list or in both, and exactly those who wait are there;
* `Asked`: a call at a candidate has one, so that its end knows whose permit to give back;
* `Books`: who waits for admission waits once, at the provider of the current candidate, and the others there are the calls the
  limiter counts. `PermitsMatchCalls` follows (`BooksTell`), but says nothing of the line from which `processQueue` will fill a freed slot;
* `PinnedCalls`: the call of a session with an entry has that entry and no other, which is why a success cannot move the session.

`AcquireBooks`, `AdmitBooks`, `ReleaseBooks`, `WithdrawBooks` and `PollBooks` say what each operation of the limiter does to its books,
`EnqueueMoves` and `SetModeMoves` what backpressure and a drain do to the places of those who wait. Filtering a sequence is written with ranks (`Only`), so that what it
keeps can be proved (`Ranks`, `OnlyKeeps`); that the costs of a queue add up to a number (`TotalCostNat`) goes by the least length for which
they would not. The assumptions name what the constants are: callers are finitely many, the chain is a non-empty prefix of the entries, and a call's
estimate is within its provider's limit (`provider-failover.ts:435` cuts it down). `IInv` was model-checked under the constants of `provider_failover` before it was proved.

Every safety property the passing runs check is now stated by a theorem.

Only model-checked: liveness (`WaitersServed`, `DagReturns`, `WaitingCancellationHonoured`, `OutcomesDelivered`, `PlanEnds`, `SchedulesSettle`, `TurnsEnd`), since
neither fairness nor `ENABLED` is within the prover's reach; what recursive definitions compute
for every input (of `Reach` the proofs use that it exists on acyclic graphs and what its definition says of its range),
since that needs induction over data.

## 5. What is not modelled

* What an attempt does (model calls, tools, sub-agents), the content of results, prompts and
  messages, and the limits on their length.
* Of the plan runner: the parallel limit of a plan, metadata that is missing or malformed,
  the artifacts themselves (one may be lost), its turn envelopes and the agent registry, and a
  write that fails inside the `catch` of a detached run.
* Channels, the HTTP and WebSocket servers, provider transports, the browser and the
  sandbox: I/O whose order the modelled parts do not depend on.
* The components with status `not_modelled` in `PROJECT.json`, each with its reason.

## 6. Plan

The order is that of what a user would miss most: the executor of plans, the runner of jobs, plans
across restarts, provider failover, schedules, the turns of a user (all done), then

1. `TopologicalOrder`: `dag-graph.ts` as a function over graphs against a reference definition,
   which gives `DagExecutor` its numbering; the completion and failure propagation of `task-dag.ts`.
2. Abstract specifications: a job that runs at least once and ends once, implemented by
   `BackgroundRunner`; a plan, implemented by `PlanRunner`.
3. Artifact promotion (`artifacts/coordinator.ts`), quotas, the job state machine of the workers, the watchdog.
4. The approvals' own rows: elevation requests shared by several calls, grants for one call and for a session.
