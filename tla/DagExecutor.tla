----------------------------- MODULE DagExecutor -----------------------------
(***************************************************************************)
(* One call of executeDag() (core/dag-executor.ts) over the rows of        *)
(* store/task-dag.ts, the cancellation registry of                         *)
(* core/task-cancellation.ts and the process-wide permit queue DagLimiter. *)
(*                                                                         *)
(* JavaScript runs to completion: a step of the model is the code between  *)
(* two `await`s, and other work interleaves only there.  Tasks are their   *)
(* positions in the order topologicalOrder() returns, so a dependency has  *)
(* a smaller number than its dependent.                                    *)
(***************************************************************************)
EXTENDS Integers, Sequences, FiniteSets, FiniteSetsExt

CONSTANTS NumTasks,         \* length of the `tasks` argument
          Graphs,           \* bound: dependencies of the rows, acyclic
          Policies,         \* values of on_dep_failure in the rows
          EarlierAttempts,  \* `attempts` a row may already hold when a plan resumes
          MaxParallel,      \* system.max_parallel_agents, normalised
          MaxRetries,       \* constraints.max_retries, 2 unless set
          EventsTakeTime,   \* the progress callback waits for I/O (executeDag()'s own
                            \* callers pass none, and then an event takes no time)
          MaxCancels,       \* bound: cancellation requests per behaviour
          MaxRejections     \* bound: emitTaskEvent() calls that reject

ASSUME NumTasksAssumption == NumTasks \in Nat \ {0}
ASSUME PoliciesAssumption == Policies \subseteq {"fail_fast", "continue", "fallback"}
\* The attempts in a row are those earlier calls of executeDag() counted, and none
\* counts more than this (ReturnsSettled): one more than the retries.
ASSUME EarlierAssumption == EarlierAttempts \subseteq 0 .. MaxRetries + 1
ASSUME LimitAssumption == MaxParallel \in Nat \ {0}
ASSUME RetriesAssumption == MaxRetries \in Nat
ASSUME EventsAssumption == EventsTakeTime \in BOOLEAN
ASSUME BoundsAssumption == MaxCancels \in Nat /\ MaxRejections \in Nat

Tasks == 1 .. NumTasks
Loop == 0                   \* executeDag()'s own flow of control, beside the steps
Flows == Tasks \union {Loop}

\* What topologicalOrder() lets pass.
Acyclic == {d \in [Tasks -> SUBSET Tasks] : \A t \in Tasks : d[t] \subseteq 1 .. t - 1}
ASSUME GraphsAssumption == Graphs \subseteq Acyclic

VARIABLES
  deps, policy, record,     \* the rows as executeDag() received them
  db, dbAttempts,           \* the tasks table: status, attempts
  state, attempts,          \* executeDag()'s `state` map
  active, waiting, holders, \* DagConcurrencyLimiter
  activeTasks, requested,   \* registry: controllers by task, pendingRequests
  pc,                       \* where startReadyTask(t) stands; "idle": not in inFlight
  main, cursor,             \* where executeDag() stands, and in which iteration
  woken,                    \* a promise of the pending Promise.race has settled
  timers,                   \* retryDelays
  frontier, reportee,       \* cancelDependents(): its queue, the event it awaits
  cancels, rejections       \* how much of the bounds is used

rows == <<deps, policy, record>>
limiter == <<active, waiting, holders>>
loop == <<main, cursor>>
cascade == <<frontier, reportee>>
bounds == <<cancels, rejections>>
vars == <<rows, db, dbAttempts, state, attempts, limiter, activeTasks, requested,
          pc, loop, woken, timers, cascade, bounds>>

Limiter == INSTANCE DagLimiter WITH Clients <- Tasks, Limits <- {MaxParallel}

Terminal == {"completed", "failed", "cancelled", "blocked"}
ExecutionStatus == {"pending", "ready", "waiting_retry", "running"} \union Terminal
TaskStatus == {"pending", "ready", "running"} \union Terminal

\* A row as create() leaves it, or as a restarted plan finds it.
RowOf(t, status, tries) ==
  \/ tries = 0 /\ status = (IF deps[t] = {} THEN "ready" ELSE "pending")
  \/ tries > 0 /\ status \in {"pending", "ready"}

Init ==
  /\ deps \in Graphs
  /\ policy \in [Tasks -> Policies]
  /\ attempts \in [Tasks -> EarlierAttempts]
  /\ record \in [Tasks -> {"pending", "ready"}]
  /\ \A t \in Tasks : RowOf(t, record[t], attempts[t])
  /\ db = record
  /\ dbAttempts = attempts
  /\ state = [t \in Tasks |-> "pending"]
  /\ Limiter!Init
  /\ activeTasks = [t \in Tasks |-> "none"]
  /\ requested = {}
  /\ pc = [t \in Tasks |-> "idle"]
  /\ main = "called" /\ cursor = 1
  /\ woken = FALSE
  /\ timers = {}
  /\ frontier = [f \in Flows |-> {}]
  /\ reportee = [f \in Flows |-> Loop]
  /\ cancels = 0 /\ rejections = 0

-----------------------------------------------------------------------------
\* startReadyTask() runs for every ready task in one synchronous stretch.
Yielded == main # "starting"

\* Requests and timers come in a macrotask of their own: no continuation that
\* could run at once is left when one of them does.
Idle ==
  /\ \/ main \in {"called", "returned", "rejected"}
     \/ main = "racing" /\ ~woken
     \/ EventsTakeTime /\ main \in {"reporting", "cascading", "sweepReporting"}
  /\ \A t \in Tasks :
       \/ pc[t] \in {"idle", "executing"}
       \/ pc[t] = "acquiring" /\ t \notin holders
       \/ EventsTakeTime /\ pc[t] \in {"reporting", "cascading"}

Dependents(t) == {d \in Tasks : t \in deps[d]}

\* What a walk over dependents reaches from t when it stops at tasks outside S.
Reach(t, S) ==
  LET reached[d \in Tasks] ==
        d \in S /\ \E p \in deps[d] : p = t \/ reached[p]
  IN  {d \in S : reached[d]}

\* Mutant: `continue` also runs a task whose dependency was cancelled.
DependenciesResolved_OnCancelled(t) ==
  \A p \in deps[t] : \/ state[p] = "completed"
                     \/ state[p] \in {"failed", "cancelled"} /\ policy[t] = "continue"

DependenciesResolved(t) ==
  \A p \in deps[t] : \/ state[p] = "completed"
                     \/ state[p] = "failed" /\ policy[t] = "continue"

IsTaskCancellationRequested(t) == activeTasks[t] = "aborted" \/ t \in requested

Set(f, S, v) == [t \in DOMAIN f |-> IF t \in S THEN v ELSE f[t]]

\* Mutant: dependents are marked failed, which they are not: they never ran.
FailDependents_AsFailed(t) ==
  LET blocked == Reach(t, {d \in Tasks : state[d] = "pending" /\ policy[d] # "continue"})
  IN  /\ state' = Set(state, blocked, "blocked")
      /\ db' = Set(db, blocked, "failed")

\* Mutant: the walk overwrites dependents that have ended already.
FailDependents_AnyStatus(t) ==
  LET blocked == Reach(t, {d \in Tasks : policy[d] # "continue"})
  IN  /\ state' = Set(state, blocked, "blocked")
      /\ db' = Set(db, blocked, "blocked")

\* failDependents(): no await in it, so the whole walk is one step.
FailDependents(t) ==
  LET blocked == Reach(t, {d \in Tasks : state[d] = "pending" /\ policy[d] # "continue"})
  IN  /\ state' = Set(state, blocked, "blocked")
      /\ db' = Set(db, blocked, "blocked")

\* The permit goes back and the step leaves inFlight.
FinishStep(t) ==
  /\ Limiter!Release(t)
  /\ pc' = [pc EXCEPT ![t] = "idle"]
  /\ woken' = TRUE

-----------------------------------------------------------------------------
(* cancelDependents(): every cancelled dependent is reported with an await
   before its own dependents join the queue F; the order of siblings in the
   queue is not kept. *)
PendingIn(F) == {d \in F : state[d] = "pending"}

CancelNext(f, F) ==
  \E d \in PendingIn(F) :
    /\ state' = [state EXCEPT ![d] = "cancelled"]
    /\ db' = [db EXCEPT ![d] = "cancelled"]
    /\ frontier' = [frontier EXCEPT ![f] = F \ {d}]
    /\ reportee' = [reportee EXCEPT ![f] = d]

CascadeOver(f) ==
  /\ frontier' = [frontier EXCEPT ![f] = {}]
  /\ reportee' = [reportee EXCEPT ![f] = Loop]

\* cancelDependents() inside handleOutcome(), then clearCancellationRequest(t).
StepCascade(t, F, reported) ==
  \/ /\ PendingIn(F) # {}
     /\ CancelNext(t, F)
     /\ pc' = [pc EXCEPT ![t] = "cascading"]
     /\ requested' = requested \ reported
     /\ UNCHANGED <<limiter, woken>>
  \/ /\ PendingIn(F) = {}
     /\ CascadeOver(t)
     /\ requested' = requested \ (reported \union {t})
     /\ FinishStep(t)
     /\ UNCHANGED <<state, db>>

-----------------------------------------------------------------------------
(* The life of one started step: startReadyTask(), executeAttempt(),
   handleOutcome(). *)

\* The permit is granted.  The task may have been settled while it queued.
AbandonStart(t) ==
  /\ pc[t] = "acquiring" /\ t \in holders /\ Yielded
  /\ state[t] # "ready"
  /\ FinishStep(t)
  /\ UNCHANGED <<rows, db, dbAttempts, state, attempts, activeTasks, requested,
                 loop, timers, cascade, bounds>>

\* Mutant: registerRunningTask() does not look at pendingRequests.
ExecuteAttempt_IgnoresRequest(t) ==
  /\ pc[t] = "acquiring" /\ t \in holders /\ Yielded
  /\ state[t] = "ready"
  /\ activeTasks' = [activeTasks EXCEPT ![t] = "live"]
  /\ dbAttempts' = [dbAttempts EXCEPT ![t] = @ + 1]
  /\ state' = [state EXCEPT ![t] = "running"]
  /\ db' = [db EXCEPT ![t] = "running"]
  /\ pc' = [pc EXCEPT ![t] = "executing"]
  /\ UNCHANGED <<rows, attempts, limiter, requested, loop, woken, timers, cascade, bounds>>

\* registerRunningTask() finds no request: the attempt is counted and begins.
ExecuteAttempt(t) ==
  /\ pc[t] = "acquiring" /\ t \in holders /\ Yielded
  /\ state[t] = "ready" /\ t \notin requested
  /\ activeTasks' = [activeTasks EXCEPT ![t] = "live"]
  /\ dbAttempts' = [dbAttempts EXCEPT ![t] = @ + 1]
  /\ state' = [state EXCEPT ![t] = "running"]
  /\ db' = [db EXCEPT ![t] = "running"]
  /\ pc' = [pc EXCEPT ![t] = "executing"]
  /\ UNCHANGED <<rows, attempts, limiter, requested, loop, woken, timers, cascade, bounds>>

\* What every outcome but a retry does before its event is awaited.
Conclude(t, status) ==
  /\ state' = [state EXCEPT ![t] = status]
  /\ db' = [db EXCEPT ![t] = status]
  /\ attempts' = [attempts EXCEPT ![t] = @ + 1]
  /\ activeTasks' = [activeTasks EXCEPT ![t] = "none"]
  /\ pc' = [pc EXCEPT ![t] = "reporting"]
  /\ UNCHANGED <<rows, dbAttempts, limiter, requested, loop, woken, timers, cascade, bounds>>

\* registerRunningTask() aborts at once when a request is already pending.
CancelledBeforeStart(t) ==
  /\ pc[t] = "acquiring" /\ t \in holders /\ Yielded
  /\ state[t] = "ready" /\ t \in requested
  /\ Conclude(t, "cancelled")

\* The result may already be on its way when a cancellation aborts the signal.
OutcomeSuccess(t) ==
  pc[t] = "executing" /\ Yielded /\ Conclude(t, "completed")

\* The signal was aborted, or a guard interrupted the tool loop.
OutcomeCancelled(t) ==
  pc[t] = "executing" /\ Yielded /\ Conclude(t, "cancelled")

\* Mutant: the status of the map goes to the table as it is.
OutcomeRetry_RawStatus(t) ==
  /\ pc[t] = "executing" /\ Yielded /\ activeTasks[t] = "live"
  /\ attempts[t] < MaxRetries
  /\ state' = [state EXCEPT ![t] = "waiting_retry"]
  /\ db' = [db EXCEPT ![t] = "waiting_retry"]
  /\ attempts' = [attempts EXCEPT ![t] = @ + 1]
  /\ activeTasks' = [activeTasks EXCEPT ![t] = "none"]
  /\ timers' = timers \union {t}
  /\ FinishStep(t)
  /\ UNCHANGED <<rows, dbAttempts, requested, loop, cascade, bounds>>

\* A timeout or a transient provider error, with retries and window left.
OutcomeRetry(t) ==
  /\ pc[t] = "executing" /\ Yielded /\ activeTasks[t] = "live"
  /\ attempts[t] < MaxRetries
  /\ state' = [state EXCEPT ![t] = "waiting_retry"]
  /\ db' = [db EXCEPT ![t] = "pending"]
  /\ attempts' = [attempts EXCEPT ![t] = @ + 1]
  /\ activeTasks' = [activeTasks EXCEPT ![t] = "none"]
  /\ timers' = timers \union {t}
  /\ FinishStep(t)
  /\ UNCHANGED <<rows, dbAttempts, requested, loop, cascade, bounds>>

\* Not retryable, or the retries or the 15 minute window are used up.
OutcomeFailed(t) ==
  /\ pc[t] = "executing" /\ Yielded /\ activeTasks[t] = "live"
  /\ Conclude(t, "failed")

\* The awaited task_completed, task_failed or task_cancelled event is out.
OutcomeReported(t) ==
  /\ pc[t] = "reporting" /\ Yielded
  /\ \/ /\ state[t] = "completed"
        /\ requested' = requested \ {t}
        /\ FinishStep(t)
        /\ UNCHANGED <<state, db, cascade>>
     \/ /\ state[t] = "failed"
        /\ FailDependents(t)
        /\ requested' = requested \ {t}
        /\ FinishStep(t)
        /\ UNCHANGED cascade
     \/ /\ state[t] = "cancelled"
        /\ StepCascade(t, Dependents(t), {})
  /\ UNCHANGED <<rows, dbAttempts, attempts, activeTasks, loop, timers, bounds>>

ContinueCascade(t) ==
  /\ pc[t] = "cascading" /\ Yielded
  /\ StepCascade(t, frontier[t] \union Dependents(reportee[t]), {reportee[t]})
  /\ UNCHANGED <<rows, dbAttempts, attempts, activeTasks, loop, timers, bounds>>

\* The event's callback rejects: `finally` releases the permit, and the catch
\* of startReadyTask() leaves an already terminal task and its dependents alone.
ReportRejected(t) ==
  /\ pc[t] \in {"reporting", "cascading"} /\ Yielded
  /\ rejections < MaxRejections
  /\ rejections' = rejections + 1
  /\ CascadeOver(t)
  /\ FinishStep(t)
  /\ UNCHANGED <<rows, db, dbAttempts, state, attempts, activeTasks, requested,
                 loop, timers, cancels>>

\* Mutant: the settled delay stays in retryDelays.
RetryDelayOver_NotDeleted(t) ==
  /\ t \in timers /\ Idle
  /\ state' = [state EXCEPT ![t] = IF @ = "waiting_retry" THEN "pending" ELSE @]
  /\ woken' = TRUE
  /\ UNCHANGED <<rows, db, dbAttempts, attempts, limiter, activeTasks, requested,
                 pc, loop, timers, cascade, bounds>>

\* The retry delay is over.
RetryDelayOver(t) ==
  /\ t \in timers /\ Idle
  /\ timers' = timers \ {t}
  /\ state' = [state EXCEPT ![t] = IF @ = "waiting_retry" THEN "pending" ELSE @]
  /\ woken' = TRUE
  /\ UNCHANGED <<rows, db, dbAttempts, attempts, limiter, activeTasks, requested,
                 pc, loop, cascade, bounds>>

-----------------------------------------------------------------------------
(* executeDag()'s own loop. *)

\* The caller has read the rows some time before the call itself.
Call ==
  /\ main = "called"
  /\ main' = "settling"
  /\ UNCHANGED <<rows, db, dbAttempts, state, attempts, limiter, activeTasks,
                 requested, pc, cursor, woken, timers, cascade, bounds>>

\* Mutant: the retry budget of a resumed task is not looked at.
DueFrom_NoBudget(i) ==
  {t \in i .. NumTasks : /\ state[t] \in {"pending", "ready"}
                         /\ IsTaskCancellationRequested(t)}

\* settleQueuedTasks(): the queued tasks it has to end, from here on.
DueFrom(i) ==
  {t \in i .. NumTasks : /\ state[t] \in {"pending", "ready"}
                         /\ \/ IsTaskCancellationRequested(t)
                            \/ attempts[t] > MaxRetries}

SettleQueuedTask ==
  /\ main = "settling" /\ DueFrom(cursor) # {}
  /\ LET t == Min(DueFrom(cursor))
         status == IF IsTaskCancellationRequested(t) THEN "cancelled" ELSE "failed"
     IN  /\ state' = [state EXCEPT ![t] = status]
         /\ db' = [db EXCEPT ![t] = status]
         /\ cursor' = t
  /\ main' = "reporting"
  /\ UNCHANGED <<rows, dbAttempts, attempts, limiter, activeTasks, requested,
                 pc, woken, timers, cascade, bounds>>

NextIteration(phase) == main' = phase /\ cursor' = cursor + 1

LoopCascade(F, reported) ==
  \/ /\ PendingIn(F) # {}
     /\ CancelNext(Loop, F)
     /\ main' = "cascading"
     /\ requested' = requested \ reported
     /\ UNCHANGED cursor
  \/ /\ PendingIn(F) = {}
     /\ CascadeOver(Loop)
     /\ requested' = requested \ (reported \union {cursor})
     /\ NextIteration("settling")
     /\ UNCHANGED <<state, db>>

SettledReported ==
  /\ main = "reporting"
  /\ \/ /\ state[cursor] = "failed"
        /\ FailDependents(cursor)
        /\ requested' = requested \ {cursor}
        /\ NextIteration("settling")
        /\ UNCHANGED cascade
     \/ /\ state[cursor] = "cancelled"
        /\ LoopCascade(Dependents(cursor), {})
  /\ UNCHANGED <<rows, dbAttempts, attempts, limiter, activeTasks, pc, woken, timers, bounds>>

SettledCascade ==
  /\ main = "cascading"
  /\ LoopCascade(frontier[Loop] \union Dependents(reportee[Loop]), {reportee[Loop]})
  /\ UNCHANGED <<rows, dbAttempts, attempts, limiter, activeTasks, pc, woken, timers, bounds>>

\* Mutant: a dependency counts as resolved as soon as it has ended.
MarkNewlyReady_AnyEnd ==
  /\ main = "settling" /\ DueFrom(cursor) = {}
  /\ LET newly == {t \in Tasks : /\ state[t] = "pending"
                                 /\ \A p \in deps[t] : state[p] \in Terminal}
     IN  /\ state' = Set(state, newly, "ready")
         /\ db' = Set(db, {t \in newly : record[t] # "ready" \/ attempts[t] > 0}, "ready")
  /\ main' = "starting"
  /\ UNCHANGED <<rows, dbAttempts, attempts, limiter, activeTasks, requested,
                 pc, cursor, woken, timers, cascade, bounds>>

\* markNewlyReady(), once nothing is left to settle.
MarkNewlyReady ==
  /\ main = "settling" /\ DueFrom(cursor) = {}
  /\ LET newly == {t \in Tasks : state[t] = "pending" /\ DependenciesResolved(t)}
     IN  /\ state' = Set(state, newly, "ready")
         /\ db' = Set(db, {t \in newly : record[t] # "ready" \/ attempts[t] > 0}, "ready")
  /\ main' = "starting"
  /\ UNCHANGED <<rows, dbAttempts, attempts, limiter, activeTasks, requested,
                 pc, cursor, woken, timers, cascade, bounds>>

Startable == {t \in Tasks : state[t] = "ready" /\ pc[t] = "idle"}

StartReadyTask(t) ==
  /\ main = "starting"
  /\ t \in Startable /\ \A u \in Startable : t <= u
  /\ Limiter!Acquire(t, MaxParallel)
  /\ pc' = [pc EXCEPT ![t] = "acquiring"]
  /\ UNCHANGED <<rows, db, dbAttempts, state, attempts, activeTasks, requested,
                 loop, woken, timers, cascade, bounds>>

\* Everything ready has started: wait for a promise, or leave the loop.
AwaitWork ==
  /\ main = "starting" /\ Startable = {}
  /\ IF timers = {} /\ \A t \in Tasks : pc[t] = "idle"
     THEN main' = "sweeping" /\ cursor' = 1
     ELSE main' = "racing" /\ UNCHANGED cursor
  /\ woken' = FALSE
  /\ UNCHANGED <<rows, db, dbAttempts, state, attempts, limiter, activeTasks,
                 requested, pc, timers, cascade, bounds>>

RaceSettles ==
  /\ main = "racing" /\ woken
  /\ main' = "settling" /\ cursor' = 1
  /\ UNCHANGED <<rows, db, dbAttempts, state, attempts, limiter, activeTasks,
                 requested, pc, woken, timers, cascade, bounds>>

Leftover == {t \in Tasks : state[t] \in {"pending", "ready", "waiting_retry", "running"}}

\* The loop after the loop: what never ran ends cancelled, and reports it, or blocked.
SweepLeftover ==
  /\ main = "sweeping" /\ Leftover # {}
  /\ LET t == Min(Leftover)
     IN  \/ /\ IsTaskCancellationRequested(t)
            /\ state' = [state EXCEPT ![t] = "cancelled"]
            /\ db' = [db EXCEPT ![t] = "cancelled"]
            /\ main' = "sweepReporting" /\ cursor' = t
            /\ UNCHANGED requested
         \/ /\ ~IsTaskCancellationRequested(t)
            /\ state' = [state EXCEPT ![t] = "blocked"]
            /\ db' = [db EXCEPT ![t] = "blocked"]
            /\ UNCHANGED <<requested, loop>>
  /\ UNCHANGED <<rows, dbAttempts, attempts, limiter, activeTasks,
                 pc, woken, timers, cascade, bounds>>

SweptReported ==
  /\ main = "sweepReporting"
  /\ main' = "sweeping"
  /\ requested' = requested \ {cursor}
  /\ UNCHANGED <<rows, db, dbAttempts, state, attempts, limiter, activeTasks,
                 pc, cursor, woken, timers, cascade, bounds>>

Return ==
  /\ main = "sweeping" /\ Leftover = {}
  /\ main' = "returned"
  /\ UNCHANGED <<rows, db, dbAttempts, state, attempts, limiter, activeTasks,
                 requested, pc, cursor, woken, timers, cascade, bounds>>

\* An event the loop awaits rejects, and executeDag() with it; the steps it
\* started go on without a loop to start their dependents.
LoopRejected ==
  /\ main \in {"reporting", "cascading", "sweepReporting"}
  /\ rejections < MaxRejections
  /\ rejections' = rejections + 1
  /\ main' = "rejected"
  /\ CascadeOver(Loop)
  /\ UNCHANGED <<rows, db, dbAttempts, state, attempts, limiter, activeTasks,
                 requested, pc, cursor, woken, timers, cancels>>

-----------------------------------------------------------------------------
(* requestTaskCancellation(): /cancel, the observer's evaluator or a cascade
   of a cron job, at any time and whatever the task's status is.  The cascade
   to dependents is in the table only. *)
RequestTaskCancellation(t) ==
  /\ Idle
  /\ cancels < MaxCancels
  /\ cancels' = cancels + 1
  /\ requested' = requested \union {t}
  /\ db' = Set(db, {t} \union Reach(t, {d \in Tasks : db[d] \in {"pending", "ready"}}),
               "cancelled")
  /\ activeTasks' = [activeTasks EXCEPT ![t] = IF @ = "live" THEN "aborted" ELSE @]
  /\ UNCHANGED <<rows, dbAttempts, state, attempts, limiter, pc, loop, woken,
                 timers, cascade, rejections>>

-----------------------------------------------------------------------------
StepActs(t) ==
  \/ AbandonStart(t) \/ ExecuteAttempt(t) \/ CancelledBeforeStart(t)
  \/ OutcomeSuccess(t) \/ OutcomeCancelled(t) \/ OutcomeRetry(t) \/ OutcomeFailed(t)
  \/ OutcomeReported(t) \/ ContinueCascade(t) \/ ReportRejected(t)

LoopActs ==
  \/ Call \/ SettleQueuedTask \/ SettledReported \/ SettledCascade
  \/ MarkNewlyReady \/ (\E t \in Tasks : StartReadyTask(t)) \/ AwaitWork \/ RaceSettles
  \/ SweepLeftover \/ SweptReported \/ Return \/ LoopRejected

Quiet == /\ main \in {"returned", "rejected"} /\ timers = {}
         /\ \A t \in Tasks : pc[t] = "idle"

Finished == Quiet /\ UNCHANGED vars

Next ==
  \/ LoopActs
  \/ \E t \in Tasks : StepActs(t) \/ RetryDelayOver(t) \/ RequestTaskCancellation(t)
  \/ Finished

\* Model calls have a timeout, delays elapse and promises settle: whatever is
\* under way goes on.  Nobody has to ask for a cancellation.
Spec == /\ Init /\ [][Next]_vars
        /\ WF_vars(LoopActs)
        /\ \A t \in Tasks : WF_vars(StepActs(t)) /\ WF_vars(RetryDelayOver(t))

-----------------------------------------------------------------------------
(* What the executor promises. *)

Steps == {"idle", "acquiring", "executing", "reporting", "cascading"}
Phases == {"called", "settling", "reporting", "cascading", "starting", "racing",
           "sweeping", "sweepReporting", "returned", "rejected"}

\* Every variable keeps its shape.
TypeOK ==
  /\ deps \in [Tasks -> SUBSET Tasks]
  /\ policy \in [Tasks -> Policies]
  /\ record \in [Tasks -> TaskStatus]
  /\ db \in [Tasks -> TaskStatus] /\ dbAttempts \in [Tasks -> Nat]
  /\ state \in [Tasks -> ExecutionStatus] /\ attempts \in [Tasks -> Nat]
  /\ Limiter!TypeOK
  /\ activeTasks \in [Tasks -> {"none", "live", "aborted"}]
  /\ requested \in SUBSET Tasks
  /\ pc \in [Tasks -> Steps]
  /\ main \in Phases /\ cursor \in Nat \ {0}
  /\ woken \in BOOLEAN
  /\ timers \in SUBSET Tasks
  /\ frontier \in [Flows -> SUBSET Tasks] /\ reportee \in [Flows -> Flows]
  /\ cancels \in Nat /\ rejections \in Nat

\* A step that is ready, runs, waits for a retry or is done had every
\* dependency completed, or failed where it chose to continue: neither a
\* retry, nor a cancellation, nor a cascade in between takes that away.
StartedAfterDependencies ==
  \A t \in Tasks :
    state[t] \in {"ready", "running", "waiting_retry", "completed"}
      => DependenciesResolved(t)

\* The table tells what the executor knows, or that a cancellation was asked
\* for; it never shows a step further than it is.
StoreMirrorsState ==
  \A t \in Tasks :
    db[t] # "cancelled" =>
      \/ state[t] = "pending" /\ db[t] \in {"pending", "ready"}
      \/ state[t] = "waiting_retry" /\ db[t] = "pending"
      \/ db[t] = state[t]

\* executeDag() returns with every task settled, none attempted beyond its retry
\* budget (a resumed plan's rows have attempts from before), and nothing left
\* behind: no step under way, no retry delay, no permit out and none asked for.
ReturnsSettled ==
  main = "returned" =>
    /\ \A t \in Tasks :
         state[t] \in Terminal /\ dbAttempts[t] <= MaxRetries + 1 /\ pc[t] = "idle"
    /\ timers = {} /\ active = 0 /\ waiting = <<>>

\* A task that depends on a cancelled one has not run, and is not done.
NothingRunsOnCancelled ==
  \A t \in Tasks :
    (\E p \in deps[t] : state[p] = "cancelled")
      => /\ state[t] \in {"pending", "cancelled", "blocked", "failed"}
         /\ pc[t] = "idle"

\* executeDag() settles, whatever is cancelled and however steps end: it
\* returns, or rejects with the event that was lost.
DagReturns == <>(main \in {"returned", "rejected"})

\* A cancellation that finds its task still waiting is honoured: the task
\* never completes, it ends as cancelled (or a failed dependency ends it first),
\* unless a lost event makes the whole call reject.
WaitingCancellationHonoured ==
  \A t \in Tasks :
    (t \in requested /\ state[t] \in {"pending", "ready", "waiting_retry"})
      ~> state[t] \in {"cancelled", "blocked", "failed"} \/ main = "rejected"

\* The table of a cancelled task is not promoted again: store/task-dag.ts:403
\* says cancel() ends "a task and all its pending/ready downstream tasks".
CancelledNotPromoted ==
  [][\A t \in Tasks : db[t] = "cancelled" => db'[t] \notin {"ready", "running"}]_vars

-----------------------------------------------------------------------------
\* To the contract, everything before an attempt and between two is waiting.
Contract ==
  INSTANCE DagContract WITH
    status <- [t \in Tasks |->
                 IF state[t] \in {"pending", "ready", "waiting_retry"}
                   THEN "waiting" ELSE state[t]]

\* The executor implements DagContract.
ImplementsContract == Contract!Spec
=============================================================================
