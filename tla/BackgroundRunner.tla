--------------------------- MODULE BackgroundRunner ---------------------------
(***************************************************************************)
(* BackgroundJobRunner (background-executor/runner.ts) over the table of   *)
(* core/background-tasks.ts, with the status of the cron run a job may     *)
(* belong to (scheduler/cron-tasks.ts).                                    *)
(*                                                                         *)
(* tick(), executeTask() and deliverTaskResult() interleave at their       *)
(* awaits; rows survive a crash, everything else is lost in it.  A row and *)
(* its run are written one after the other: the process may die between.   *)
(* Jobs are their ids: getPendingTasks() returns them in this order.       *)
(***************************************************************************)
EXTENDS Integers, FiniteSets, FiniteSetsExt

CONSTANTS NumJobs,        \* bound: rows of background_tasks
          CronJobs,       \* rows with a source_cron_task_id and a cron_run_id
          Managed,        \* rows of handler_type managed_brain: no deadline
          Unknown,        \* rows whose handler_type nobody may have registered
          Stubborn,       \* rows whose handler may ignore its abort signal for long
          MaxConcurrent,  \* MAX_CONCURRENT_TASKS
          MaxRetries,     \* max_retries of the rows
          MaxDeliveries,  \* BACKGROUND_DELIVERY_MAX_ATTEMPTS
          MaxCancels,     \* bound: cancellations of the cron task
          MaxRestarts     \* bound: ends of the process

Jobs == 1 .. NumJobs

ASSUME NumJobsAssumption == NumJobs \in Nat
ASSUME JobSetsAssumption ==
  CronJobs \subseteq Jobs /\ Managed \subseteq Jobs /\ Unknown \subseteq Jobs /\ Stubborn \subseteq Jobs
ASSUME CapsAssumption ==
  MaxConcurrent \in Nat \ {0} /\ MaxRetries \in Nat /\ MaxDeliveries \in Nat \ {0}
ASSUME RunnerBounds == MaxCancels \in Nat /\ MaxRestarts \in Nat

VARIABLES
  status, retries,        \* background_tasks: status ("absent": no row yet), retry_count
  backoff,                \* rows whose retry_after is still ahead
  delivery, tries,        \* delivery_status, delivery_attempts
  deliveryBackoff,        \* rows whose delivery_after is still ahead
  overdue,                \* rows running for more than 1.5 times their timeout
  handled,                \* rows whose handler_type is registered
  run,                    \* cron_task_runs.status of the row's run
  process,                \* "up", "stopped": stop() was called, "down"
  pc, signal,             \* executeTask(j), and the AbortController it made
  entries,                \* `running`, and with it the job's entry of activeHandlers
  tick, snapshot, outbox, parcel,  \* tick(): where, its two reads, what it delivers
  missed,                 \* history: the status a run was not told, "none" if it knows
  cancels, restarts

table == <<status, retries, backoff, delivery, tries, deliveryBackoff, overdue, handled, run>>
handlers == <<pc, signal, entries>>
ticking == <<tick, snapshot, outbox, parcel>>
bounds == <<cancels, restarts>>
vars == <<table, process, handlers, ticking, missed, bounds>>

None == 0
Ended == {"completed", "failed", "cancelled"}

Init ==
  /\ status = [j \in Jobs |-> "absent"] /\ retries = [j \in Jobs |-> 0]
  /\ delivery = [j \in Jobs |-> "none"] /\ tries = [j \in Jobs |-> 0]
  /\ backoff = {} /\ deliveryBackoff = {} /\ overdue = {}
  /\ handled = {}
  /\ run = [j \in Jobs |-> "none"] /\ missed = [j \in Jobs |-> "none"]
  /\ process = "up"
  /\ pc = [j \in Jobs |-> "idle"] /\ signal = [j \in Jobs |-> "none"] /\ entries = {}
  /\ tick = "idle" /\ snapshot = {} /\ outbox = {} /\ parcel = None
  /\ cancels = 0 /\ restarts = 0

-----------------------------------------------------------------------------
\* tick() goes from one delivery to the next, and to the start of jobs,
\* without an await; so does no other step of the process in between.
Yielded == process # "down" /\ tick # "running"

Write(f, S, v) == [j \in Jobs |-> IF j \in S THEN v ELSE f[j]]

\* A job that is not of a cron task has no run to write to.
WriteRun(S, v) ==
  /\ run' = Write(run, S \intersect CronJobs, v)
  /\ missed' = Write(missed, S \intersect CronJobs, "none")

\* The process dies before it writes the run of j.
RunMisses(j, v) ==
  /\ run' = run
  /\ missed' = Write(missed, {j} \intersect CronJobs, v)

AddJob(j) ==
  /\ Yielded
  /\ status[j] = "absent" /\ \A i \in 1 .. j - 1 : status[i] # "absent"
  /\ status' = [status EXCEPT ![j] = "pending"]
  /\ WriteRun({j}, "queued")
  /\ handled' \in IF j \in Unknown THEN {handled, handled \union {j}} ELSE {handled \union {j}}
  /\ UNCHANGED <<retries, backoff, delivery, tries, deliveryBackoff, overdue,
                 process, handlers, ticking, bounds>>

Claimable(j) ==
  status[j] = "pending" \/ (status[j] = "retrying" /\ j \notin backoff)

\* Mutant: a delivery that failed once is not claimed again.
DeliveryClaimable_FirstOnly(j) == delivery[j] = "pending" /\ j \notin deliveryBackoff

DeliveryClaimable(j) ==
  delivery[j] \in {"pending", "retrying"} /\ j \notin deliveryBackoff

-----------------------------------------------------------------------------
(* tick() *)

Stale == {j \in overdue : status[j] = "running" /\ j \notin Managed}

\* Mutant: a stale job is put back for a retry instead of failed.
CheckTimeouts_Requeue ==
  /\ status' = Write(status, Stale, "retrying")
  /\ delivery' = delivery
  /\ deliveryBackoff' = deliveryBackoff
  /\ overdue' = overdue \ Stale
  /\ WriteRun(Stale, "retrying")
  /\ entries' = entries \ Stale
  /\ signal' = Write(signal, {j \in Stale \intersect entries : signal[j] = "live"}, "aborted")

\* checkTimeouts(): stale rows fail, and their handlers are let go of.
CheckTimeouts ==
  /\ status' = Write(status, Stale, "failed")
  /\ delivery' = Write(delivery, Stale, "pending")
  /\ deliveryBackoff' = deliveryBackoff \ Stale
  /\ overdue' = overdue \ Stale
  /\ WriteRun(Stale, "failed")
  /\ entries' = entries \ Stale
  /\ signal' = Write(signal, {j \in Stale \intersect entries : signal[j] = "live"}, "aborted")

Tick ==
  /\ process = "up" /\ tick = "idle"
  /\ CheckTimeouts
  /\ tick' = "running"
  /\ snapshot' = {j \in Jobs : \/ status'[j] = "pending"
                               \/ status'[j] = "retrying" /\ j \notin backoff}
  /\ LET due == {j \in Jobs : /\ status'[j] \in {"completed", "failed"}
                              /\ delivery'[j] \in {"pending", "retrying"}
                              /\ j \notin deliveryBackoff'}
     IN  outbox' \in {O \in SUBSET due :
                        Cardinality(O) = Min({MaxConcurrent, Cardinality(due)})}
  /\ UNCHANGED <<retries, backoff, tries, process, pc, parcel, handled, bounds>>

ClaimDelivery(j) ==
  /\ delivery' = [delivery EXCEPT ![j] = "delivering"]
  /\ tries' = [tries EXCEPT ![j] = @ + 1]

\* claimTaskDelivery() finds the row as the tick read it, or taken meanwhile.
SendNext(j) ==
  /\ tick = "running" /\ j \in outbox
  /\ outbox' = outbox \ {j}
  /\ \/ /\ DeliveryClaimable(j)
        /\ ClaimDelivery(j)
        /\ tick' = "delivering" /\ parcel' = j
     \/ /\ ~DeliveryClaimable(j)
        /\ UNCHANGED <<delivery, tries, tick, parcel>>
  /\ UNCHANGED <<status, retries, backoff, deliveryBackoff, overdue, run, process,
                 handlers, snapshot, handled, missed, bounds>>

\* The message is out, or deliverScheduledMessage() rejected.
DeliverySettles(j) ==
  \/ delivery' = [delivery EXCEPT ![j] = "delivered"]
     /\ deliveryBackoff' = deliveryBackoff \ {j}
  \/ /\ tries[j] >= MaxDeliveries
     /\ delivery' = [delivery EXCEPT ![j] = "failed"]
     /\ deliveryBackoff' = deliveryBackoff \ {j}
  \/ /\ tries[j] < MaxDeliveries
     /\ delivery' = [delivery EXCEPT ![j] = "retrying"]
     /\ deliveryBackoff' = deliveryBackoff \union {j}

TickDelivered ==
  /\ process # "down" /\ tick = "delivering"
  /\ DeliverySettles(parcel)
  /\ tick' = "running" /\ parcel' = None
  /\ UNCHANGED <<status, retries, backoff, tries, overdue, run, process, handlers,
                 snapshot, outbox, handled, missed, bounds>>

\* Mutant: the slots are counted over all jobs, not over the running ones.
Selected_AllSlots ==
  {j \in snapshot : Cardinality({i \in snapshot : i < j}) < MaxConcurrent}

\* The oldest of the rows the tick read before it delivered, for the slots left now.
Selected ==
  {j \in snapshot :
     Cardinality({i \in snapshot : i < j}) < MaxConcurrent - Cardinality(entries)}

\* Mutant: no claim, the row is started as the tick read it.
Claimed_Unchecked == Selected \ entries

\* claimTaskForRun(): only rows that are still waiting.
Claimed == {j \in Selected \ entries : Claimable(j)}

\* What executeTask() has written of the jobs S at its first await.
AfterStart(j) == IF j \in handled THEN "running" ELSE "failed"
StatusStarted(S) == [j \in Jobs |-> IF j \in S THEN AfterStart(j) ELSE status[j]]
RunStarted(S) == [j \in Jobs |-> IF j \in S \intersect CronJobs THEN AfterStart(j) ELSE run[j]]

\* Every job that gets a slot; one without a handler fails at once and is reported.
StartJobs ==
  /\ tick = "running" /\ outbox = {}
  /\ LET begun == Claimed \intersect handled
         orphan == Claimed \ handled
     IN  /\ status' = StatusStarted(Claimed)
         /\ run' = RunStarted(Claimed)
         /\ missed' = Write(missed, Claimed \intersect CronJobs, "none")
         /\ delivery' = Write(delivery, orphan, "delivering")
         /\ tries' = [j \in Jobs |-> IF j \in orphan THEN tries[j] + 1 ELSE tries[j]]
         /\ backoff' = backoff \ Claimed
         /\ deliveryBackoff' = deliveryBackoff \ orphan
         /\ overdue' = overdue \ Claimed
         /\ pc' = [j \in Jobs |-> IF j \in begun THEN "handling"
                                  ELSE IF j \in orphan THEN "delivering" ELSE pc[j]]
         /\ signal' = Write(signal, begun, "live")
         /\ entries' = entries \union begun
  /\ tick' = "idle" /\ snapshot' = {}
  /\ UNCHANGED <<retries, process, outbox, parcel, handled, bounds>>

-----------------------------------------------------------------------------
(* executeTask() once the handler is done. *)

\* What completeTask() and failTask() write, the claim of the delivery that
\* follows in the same step, and the run's own status.
Conclude(j, end) ==
  /\ status' = [status EXCEPT ![j] = end]
  /\ WriteRun({j}, end)
  /\ ClaimDelivery(j)
  /\ backoff' = backoff \ {j}
  /\ deliveryBackoff' = deliveryBackoff \ {j}
  /\ overdue' = overdue \ {j}
  /\ pc' = [pc EXCEPT ![j] = "delivering"]
  /\ UNCHANGED retries

Handling(j) == pc[j] = "handling" /\ Yielded

LetGo(j) ==
  /\ entries' = entries \ {j}
  /\ signal' = [signal EXCEPT ![j] = "none"]

HandlerResolves(j) ==
  /\ Handling(j) /\ signal[j] # "cancelled"
  /\ LetGo(j)
  /\ Conclude(j, "completed")
  /\ UNCHANGED <<process, ticking, handled, bounds>>

\* Mutant: a retry is granted as long as the count does not exceed the limit.
Retryable_OffByOne(j) == retries[j] <= MaxRetries

Retryable(j) == retries[j] < MaxRetries

HandlerRetries(j) ==
  /\ Handling(j) /\ signal[j] # "cancelled"
  /\ Retryable(j)
  /\ LetGo(j)
  /\ status' = [status EXCEPT ![j] = "retrying"]
  /\ retries' = [retries EXCEPT ![j] = @ + 1]
  /\ backoff' = backoff \union {j}
  /\ overdue' = overdue \ {j}
  /\ WriteRun({j}, "retrying")
  /\ pc' = [pc EXCEPT ![j] = "idle"]
  /\ UNCHANGED <<delivery, tries, deliveryBackoff, process, ticking, handled, bounds>>

\* Mutant: the run of a job that failed is left as it is.
HandlerFails_RunForgotten(j) ==
  /\ Handling(j) /\ signal[j] # "cancelled"
  /\ LetGo(j)
  /\ status' = [status EXCEPT ![j] = "failed"]
  /\ ClaimDelivery(j)
  /\ overdue' = overdue \ {j}
  /\ pc' = [pc EXCEPT ![j] = "delivering"]
  /\ UNCHANGED <<retries, backoff, deliveryBackoff, run, process, ticking, handled, missed, bounds>>

\* A permanent error, or the retries are used up.
HandlerFails(j) ==
  /\ Handling(j) /\ signal[j] # "cancelled"
  /\ LetGo(j)
  /\ Conclude(j, "failed")
  /\ UNCHANGED <<process, ticking, handled, bounds>>

\* The signal carries a TaskCancelledError: whatever the handler says is dropped.
HandlerCancelled(j) ==
  /\ Handling(j) /\ signal[j] = "cancelled"
  /\ LetGo(j)
  /\ pc' = [pc EXCEPT ![j] = "idle"]
  /\ UNCHANGED <<table, process, ticking, missed, bounds>>

ResultDelivered(j) ==
  /\ pc[j] = "delivering" /\ Yielded
  /\ DeliverySettles(j)
  /\ pc' = [pc EXCEPT ![j] = "idle"]
  /\ UNCHANGED <<status, retries, backoff, tries, overdue, run, process, signal,
                 entries, ticking, handled, missed, bounds>>

-----------------------------------------------------------------------------
(* Time.  Timers wait for the process to yield; the clock does not. *)

TimeoutFires(j) ==
  /\ Yielded
  /\ j \in entries \ Managed /\ signal[j] = "live"
  /\ signal' = [signal EXCEPT ![j] = "aborted"]
  /\ UNCHANGED <<table, process, pc, entries, ticking, missed, bounds>>

\* Half as long again after the timeout the row is still running.
BecomesOverdue(j) ==
  /\ Yielded
  /\ j \in Stubborn \ (Managed \union overdue)
  /\ status[j] = "running" /\ signal[j] = "aborted"
  /\ overdue' = overdue \union {j}
  /\ UNCHANGED <<status, retries, backoff, delivery, tries, deliveryBackoff, run,
                 process, handlers, ticking, handled, missed, bounds>>

BackoffOver(j) ==
  /\ j \in backoff
  /\ backoff' = backoff \ {j}
  /\ UNCHANGED <<status, retries, delivery, tries, deliveryBackoff, overdue, run,
                 process, handlers, ticking, handled, missed, bounds>>

DeliveryBackoffOver(j) ==
  /\ j \in deliveryBackoff
  /\ deliveryBackoff' = deliveryBackoff \ {j}
  /\ UNCHANGED <<status, retries, backoff, delivery, tries, overdue, run, process,
                 handlers, ticking, handled, missed, bounds>>

-----------------------------------------------------------------------------
(* Cancellation of the cron task, and ends of the process. *)

\* cascadeCancelCronTask(): one transaction, then the abort signals.
CascadeCancelCronTask ==
  /\ Yielded
  /\ cancels < MaxCancels
  /\ cancels' = cancels + 1
  /\ LET rows == {j \in CronJobs : status[j] \notin Ended \union {"absent"}}
     IN  /\ status' = Write(status, rows, "cancelled")
         /\ delivery' = Write(delivery, rows, "none")
         /\ backoff' = backoff \ rows
         /\ deliveryBackoff' = deliveryBackoff \ rows
         /\ overdue' = overdue \ rows
         /\ run' = Write(run, {j \in rows : run[j] \notin Ended}, "cancelled")
         /\ missed' = [j \in Jobs |-> IF j \notin rows THEN missed[j]
                                      ELSE IF run[j] \in Ended THEN "cancelled" ELSE "none"]
         /\ signal' = Write(signal, {j \in rows \intersect entries : signal[j] = "live"},
                            "cancelled")
  /\ UNCHANGED <<retries, tries, process, pc, entries, ticking, handled, restarts>>

\* The bound on ends of the process; what stop() began counts once.
EndsProcess ==
  IF process = "up" THEN restarts < MaxRestarts /\ restarts' = restarts + 1
                    ELSE UNCHANGED restarts

Stop ==
  /\ process = "up" /\ Yielded
  /\ EndsProcess
  /\ process' = "stopped"
  /\ signal' = Write(signal, {j \in entries : signal[j] = "live"}, "aborted")
  /\ entries' = {}
  /\ UNCHANGED <<table, pc, ticking, missed, cancels>>

MemoryLost ==
  /\ process' = "down"
  /\ pc' = [j \in Jobs |-> "idle"] /\ signal' = [j \in Jobs |-> "none"] /\ entries' = {}
  /\ tick' = "idle" /\ snapshot' = {} /\ outbox' = {} /\ parcel' = None

\* A crash, or the end of a shutdown, between two steps.
Exit ==
  /\ process # "down"
  /\ EndsProcess
  /\ MemoryLost
  /\ UNCHANGED <<table, missed, cancels>>

\* The end comes in the middle of checkTimeouts(): failTask() has written the
\* row of j, failCronRun() its run or not, and older stale rows are done.
ExitSweeping(j) ==
  /\ process = "up" /\ tick = "idle" /\ j \in Stale
  /\ EndsProcess /\ MemoryLost
  /\ \E done \in SUBSET (Stale \ {j}), told \in BOOLEAN :
       LET failed == done \union {j}
           written == (IF told THEN failed ELSE done) \intersect CronJobs
       IN  /\ status' = Write(status, failed, "failed")
           /\ delivery' = Write(delivery, failed, "pending")
           /\ deliveryBackoff' = deliveryBackoff \ failed
           /\ overdue' = overdue \ failed
           /\ run' = Write(run, written, "failed")
           /\ missed' = Write(Write(missed, written, "none"), ({j} \intersect CronJobs) \ written, "failed")
  /\ UNCHANGED <<retries, backoff, tries, handled, cancels>>

\* ... among the jobs a tick starts: the older ones are under way, and of j the
\* row is claimed, or failed for want of a handler; its run is told or not.
ExitStarting(j) ==
  /\ tick = "running" /\ outbox = {} /\ j \in Claimed
  /\ EndsProcess /\ MemoryLost
  /\ LET older == {i \in Claimed : i < j}
         orphan == older \ handled
     IN  \E last \in {"running", AfterStart(j)}, told \in BOOLEAN :
           /\ status' = [StatusStarted(older) EXCEPT ![j] = last]
           /\ run' = [RunStarted(older) EXCEPT ![j] = IF j \notin CronJobs THEN @
                                                     ELSE IF told THEN last
                                                     ELSE IF last = "failed" THEN "running" ELSE @]
           /\ missed' = Write(Write(missed, older \intersect CronJobs, "none"),
                              {j} \intersect CronJobs, IF told THEN "none" ELSE last)
           /\ delivery' = [Write(delivery, orphan, "delivering") EXCEPT ![j] =
                             IF last = "failed" THEN "pending" ELSE @]
           /\ tries' = [i \in Jobs |-> IF i \in orphan THEN tries[i] + 1 ELSE tries[i]]
           /\ backoff' = backoff \ (older \union {j})
           /\ deliveryBackoff' = deliveryBackoff \ (orphan \union {i \in {j} : last = "failed"})
           /\ overdue' = overdue \ (older \union {j})
  /\ UNCHANGED <<retries, handled, cancels>>

\* ... after completeTask() or failTask(), before the delivery is claimed; the
\* cron run is told or not.
ExitConcluding(j) ==
  /\ Handling(j) /\ signal[j] # "cancelled"
  /\ EndsProcess /\ MemoryLost
  /\ \E end \in {"completed", "failed"} :
       /\ status' = [status EXCEPT ![j] = end]
       /\ WriteRun({j}, end) \/ RunMisses(j, end)
  /\ delivery' = [delivery EXCEPT ![j] = "pending"]
  /\ backoff' = backoff \ {j} /\ deliveryBackoff' = deliveryBackoff \ {j}
  /\ overdue' = overdue \ {j}
  /\ UNCHANGED <<retries, tries, handled, cancels>>

\* ... between markRetrying() and markCronRunRetrying().
ExitRetrying(j) ==
  /\ Handling(j) /\ signal[j] # "cancelled" /\ Retryable(j)
  /\ EndsProcess /\ MemoryLost
  /\ status' = [status EXCEPT ![j] = "retrying"]
  /\ retries' = [retries EXCEPT ![j] = @ + 1]
  /\ RunMisses(j, "retrying")
  /\ backoff' = backoff \union {j}
  /\ overdue' = overdue \ {j}
  /\ UNCHANGED <<delivery, tries, deliveryBackoff, handled, cancels>>

\* recoverOrphanedBackgroundTasks()
RecoverOrphaned ==
  LET orphans == {j \in Jobs : status[j] = "running"}
  IN  /\ status' = Write(status, orphans, "retrying")
      /\ backoff' = backoff \ orphans
      /\ overdue' = overdue \ orphans

\* start() of the next process.
Restart ==
  /\ process = "down"
  /\ process' = "up"
  /\ RecoverOrphaned
  /\ UNCHANGED <<retries, delivery, tries, deliveryBackoff, run, handlers, ticking,
                 handled, missed, bounds>>

-----------------------------------------------------------------------------
TickActs == Tick \/ (\E j \in Jobs : SendNext(j)) \/ TickDelivered \/ StartJobs

HandlerActs(j) ==
  \/ HandlerResolves(j) \/ HandlerRetries(j) \/ HandlerFails(j) \/ HandlerCancelled(j)
  \/ ResultDelivered(j)

Next ==
  \/ TickActs
  \/ \E j \in Jobs : \/ AddJob(j) \/ HandlerActs(j)
                     \/ TimeoutFires(j) \/ BecomesOverdue(j)
                     \/ BackoffOver(j) \/ DeliveryBackoffOver(j)
                     \/ ExitSweeping(j) \/ ExitStarting(j)
                     \/ ExitConcluding(j) \/ ExitRetrying(j)
  \/ CascadeCancelCronTask \/ Stop \/ Exit \/ Restart

\* The interval ticks, handlers and deliveries settle, delays elapse and a
\* supervisor starts the process again; nothing has to crash or be cancelled.
\* A settled promise continues when the process yields, which it does between
\* ticks again and again: hence strong fairness.
Spec == /\ Init /\ [][Next]_vars
        /\ WF_vars(TickActs) /\ WF_vars(Restart)
        /\ WF_vars(process = "stopped" /\ Exit)
        /\ \A j \in Jobs : /\ SF_vars(HandlerActs(j))
                           /\ WF_vars(BackoffOver(j)) /\ WF_vars(DeliveryBackoffOver(j))

-----------------------------------------------------------------------------
(* What the runner promises. *)

\* Every variable keeps its shape, and no row its retries beyond max_retries.
TypeOK ==
  /\ status \in [Jobs -> {"absent", "pending", "running", "retrying"} \union Ended]
  /\ retries \in [Jobs -> 0 .. MaxRetries]
  /\ delivery \in [Jobs -> {"none", "pending", "delivering", "retrying", "delivered", "failed"}]
  /\ tries \in [Jobs -> Nat]
  /\ backoff \subseteq Jobs /\ deliveryBackoff \subseteq Jobs /\ overdue \subseteq Jobs
  /\ run \in [Jobs -> {"none", "queued", "running", "retrying"} \union Ended]
  /\ process \in {"up", "stopped", "down"}
  /\ pc \in [Jobs -> {"idle", "handling", "delivering"}]
  /\ signal \in [Jobs -> {"none", "live", "aborted", "cancelled"}]
  /\ entries \subseteq Jobs
  /\ tick \in {"idle", "running", "delivering"}
  /\ snapshot \subseteq Jobs /\ outbox \subseteq Jobs /\ parcel \in Jobs \union {None}
  /\ handled \subseteq Jobs
  /\ missed \in [Jobs -> {"none", "running", "retrying"} \union Ended]
  /\ cancels \in Nat /\ restarts \in Nat

\* A job is not handed to a handler while an earlier handler of the same job
\* is still at work: not after a timeout, a sweep, a retry or a shutdown.
OneHandlerPerJob ==
  [][\A j \in Jobs :
       status[j] # "running" /\ status'[j] = "running" => pc[j] = "idle"]_vars

\* Nothing is left running that no one will ever finish.
RunningIsHandled ==
  process # "down" => \A j \in Jobs : status[j] = "running" => pc[j] = "handling"

\* The limit, for rows that have not been failed over their handlers' heads.
ConcurrencyBound ==
  process = "up" =>
    Cardinality({j \in Jobs : pc[j] = "handling" /\ status[j] # "failed"}) <= MaxConcurrent

\* Every running row of a live process has a handler, through crashes, sweeps
\* and cancellations, and until the runner is stopped no more than
\* MAX_CONCURRENT_TASKS handlers are at work, whatever the tick awaits.
WorkInHand == RunningIsHandled /\ ConcurrencyBound

\* runner.ts:60: "late handlers cannot make cancelled work retryable again".
CancelledStaysCancelled ==
  [][\A j \in Jobs : status[j] = "cancelled" => status'[j] = "cancelled"]_vars

\* A row that has ended stays as it ended.  Sending a result again, also after
\* a crash, never runs the handler again (runner.ts:225): only the late answer
\* of a handler the sweep has let go of can change a completed or failed row.
\* Cancelled work never comes back, unless the timeout had aborted its signal
\* before (see CancelledStaysCancelled).
OutcomeIsFinal ==
  [][\A j \in Jobs :
       \/ status[j] \in {"completed", "failed"} /\ pc[j] # "handling"
       \/ status[j] = "cancelled" /\ signal[j] # "aborted"
         => status'[j] = status[j]]_vars

\* What a run shows of its job.
RunOf(j) ==
  CASE status[j] = "absent" -> "none"
    [] status[j] = "pending" -> "queued"
    [] OTHER -> status[j]

\* A cron run agrees with its job, but for one status it was not told because
\* the process ended between the two writes: with that one it agrees too.  (A
\* job requeued after a crash is still shown as running.)  Until a process has
\* ended a run misses nothing, starting the job tells it again, and a run never
\* shows as completed when its job is not.
RunAgreesWithJob ==
  \A j \in CronJobs :
    /\ LET told == IF missed[j] = "none" THEN run[j] ELSE missed[j]
       IN  \/ told = RunOf(j)
           \/ told = "running" /\ status[j] = "retrying" /\ restarts > 0
    /\ missed[j] # "none" => pc[j] = "idle" /\ restarts > 0
    /\ run[j] = "completed" => status[j] = "completed"

\* The process died with the delivery under way.
DeliveryOrphaned(j) ==
  delivery[j] = "delivering" /\ pc[j] # "delivering" /\ parcel # j

\* Every job ends, through retries, timeouts and restarts: it is cancelled, or
\* its outcome is delivered or given up after its attempts, if no crash fell
\* into the delivery.
OutcomesDelivered ==
  \A j \in Jobs :
    status[j] # "absent"
      ~> \/ status[j] = "cancelled"
         \/ /\ status[j] \in {"completed", "failed"}
            /\ delivery[j] \in {"delivered", "failed"} \/ DeliveryOrphaned(j)
=============================================================================
