------------------------------ MODULE CronTasks ------------------------------
(***************************************************************************)
(* scheduler/cron-tasks.ts: scheduled tasks and the background jobs they   *)
(* queue.  A job goes through the statuses BackgroundRunner gives it; here *)
(* it is taken from its table row only, in the order of its runs.          *)
(*                                                                         *)
(* Times are not numbers: a next_run_at is ahead or due.  Every operation  *)
(* is one transaction, or synchronous; deleting a task awaits in between.  *)
(***************************************************************************)
EXTENDS Integers, Sequences, FiniteSets

CONSTANTS Crons,          \* ids of cron_tasks, none used twice
          Managed,        \* those whose handler is managed_brain
          MaxRuns,        \* bound: runs of a task (a due one may add one more)
          MaxJobRetries   \* max_retries of the background jobs

VARIABLES rows,       \* ids that have a row in cron_tasks
          cron,       \* the row: kind, delete_after_run, enabled, next_run_at, last_status
          past,       \* 'at' tasks whose time has gone by
          jobs,       \* the background jobs of each task, oldest first
          deleting,   \* delete requests between cascadeCancelCronTask() and cancelCronTask()
          torn        \* history: tasks not told of the end of a run, nor of anything since

cronVars == <<rows, cron, past, jobs, deleting, torn>>

Live == {"pending", "running", "retrying"}
Ended == {"completed", "failed", "cancelled"}

CronRow == [kind : {"none", "at", "recurring"}, once : BOOLEAN, enabled : BOOLEAN,
            next : {"none", "ahead", "due"}, last : {"none", "completed", "failed", "queued"} \union Live]
Job == [status : Live \union Ended, retries : 0 .. MaxJobRetries,
        origin : {"schedule", "manual"}]

NoRow == [kind |-> "none", once |-> FALSE, enabled |-> FALSE, next |-> "none", last |-> "none"]

CronTypeOK ==
  /\ rows \subseteq Crons /\ deleting \subseteq Crons
  /\ past \subseteq Crons /\ torn \subseteq Crons
  /\ cron \in [Crons -> CronRow]
  /\ jobs \in [Crons -> Seq(Job)]
  /\ \A c \in Crons : Len(jobs[c]) <= MaxRuns + 1

CronInit ==
  /\ rows = {} /\ past = {} /\ deleting = {} /\ torn = {}
  /\ cron = [c \in Crons |-> NoRow]
  /\ jobs = [c \in Crons |-> <<>>]

LiveJobs(c) == {i \in DOMAIN jobs[c] : jobs[c][i].status \in Live}

\* Writes to last_status find no row once the task is deleted.
LastStatus(c, value) == IF c \in rows THEN [cron EXCEPT ![c].last = value] ELSE cron

TellTask(c, value) == cron' = LastStatus(c, value) /\ torn' = torn \ {c}

-----------------------------------------------------------------------------
(* What users do. *)

AddCronTask(c) ==
  /\ cron[c] = NoRow /\ c \notin rows
  /\ rows' = rows \union {c}
  /\ \E kind \in {"at", "recurring"}, once \in BOOLEAN :
       cron' = [cron EXCEPT ![c] = [kind |-> kind, once |-> once, enabled |-> TRUE,
                                    next |-> "ahead", last |-> "none"]]
  /\ UNCHANGED <<past, jobs, deleting, torn>>

\* Pausing forgets the next time; resuming needs one that is still to come, and
\* computes it from now on even when one was due.
SetCronTaskEnabled(c, on) ==
  /\ c \in rows
  /\ on => c \notin past
  /\ cron' = [cron EXCEPT ![c].enabled = on, ![c].next = IF on THEN "ahead" ELSE "none"]
  /\ UNCHANGED <<rows, past, jobs, deleting, torn>>

Queued(origin) == [status |-> "pending", retries |-> 0, origin |-> origin]

\* One explicit run, refused while a job of the task is live.
RunCronTaskNow(c) ==
  /\ c \in rows /\ LiveJobs(c) = {} /\ Len(jobs[c]) < MaxRuns
  /\ jobs' = [jobs EXCEPT ![c] = Append(@, Queued("manual"))]
  /\ TellTask(c, "queued")
  /\ UNCHANGED <<rows, past, deleting>>

\* cascadeCancelCronTask()
CascadeCancel(c) ==
  jobs' = [jobs EXCEPT ![c] =
             [i \in DOMAIN @ |-> IF i \in LiveJobs(c) THEN [@[i] EXCEPT !.status = "cancelled"]
                                 ELSE @[i]]]

\* Cancelling the turn of a scheduled session ends the run and keeps the task.
CancelRun(c) ==
  /\ c \in rows /\ LiveJobs(c) # {}
  /\ CascadeCancel(c)
  /\ UNCHANGED <<rows, cron, past, deleting, torn>>

DeleteBegins(c) ==
  /\ c \in rows \ deleting
  /\ CascadeCancel(c)
  /\ deleting' = deleting \union {c}
  /\ UNCHANGED <<rows, cron, past, torn>>

\* cancelCronTask(), once the cancellations of the cascade have been awaited.
DeleteEnds(c) ==
  /\ c \in deleting
  /\ rows' = rows \ {c}
  /\ deleting' = deleting \ {c}
  /\ UNCHANGED <<cron, past, jobs, torn>>

-----------------------------------------------------------------------------
(* The clock and the dispatch. *)

TimeComes(c) ==
  /\ c \in rows
  /\ \/ cron[c].next = "ahead" /\ Len(jobs[c]) < MaxRuns
     \/ cron[c].kind = "at" /\ cron[c].next = "none" /\ c \notin past
  /\ cron' = [cron EXCEPT ![c].next = IF @ = "ahead" THEN "due" ELSE @]
  /\ past' = IF cron[c].kind = "at" THEN past \union {c} ELSE past
  /\ UNCHANGED <<rows, jobs, deleting, torn>>

Due == {c \in rows : cron[c].enabled /\ cron[c].next = "due"}

\* Mutant: the row of a task that has fired once keeps its time.
CheckAndFire_AtKept ==
  /\ Due # {}
  /\ cron' = [c \in Crons |-> IF c \in Due THEN [cron[c] EXCEPT !.last = "queued"] ELSE cron[c]]
  /\ jobs' = [c \in Crons |-> IF c \in Due THEN Append(jobs[c], Queued("schedule")) ELSE jobs[c]]
  /\ torn' = torn \ Due
  /\ UNCHANGED <<rows, past, deleting>>

Fired(row) == [row EXCEPT !.next = IF row.kind = "at" THEN "none" ELSE "ahead",
                          !.enabled = row.kind # "at",
                          !.last = "queued"]

\* checkAndFireCronTasks(): all due tasks, without an await between them.  One whose
\* dispatch throws is left due and says so.
CheckAndFireCronTasks ==
  /\ Due # {}
  /\ \E fired \in SUBSET Due :
       /\ cron' = [c \in Crons |-> IF c \in fired THEN Fired(cron[c])
                                  ELSE IF c \in Due THEN [cron[c] EXCEPT !.last = "failed"] ELSE cron[c]]
       /\ jobs' = [c \in Crons |-> IF c \in fired THEN Append(jobs[c], Queued("schedule")) ELSE jobs[c]]
  /\ torn' = torn \ Due
  /\ UNCHANGED <<rows, past, deleting>>

-----------------------------------------------------------------------------
(* The jobs, as the runner moves them. *)

JobStatus(c, i, value) == jobs' = [jobs EXCEPT ![c][i].status = value]

\* A managed job opens the session of its run from the task's row.
RowMissing(c) == c \in Managed /\ c \notin rows

\* markCronRunStarted()
StartJob(c, i) ==
  /\ jobs[c][i].status \in {"pending", "retrying"} /\ ~RowMissing(c)
  /\ JobStatus(c, i, "running")
  /\ TellTask(c, "running")
  /\ UNCHANGED <<rows, past, deleting>>

Retried(job) == [status |-> "retrying", retries |-> job.retries + 1, origin |-> job.origin]

\* An error: again as long as retries are left, but not after a permanent one
\* or when the stale sweep fails the row.
Rejected(c, i) ==
  \/ /\ jobs[c][i].retries < MaxJobRetries
     /\ jobs' = [jobs EXCEPT ![c][i] = Retried(@)]
     /\ TellTask(c, "retrying")
  \/ /\ JobStatus(c, i, "failed")
     /\ TellTask(c, "failed")

\* openCronRunSession() throws before the handler's first await.
StartWithoutRow(c, i) ==
  /\ jobs[c][i].status \in {"pending", "retrying"} /\ RowMissing(c)
  /\ Rejected(c, i)
  /\ UNCHANGED <<rows, past, deleting>>

\* Mutant: the task does not hear of the failure of its run.
JobFails_TaskUntold(c, i) ==
  /\ jobs[c][i].status = "running"
  /\ \/ jobs[c][i].retries < MaxJobRetries /\ jobs' = [jobs EXCEPT ![c][i] = Retried(@)]
     \/ JobStatus(c, i, "failed")
  /\ UNCHANGED <<rows, cron, past, deleting, torn>>

\* markCronRunRetrying(), failCronRun()
JobFails(c, i) ==
  /\ jobs[c][i].status = "running"
  /\ Rejected(c, i)
  /\ UNCHANGED <<rows, past, deleting>>

\* completeCronRun()
JobCompletes(c, i) ==
  /\ jobs[c][i].status = "running"
  /\ JobStatus(c, i, "completed")
  /\ TellTask(c, "completed")
  /\ rows' = IF cron[c].once THEN rows \ {c} ELSE rows
  /\ UNCHANGED <<past, deleting>>

-----------------------------------------------------------------------------
(* The process ends and a new one starts. *)

Requeued(queue) ==
  [i \in DOMAIN queue |->
     IF queue[i].status = "running" THEN [queue[i] EXCEPT !.status = "retrying"] ELSE queue[i]]

CronRestart ==
  /\ jobs' = [c \in Crons |-> Requeued(jobs[c])]
  /\ deleting' = {}
  /\ UNCHANGED <<rows, cron, past, torn>>

\* It ended when a job's row was written and its task not told: claimed, put back
\* for a retry, or ended (also between the two updates of failCronRun()).
UntoldRow(job, row) ==
  \/ job.status \in {"pending", "retrying"} /\ row = [job EXCEPT !.status = "running"]
  \/ /\ job.status = "running"
     /\ \/ job.retries < MaxJobRetries /\ row = Retried(job)
        \/ \E end \in {"completed", "failed"} : row = [job EXCEPT !.status = end]

CronRestartTorn ==
  \E c \in Crons : \E i \in DOMAIN jobs[c], row \in Job :
    /\ UntoldRow(jobs[c][i], row)
    /\ jobs' = [d \in Crons |->
                  Requeued(IF d = c THEN [jobs[c] EXCEPT ![i] = row] ELSE jobs[d])]
    /\ torn' = IF row.status \in Ended THEN torn \union {c} ELSE torn
    /\ deleting' = {}
    /\ UNCHANGED <<rows, cron, past>>

-----------------------------------------------------------------------------
JobActs(c) ==
  \E i \in DOMAIN jobs[c] :
    StartJob(c, i) \/ StartWithoutRow(c, i) \/ JobFails(c, i) \/ JobCompletes(c, i)

CronNext ==
  \/ CheckAndFireCronTasks
  \/ \E c \in Crons :
       \/ AddCronTask(c) \/ (\E on \in BOOLEAN : SetCronTaskEnabled(c, on))
       \/ RunCronTaskNow(c) \/ CancelRun(c) \/ DeleteBegins(c) \/ DeleteEnds(c)
       \/ TimeComes(c) \/ JobActs(c)
=============================================================================
