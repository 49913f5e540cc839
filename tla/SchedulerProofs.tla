--------------------------- MODULE SchedulerProofs ---------------------------
(***************************************************************************)
(* However often tasks are paused, run by hand, deleted and cut short by   *)
(* the end of the process: proofs of the invariants of Scheduler.          *)
(***************************************************************************)
EXTENDS Scheduler, FiniteSetTheorems, SequenceTheorems, TLAPS

-----------------------------------------------------------------------------
(* The inductive invariant. *)

\* Jobs a task's own time has started.
ScheduledRuns(c) == {i \in DOMAIN jobs[c] : jobs[c][i].origin = "schedule"}

\* An id that was never added has no row, no job and no time behind it; a due task
\* has room for the run it is due for.
RowsKnown ==
  \A c \in Crons :
    /\ cron[c].kind = "none" => c \notin rows /\ c \notin past /\ jobs[c] = <<>>
    /\ cron[c].next = "due" => Len(jobs[c]) <= MaxRuns

\* What the row of a task of kind 'at' says of its time: once that has gone by
\* there is no way back to "ahead", and once it has fired there is no next time.
TimeGone ==
  \A c \in Crons :
    cron[c].kind = "at" =>
      /\ cron[c].next = "ahead" => c \notin past
      /\ cron[c].next = "due" => c \in past
      /\ ScheduledRuns(c) # {} => c \in past /\ cron[c].next = "none"

\* A task of kind 'at' is fired by its time once.
FiredByTimeOnce ==
  \A c \in Crons : cron[c].kind = "at" => Cardinality(ScheduledRuns(c)) <= 1

CronInv == CronTypeOK /\ RowsKnown /\ TimeGone /\ FiredByTimeOnce /\ LastStatusIsTrue

\* A round holds one claim; a claim that no round holds was cut short by the end
\* of its process, and only such an end may add an attempt or a message.
Claims ==
  /\ round <=> sending # NoReminder
  /\ sending \in Reminders => reminder[sending] \in {"delivering", "deleted"}
  /\ \A r \in Reminders :
       /\ reminder[r] \in {"absent", "pending"} => attempts[r] = 0
       /\ reminder[r] = "retrying" => attempts[r] < MaxAttempts + restarts
       /\ reminder[r] = "delivering" /\ r # sending => attempts[r] < MaxAttempts + restarts
       /\ reminder[r] \notin {"delivered", "deleted"} \/ r = sending => sent[r] <= restarts

ReminderTypeOK ==
  /\ reminder \in [Reminders -> {"absent", "pending", "delivering", "retrying"} \union Over]
  /\ attempts \in [Reminders -> 0 .. MaxAttempts + restarts]
  /\ later \subseteq Reminders /\ stale \subseteq Reminders /\ due \subseteq Reminders
  /\ round \in BOOLEAN /\ sending \in Reminders \union {NoReminder}
  /\ sent \in [Reminders -> Nat]

SentOnce == \A r \in Reminders : sent[r] <= 1 + restarts

ReminderInv == ReminderTypeOK /\ Claims /\ SentOnce

IInv == CronInv /\ ReminderInv /\ restarts \in 0 .. MaxRestarts

-----------------------------------------------------------------------------
(* What the actions do to the jobs of a task. *)

\* The jobs of d are the same runs as before, cancelled ones still cancelled.
SameRuns(d) ==
  /\ DOMAIN jobs'[d] = DOMAIN jobs[d]
  /\ \A i \in DOMAIN jobs[d] :
       /\ jobs'[d][i].origin = jobs[d][i].origin
       /\ jobs[d][i].status = "cancelled" => jobs'[d][i].status = "cancelled"

\* The jobs keep their types, and the runs their number.
KeepsRuns ==
  /\ jobs' \in [Crons -> Seq(Job)]
  /\ \A d \in Crons : Len(jobs'[d]) = Len(jobs[d]) /\ SameRuns(d)

\* One job of c moves on.
LEMMA JobWrites ==
  ASSUME CronTypeOK, NEW c \in Crons, NEW i \in DOMAIN jobs[c], NEW j \in Job,
         jobs[c][i].status # "cancelled", j.origin = jobs[c][i].origin,
         jobs' = [jobs EXCEPT ![c] = [jobs[c] EXCEPT ![i] = j]]
  PROVE  /\ KeepsRuns /\ jobs'[c][i] = j
         /\ \A d \in Crons \ {c} : jobs'[d] = jobs[d]
         /\ \A k \in DOMAIN jobs[c] \ {i} : jobs'[c][k] = jobs[c][k]
<1>1. jobs \in [Crons -> Seq(Job)] /\ jobs[c] \in Seq(Job)
  BY DEF CronTypeOK
<1> DEFINE new == [jobs[c] EXCEPT ![i] = j]
<1>2. new \in Seq(Job) /\ Len(new) = Len(jobs[c]) /\ DOMAIN new = DOMAIN jobs[c]
  BY <1>1
<1>3. new[i] = j /\ \A k \in DOMAIN jobs[c] \ {i} : new[k] = jobs[c][k]
  BY <1>1
<1>4. jobs'[c] = new /\ \A d \in Crons \ {c} : jobs'[d] = jobs[d]
  BY <1>1
<1> HIDE DEF new
<1>5. jobs' \in [Crons -> Seq(Job)]
  <2>1. jobs' = [d \in Crons |-> IF d = c THEN new ELSE jobs[d]]
    BY <1>1 DEF new
  <2> QED
    BY <1>1, <1>2, <2>1
<1>6. SameRuns(c)
  BY <1>2, <1>3, <1>4 DEF SameRuns
<1>7. \A d \in Crons \ {c} : SameRuns(d)
  BY <1>4 DEF SameRuns
<1> QED
  BY <1>2, <1>3, <1>4, <1>5, <1>6, <1>7 DEF KeepsRuns

\* What a step of the runner does: a live job moves on, its task is told its new
\* status, and a task that is deleted after its run may lose its row.
LEMMA JobMoves ==
  ASSUME CronTypeOK, NEW c \in Crons, JobActs(c)
  PROVE  \E i \in DOMAIN jobs[c], j \in Job :
           /\ jobs[c][i].status \in Live /\ j.origin = jobs[c][i].origin
           /\ jobs' = [jobs EXCEPT ![c] = [jobs[c] EXCEPT ![i] = j]]
           /\ j.status \in {"running", "retrying", "failed", "completed"}
           /\ cron' = LastStatus(c, j.status)
           /\ rows' \subseteq rows /\ torn' = torn \ {c} /\ UNCHANGED <<past, deleting>>
<1>1. jobs \in [Crons -> Seq(Job)] /\ MaxJobRetries \in Nat
  BY SchedulerAssumption DEF CronTypeOK
<1>2. PICK i \in DOMAIN jobs[c] : StartJob(c, i) \/ StartWithoutRow(c, i) \/ JobFails(c, i) \/ JobCompletes(c, i)
  BY DEF JobActs
<1>3. jobs[c][i] \in Job /\ jobs[c] \in Seq(Job)
  BY <1>1
<1> DEFINE Moved(v) == [status |-> v, retries |-> jobs[c][i].retries, origin |-> jobs[c][i].origin]
<1>4. \A v \in Live \union Ended : Moved(v) \in Job /\ [jobs[c][i] EXCEPT !.status = v] = Moved(v)
  BY <1>3 DEF Job
<1>5. jobs[c][i].retries < MaxJobRetries => Retried(jobs[c][i]) \in Job
  BY <1>1, <1>3 DEF Job, Live, Retried
<1>6. \A v \in Live \union Ended : JobStatus(c, i, v) => jobs' = [jobs EXCEPT ![c] = [jobs[c] EXCEPT ![i] = Moved(v)]]
  BY <1>1, <1>3, <1>4 DEF JobStatus
<1>7. jobs' = [jobs EXCEPT ![c][i] = Retried(@)]
        => jobs' = [jobs EXCEPT ![c] = [jobs[c] EXCEPT ![i] = Retried(jobs[c][i])]]
  BY <1>1, <1>3
<1>8. Rejected(c, i) =>
        \E j \in Job : /\ j.origin = jobs[c][i].origin /\ j.status \in {"retrying", "failed"}
                       /\ jobs' = [jobs EXCEPT ![c] = [jobs[c] EXCEPT ![i] = j]]
                       /\ cron' = LastStatus(c, j.status) /\ torn' = torn \ {c}
  <2>1. CASE jobs[c][i].retries < MaxJobRetries /\ jobs' = [jobs EXCEPT ![c][i] = Retried(@)] /\ TellTask(c, "retrying")
    <3>1. Retried(jobs[c][i]).origin = jobs[c][i].origin /\ Retried(jobs[c][i]).status = "retrying"
      BY DEF Retried
    <3> QED
      BY <1>5, <1>7, <2>1, <3>1 DEF TellTask
  <2>2. CASE JobStatus(c, i, "failed") /\ TellTask(c, "failed")
    <3>1. Moved("failed").origin = jobs[c][i].origin /\ Moved("failed").status = "failed"
      OBVIOUS
    <3>2. "failed" \in Live \union Ended
      BY DEF Ended
    <3> HIDE DEF Moved
    <3> QED
      BY <1>4, <1>6, <2>2, <3>1, <3>2 DEF TellTask
  <2> QED
    BY <2>1, <2>2 DEF Rejected
<1>9. \A v \in {"running", "completed"} : JobStatus(c, i, v) =>
        \E j \in Job : /\ j.origin = jobs[c][i].origin /\ j.status = v
                       /\ jobs' = [jobs EXCEPT ![c] = [jobs[c] EXCEPT ![i] = j]]
  <2>1. \A v : Moved(v).origin = jobs[c][i].origin /\ Moved(v).status = v
    OBVIOUS
  <2>2. {"running", "completed"} \subseteq Live \union Ended
    BY DEF Live, Ended
  <2> HIDE DEF Moved
  <2> QED
    BY <1>4, <1>6, <2>1, <2>2
<1> HIDE DEF Moved
<1>10. CASE StartJob(c, i)
  BY <1>9, <1>10 DEF StartJob, TellTask, Live
<1>11. CASE StartWithoutRow(c, i)
  BY <1>8, <1>11 DEF StartWithoutRow, Live
<1>12. CASE JobFails(c, i)
  BY <1>8, <1>12 DEF JobFails, Live
<1>13. CASE JobCompletes(c, i)
  BY <1>9, <1>13 DEF JobCompletes, TellTask, Live
<1> QED
  BY <1>2, <1>10, <1>11, <1>12, <1>13

\* A cascade cancels the live jobs of a task, and only those.
LEMMA CascadeWrites ==
  ASSUME CronTypeOK, NEW c \in Crons, CascadeCancel(c)
  PROVE  /\ KeepsRuns
         /\ \A i \in LiveJobs(c) : jobs'[c][i].status = "cancelled"
         /\ \A d \in Crons : d # c \/ LiveJobs(c) = {} => jobs'[d] = jobs[d]
<1>1. jobs \in [Crons -> Seq(Job)] /\ jobs[c] \in Seq(Job)
  BY DEF CronTypeOK
<1> DEFINE new == [i \in DOMAIN jobs[c] |-> IF i \in LiveJobs(c) THEN [jobs[c][i] EXCEPT !.status = "cancelled"]
                                            ELSE jobs[c][i]]
<1>2. \A i \in DOMAIN jobs[c] : new[i] \in Job /\ new[i].origin = jobs[c][i].origin
  <2> SUFFICES ASSUME NEW i \in DOMAIN jobs[c]
               PROVE  new[i] \in Job /\ new[i].origin = jobs[c][i].origin
    OBVIOUS
  <2>1. jobs[c][i] \in Job
    BY <1>1
  <2>2. /\ [jobs[c][i] EXCEPT !.status = "cancelled"] \in Job
        /\ [jobs[c][i] EXCEPT !.status = "cancelled"].origin = jobs[c][i].origin
    BY <2>1 DEF Job, Ended
  <2> QED
    BY <2>1, <2>2
<1>3. \A i \in DOMAIN jobs[c] :
        /\ i \in LiveJobs(c) => new[i].status = "cancelled"
        /\ i \notin LiveJobs(c) => new[i] = jobs[c][i]
  BY <1>1 DEF Job
<1>4. DOMAIN new = DOMAIN jobs[c]
  OBVIOUS
<1>5. new \in Seq(Job) /\ Len(new) = Len(jobs[c])
  <2>1. DOMAIN jobs[c] = 1 .. Len(jobs[c]) /\ Len(jobs[c]) \in Nat
    BY <1>1
  <2>2. new \in [1 .. Len(jobs[c]) -> Job]
    BY <1>2, <2>1
  <2> HIDE DEF new
  <2> QED
    BY <2>1, <2>2
<1>6. jobs' = [d \in Crons |-> IF d = c THEN new ELSE jobs[d]]
  BY <1>1 DEF CascadeCancel
<1>7. LiveJobs(c) = {} => new = jobs[c]
  <2> SUFFICES ASSUME LiveJobs(c) = {} PROVE new = jobs[c]
    OBVIOUS
  <2>1. \A i \in DOMAIN jobs[c] : new[i] = jobs[c][i]
    BY <1>3
  <2>2. jobs[c] = [i \in DOMAIN jobs[c] |-> jobs[c][i]]
    BY <1>1
  <2> QED
    BY <2>1, <2>2
<1>8. LiveJobs(c) \subseteq DOMAIN jobs[c]
  BY DEF LiveJobs
<1>9. \A i \in DOMAIN jobs[c] : jobs[c][i].status = "cancelled" => i \notin LiveJobs(c)
  BY DEF LiveJobs, Live
<1> HIDE DEF new
<1>10. jobs' \in [Crons -> Seq(Job)] /\ \A d \in Crons : Len(jobs'[d]) = Len(jobs[d])
  BY <1>1, <1>5, <1>6
<1>11. \A d \in Crons : SameRuns(d)
  BY <1>2, <1>3, <1>4, <1>6, <1>9 DEF SameRuns
<1> QED
  BY <1>3, <1>6, <1>7, <1>8, <1>10, <1>11 DEF KeepsRuns

\* The runs a boot finds running it puts back; they stay alive.
LEMMA RequeueWrites ==
  ASSUME NEW q \in Seq(Job)
  PROVE  /\ Requeued(q) \in Seq(Job) /\ Len(Requeued(q)) = Len(q) /\ DOMAIN Requeued(q) = DOMAIN q
         /\ \A i \in DOMAIN q :
              /\ Requeued(q)[i].origin = q[i].origin
              /\ q[i].status \in Live <=> Requeued(q)[i].status \in Live
              /\ q[i].status = "cancelled" <=> Requeued(q)[i].status = "cancelled"
<1>1. DOMAIN q = 1 .. Len(q) /\ Len(q) \in Nat
  OBVIOUS
<1>2. \A i \in DOMAIN q : q[i] \in Job
  OBVIOUS
<1>3. \A i \in DOMAIN q :
        /\ Requeued(q)[i] \in Job /\ Requeued(q)[i].origin = q[i].origin
        /\ q[i].status \in Live <=> Requeued(q)[i].status \in Live
        /\ q[i].status = "cancelled" <=> Requeued(q)[i].status = "cancelled"
  BY <1>2 DEF Requeued, Job, Live
<1>4. Requeued(q) \in [1 .. Len(q) -> Job]
  BY <1>1, <1>3 DEF Requeued
<1>5. DOMAIN Requeued(q) = DOMAIN q
  BY DEF Requeued
<1> QED
  BY <1>1, <1>3, <1>4, <1>5

-----------------------------------------------------------------------------
(* What the actions do to the rows of tasks. *)

\* A write to last_status touches nothing else.
LEMMA LastWrites ==
  ASSUME CronTypeOK, NEW c \in Crons, NEW v \in {"running", "retrying", "failed", "completed", "queued"},
         cron' = LastStatus(c, v)
  PROVE  /\ cron' \in [Crons -> CronRow]
         /\ \A d \in Crons : cron'[d].kind = cron[d].kind /\ cron'[d].next = cron[d].next
         /\ \A d \in Crons \ {c} : cron'[d] = cron[d]
         /\ c \in rows => cron'[c].last = v
<1>1. cron \in [Crons -> CronRow]
  BY DEF CronTypeOK
<1>2. CASE c \in rows
  <2>1. cron' = [cron EXCEPT ![c].last = v]
    BY <1>2 DEF LastStatus
  <2>2. v \in {"none", "completed", "failed", "queued"} \union Live
    BY DEF Live
  <2>3. cron' \in [Crons -> CronRow]
    BY <1>1, <2>1, <2>2 DEF CronRow
  <2> QED
    BY <1>1, <2>1, <2>3 DEF CronRow
<1>3. CASE c \notin rows
  BY <1>1, <1>3 DEF LastStatus
<1> QED
  BY <1>2, <1>3

\* What the resume or the pause of a task writes.
LEMMA EnabledWrites ==
  ASSUME CronTypeOK, NEW c \in Crons, NEW on \in BOOLEAN, NEW next \in {"none", "ahead"},
         cron' = [cron EXCEPT ![c].enabled = on, ![c].next = next]
  PROVE  /\ cron' \in [Crons -> CronRow]
         /\ cron'[c].kind = cron[c].kind /\ cron'[c].next = next /\ cron'[c].last = cron[c].last
         /\ \A d \in Crons \ {c} : cron'[d] = cron[d]
<1>1. cron \in [Crons -> CronRow]
  BY DEF CronTypeOK
<1> QED
  BY <1>1 DEF CronRow

\* What the dispatch of a due task writes.
LEMMA FiredWrites ==
  ASSUME NEW r \in CronRow
  PROVE  /\ Fired(r) \in CronRow /\ Fired(r).kind = r.kind /\ Fired(r).last = "queued"
         /\ Fired(r).next = (IF r.kind = "at" THEN "none" ELSE "ahead")
<1> DEFINE New(next, on) == [r EXCEPT !.next = next, !.enabled = on, !.last = "queued"]
<1>1. \A next \in {"none", "ahead"}, on \in BOOLEAN :
        /\ New(next, on) \in CronRow /\ New(next, on).kind = r.kind
        /\ New(next, on).next = next /\ New(next, on).last = "queued"
  BY DEF CronRow
<1>2. Fired(r) = New(IF r.kind = "at" THEN "none" ELSE "ahead", r.kind # "at")
  BY DEF Fired
<1> HIDE DEF New
<1>3. (r.kind # "at") \in BOOLEAN
  OBVIOUS
<1>4. (IF r.kind = "at" THEN "none" ELSE "ahead") \in {"none", "ahead"}
  OBVIOUS
<1> QED
  BY <1>1, <1>2, <1>3, <1>4, Zenon

\* A new run is queued behind the runs of its task.
LEMMA RunQueued ==
  ASSUME NEW q \in Seq(Job), NEW o \in {"schedule", "manual"}
  PROVE  LET new == Append(q, Queued(o))
         IN  /\ new \in Seq(Job) /\ Len(new) = Len(q) + 1
             /\ Len(q) + 1 \in DOMAIN new /\ DOMAIN new = DOMAIN q \union {Len(q) + 1} /\ Len(q) + 1 \notin DOMAIN q
             /\ new[Len(q) + 1].status = "pending" /\ new[Len(q) + 1].origin = o
             /\ \A i \in DOMAIN q : new[i] = q[i]
<1>1. Queued(o) \in Job
  BY SchedulerAssumption DEF Queued, Job, Live
<1>2. Queued(o).status = "pending" /\ Queued(o).origin = o
  BY DEF Queued
<1> QED
  BY <1>1, <1>2

\* The runs a task's own time has started are not added to where runs are kept.
LEMMA SameScheduled ==
  ASSUME NEW d \in Crons, SameRuns(d)
  PROVE  ScheduledRuns(d)' = ScheduledRuns(d)
BY DEF SameRuns, ScheduledRuns

-----------------------------------------------------------------------------
(* Runs that are kept: the tasks and their time. *)

Times == CronTypeOK /\ RowsKnown /\ TimeGone /\ FiredByTimeOnce

\* A step that adds no run, no row and no time keeps what is known of all three.
LEMMA RunsKept ==
  ASSUME Times, KeepsRuns, rows' \subseteq rows, past' = past,
         deleting' \subseteq Crons, torn' \subseteq Crons, cron' \in [Crons -> CronRow],
         \A d \in Crons : cron'[d].kind = cron[d].kind /\ cron'[d].next = cron[d].next
  PROVE  Times'
<1> USE DEF Times
<1>1. jobs \in [Crons -> Seq(Job)] /\ jobs' \in [Crons -> Seq(Job)]
  BY DEF CronTypeOK, KeepsRuns
<1>2. \A d \in Crons : Len(jobs'[d]) = Len(jobs[d]) /\ ScheduledRuns(d)' = ScheduledRuns(d)
  BY SameScheduled DEF KeepsRuns
<1>3. CronTypeOK'
  BY <1>1, <1>2 DEF CronTypeOK
<1>4. RowsKnown'
  <2>1. \A d \in Crons : jobs[d] = <<>> => jobs'[d] = <<>>
    BY <1>1, <1>2
  <2> QED
    BY <1>2, <2>1 DEF RowsKnown
<1>5. TimeGone'
  BY <1>2 DEF TimeGone
<1>6. FiredByTimeOnce'
  BY <1>2 DEF FiredByTimeOnce
<1> QED
  BY <1>3, <1>4, <1>5, <1>6

\* So does a step that leaves the jobs alone.
LEMMA RunsAlone ==
  ASSUME CronTypeOK, UNCHANGED jobs
  PROVE  KeepsRuns /\ \A d \in Crons : ScheduledRuns(d)' = ScheduledRuns(d)
BY DEF KeepsRuns, SameRuns, ScheduledRuns, CronTypeOK

LEMMA JobActsKeepsTimes ==
  ASSUME Times, NEW c \in Crons, JobActs(c)
  PROVE  Times'
<1>1. CronTypeOK
  BY DEF Times
<1>2. PICK i \in DOMAIN jobs[c], j \in Job :
        /\ jobs[c][i].status \in Live /\ j.origin = jobs[c][i].origin
        /\ jobs' = [jobs EXCEPT ![c] = [jobs[c] EXCEPT ![i] = j]]
        /\ j.status \in {"running", "retrying", "failed", "completed"}
        /\ cron' = LastStatus(c, j.status)
        /\ rows' \subseteq rows /\ torn' = torn \ {c} /\ UNCHANGED <<past, deleting>>
  BY <1>1, JobMoves
<1>3. KeepsRuns
  BY <1>1, <1>2, JobWrites DEF Live
<1>4. /\ cron' \in [Crons -> CronRow]
      /\ \A d \in Crons : cron'[d].kind = cron[d].kind /\ cron'[d].next = cron[d].next
  BY <1>1, <1>2, LastWrites
<1> QED
  BY <1>1, <1>2, <1>3, <1>4, RunsKept DEF CronTypeOK

LEMMA CascadeKeepsTimes ==
  ASSUME Times, NEW c \in Crons, CancelRun(c) \/ DeleteBegins(c)
  PROVE  Times'
<1>1. CronTypeOK
  BY DEF Times
<1>2. KeepsRuns
  BY <1>1, CascadeWrites DEF CancelRun, DeleteBegins
<1>3. UNCHANGED <<rows, cron, past, torn>> /\ deleting' \subseteq Crons
  BY <1>1 DEF CancelRun, DeleteBegins, CronTypeOK
<1> QED
  BY <1>1, <1>2, <1>3, RunsKept DEF CronTypeOK

LEMMA DeleteKeepsTimes ==
  ASSUME Times, NEW c \in Crons, DeleteEnds(c)
  PROVE  Times'
BY RunsKept, RunsAlone DEF Times, DeleteEnds, CronTypeOK

\* A new id has had no run, and its time is to come.
LEMMA AddKeepsTimes ==
  ASSUME Times, NEW c \in Crons, AddCronTask(c)
  PROVE  Times'
<1> USE DEF Times
<1>1. PICK kind \in {"at", "recurring"}, once \in BOOLEAN :
        cron' = [cron EXCEPT ![c] = [kind |-> kind, once |-> once, enabled |-> TRUE,
                                     next |-> "ahead", last |-> "none"]]
  BY DEF AddCronTask
<1>2. /\ rows' = rows \union {c} /\ UNCHANGED <<past, jobs, deleting, torn>>
      /\ cron[c].kind = "none"
  BY DEF AddCronTask, NoRow
<1>3. \A d \in Crons : ScheduledRuns(d)' = ScheduledRuns(d)
  BY <1>2, RunsAlone
<1>4. /\ cron'[c].kind # "none" /\ cron'[c].next = "ahead"
      /\ \A d \in Crons \ {c} : cron'[d] = cron[d]
  BY <1>1 DEF CronTypeOK
<1>5. ScheduledRuns(c) = {} /\ c \notin past
  BY <1>2 DEF RowsKnown, ScheduledRuns
<1>6. CronTypeOK'
  BY <1>1, <1>2 DEF CronTypeOK, CronRow
<1>7. RowsKnown'
  BY <1>2, <1>4 DEF RowsKnown
<1>8. TimeGone'
  BY <1>2, <1>3, <1>4, <1>5 DEF TimeGone
<1>9. FiredByTimeOnce'
  <2>1. Cardinality(ScheduledRuns(c)) = 0
    BY <1>5, FS_EmptySet
  <2> QED
    BY <1>3, <1>4, <2>1 DEF FiredByTimeOnce
<1> QED
  BY <1>6, <1>7, <1>8, <1>9

\* Who resumes a task whose time has gone by is refused: nothing comes back.
LEMMA EnableKeepsTimes ==
  ASSUME Times, NEW c \in Crons, NEW on \in BOOLEAN, SetCronTaskEnabled(c, on)
  PROVE  Times'
<1> USE DEF Times
<1> DEFINE next == IF on THEN "ahead" ELSE "none"
<1>1. /\ c \in rows /\ (on => c \notin past) /\ UNCHANGED <<rows, past, jobs, deleting, torn>>
      /\ cron' = [cron EXCEPT ![c].enabled = on, ![c].next = next]
  BY DEF SetCronTaskEnabled
<1>2. next \in {"none", "ahead"} /\ (on <=> next = "ahead")
  OBVIOUS
<1> HIDE DEF next
<1>3. /\ cron' \in [Crons -> CronRow]
      /\ cron'[c].kind = cron[c].kind /\ cron'[c].next = next
      /\ \A d \in Crons \ {c} : cron'[d] = cron[d]
  BY <1>1, <1>2, EnabledWrites
<1>4. \A d \in Crons : ScheduledRuns(d)' = ScheduledRuns(d)
  BY <1>1, RunsAlone
<1>5. CronTypeOK'
  BY <1>1, <1>3 DEF CronTypeOK
<1>6. RowsKnown'
  BY <1>1, <1>2, <1>3 DEF RowsKnown
<1>7. TimeGone'
  BY <1>1, <1>2, <1>3, <1>4 DEF TimeGone
<1>8. FiredByTimeOnce'
  BY <1>3, <1>4 DEF FiredByTimeOnce
<1> QED
  BY <1>5, <1>6, <1>7, <1>8

\* The time of a task of kind 'at' goes by when its row becomes due, or unnoticed
\* while the task is paused.
LEMMA TimeKeepsTimes ==
  ASSUME Times, NEW c \in Crons, TimeComes(c)
  PROVE  Times'
<1> USE DEF Times
<1> DEFINE next == IF cron[c].next = "ahead" THEN "due" ELSE cron[c].next
<1>1. c \in rows /\ UNCHANGED <<rows, jobs, deleting, torn>>
  BY DEF TimeComes
<1>2. cron' = [cron EXCEPT ![c].next = next]
  BY DEF TimeComes, CronTypeOK
<1>3. past' = IF cron[c].kind = "at" THEN past \union {c} ELSE past
  BY DEF TimeComes
<1>4. \/ cron[c].next = "ahead" /\ Len(jobs[c]) < MaxRuns
      \/ cron[c].kind = "at" /\ cron[c].next = "none" /\ c \notin past
  BY DEF TimeComes
<1>5. cron[c] \in CronRow /\ cron[c].next \in {"none", "ahead", "due"}
  BY DEF CronTypeOK, CronRow
<1>6. /\ next \in {"none", "due"}
      /\ next = "due" => cron[c].next = "ahead" /\ Len(jobs[c]) < MaxRuns
      /\ next = "none" => cron[c].next = "none"
  BY <1>4
<1> HIDE DEF next
<1>7. /\ cron' \in [Crons -> CronRow]
      /\ cron'[c].kind = cron[c].kind /\ cron'[c].next = next
      /\ \A d \in Crons \ {c} : cron'[d] = cron[d]
  BY <1>2, <1>6 DEF CronTypeOK, CronRow
<1>8. \A d \in Crons : ScheduledRuns(d)' = ScheduledRuns(d)
  BY <1>1, RunsAlone
<1>9. CronTypeOK'
  BY <1>1, <1>3, <1>7 DEF CronTypeOK
<1>10. RowsKnown'
  <2>1. Len(jobs[c]) \in Nat /\ MaxRuns \in Nat
    BY SchedulerAssumption DEF CronTypeOK
  <2> QED
    BY <1>1, <1>3, <1>6, <1>7, <2>1 DEF RowsKnown
<1>11. TimeGone'
  BY <1>1, <1>3, <1>4, <1>6, <1>7, <1>8 DEF TimeGone
<1>12. FiredByTimeOnce'
  BY <1>7, <1>8 DEF FiredByTimeOnce
<1> QED
  BY <1>9, <1>10, <1>11, <1>12

\* A run started by hand is none of the time's.
LEMMA RunNowKeepsTimes ==
  ASSUME Times, NEW c \in Crons, RunCronTaskNow(c)
  PROVE  Times'
<1> USE DEF Times
<1>1. /\ c \in rows /\ Len(jobs[c]) < MaxRuns /\ UNCHANGED <<rows, past, deleting>>
      /\ jobs' = [jobs EXCEPT ![c] = Append(jobs[c], Queued("manual"))]
      /\ cron' = LastStatus(c, "queued") /\ torn' = torn \ {c}
  BY DEF RunCronTaskNow, TellTask, LastStatus
<1>2. jobs \in [Crons -> Seq(Job)] /\ jobs[c] \in Seq(Job) /\ Len(jobs[c]) \in Nat /\ MaxRuns \in Nat
  BY SchedulerAssumption DEF CronTypeOK
<1> DEFINE new == Append(jobs[c], Queued("manual"))
<1>3. /\ new \in Seq(Job) /\ Len(new) = Len(jobs[c]) + 1
      /\ DOMAIN new = DOMAIN jobs[c] \union {Len(jobs[c]) + 1} /\ Len(jobs[c]) + 1 \notin DOMAIN jobs[c]
      /\ new[Len(jobs[c]) + 1].origin = "manual" /\ \A i \in DOMAIN jobs[c] : new[i] = jobs[c][i]
  BY <1>2, RunQueued
<1> HIDE DEF new
<1>4. jobs' \in [Crons -> Seq(Job)] /\ jobs'[c] = new /\ \A d \in Crons \ {c} : jobs'[d] = jobs[d]
  BY <1>1, <1>2, <1>3 DEF new
<1>5. /\ cron' \in [Crons -> CronRow]
      /\ \A d \in Crons : cron'[d].kind = cron[d].kind /\ cron'[d].next = cron[d].next
  BY <1>1, LastWrites
<1>6. \A d \in Crons : ScheduledRuns(d)' = ScheduledRuns(d)
  BY <1>3, <1>4 DEF ScheduledRuns
<1>7. CronTypeOK'
  BY <1>1, <1>2, <1>3, <1>4, <1>5 DEF CronTypeOK
<1>8. RowsKnown'
  <2>1. cron[c].kind # "none"
    BY <1>1 DEF RowsKnown
  <2>2. Len(jobs'[c]) <= MaxRuns
    BY <1>1, <1>2, <1>3, <1>4
  <2> QED
    BY <1>1, <1>4, <1>5, <2>1, <2>2 DEF RowsKnown
<1>9. TimeGone'
  BY <1>1, <1>5, <1>6 DEF TimeGone
<1>10. FiredByTimeOnce'
  BY <1>5, <1>6 DEF FiredByTimeOnce
<1> QED
  BY <1>7, <1>8, <1>9, <1>10

\* What a tick writes to the due tasks it fires and to those whose dispatch throws.
FiringWrites(fired) ==
  /\ \A d \in fired :
       /\ cron'[d].kind = cron[d].kind /\ cron'[d].last = "queued" /\ cron[d].next = "due"
       /\ cron'[d].next = (IF cron[d].kind = "at" THEN "none" ELSE "ahead")
       /\ jobs'[d] = Append(jobs[d], Queued("schedule"))
  /\ \A d \in Crons \ fired :
       /\ cron'[d].kind = cron[d].kind /\ cron'[d].next = cron[d].next /\ jobs'[d] = jobs[d]
       /\ IF d \in Due THEN cron'[d].last = "failed" ELSE cron'[d].last = cron[d].last

\* A due task is fired once, and one of kind 'at' has no time left then.
LEMMA FireWrites ==
  ASSUME Times, CheckAndFireCronTasks
  PROVE  /\ Due \subseteq rows /\ UNCHANGED <<rows, past, deleting>> /\ torn' = torn \ Due
         /\ cron' \in [Crons -> CronRow] /\ jobs' \in [Crons -> Seq(Job)]
         /\ \E fired \in SUBSET Due : FiringWrites(fired)
<1> USE DEF Times
<1>1. cron \in [Crons -> CronRow] /\ jobs \in [Crons -> Seq(Job)] /\ rows \subseteq Crons
  BY DEF CronTypeOK
<1>2. \A d \in Due : d \in Crons /\ cron[d].next = "due"
  BY <1>1 DEF Due
<1>3. PICK fired \in SUBSET Due :
        /\ cron' = [c \in Crons |-> IF c \in fired THEN Fired(cron[c])
                                   ELSE IF c \in Due THEN [cron[c] EXCEPT !.last = "failed"] ELSE cron[c]]
        /\ jobs' = [c \in Crons |-> IF c \in fired THEN Append(jobs[c], Queued("schedule")) ELSE jobs[c]]
  BY DEF CheckAndFireCronTasks
<1>4. \A d \in fired :
        /\ Fired(cron[d]) \in CronRow /\ Fired(cron[d]).kind = cron[d].kind /\ Fired(cron[d]).last = "queued"
        /\ Fired(cron[d]).next = (IF cron[d].kind = "at" THEN "none" ELSE "ahead")
  BY <1>1, <1>2, FiredWrites
<1>5. \A d \in Crons :
        LET said == [cron[d] EXCEPT !.last = "failed"]
        IN  said \in CronRow /\ said.kind = cron[d].kind /\ said.next = cron[d].next /\ said.last = "failed"
  BY <1>1 DEF CronRow
<1>6. \A d \in fired : Append(jobs[d], Queued("schedule")) \in Seq(Job)
  BY <1>1, <1>2, RunQueued
<1>7. cron' \in [Crons -> CronRow]
  BY <1>1, <1>3, <1>4, <1>5
<1>8. jobs' \in [Crons -> Seq(Job)]
  BY <1>1, <1>3, <1>6
<1>9. FiringWrites(fired)
  <2>1. \A d \in fired : d \in Crons /\ cron'[d] = Fired(cron[d]) /\ jobs'[d] = Append(jobs[d], Queued("schedule"))
    BY <1>2, <1>3
  <2>2. \A d \in Crons \ fired :
          cron'[d] = (IF d \in Due THEN [cron[d] EXCEPT !.last = "failed"] ELSE cron[d]) /\ jobs'[d] = jobs[d]
    BY <1>3
  <2>3. \A d \in Crons \ fired :
          /\ cron'[d].kind = cron[d].kind /\ cron'[d].next = cron[d].next
          /\ IF d \in Due THEN cron'[d].last = "failed" ELSE cron'[d].last = cron[d].last
    <3> SUFFICES ASSUME NEW d \in Crons \ fired
                 PROVE  /\ cron'[d].kind = cron[d].kind /\ cron'[d].next = cron[d].next
                        /\ IF d \in Due THEN cron'[d].last = "failed" ELSE cron'[d].last = cron[d].last
      OBVIOUS
    <3>1. CASE d \in Due
      BY <1>5, <2>2, <3>1
    <3>2. CASE d \notin Due
      BY <2>2, <3>2
    <3> QED
      BY <3>1, <3>2
  <2>4. \A d \in fired : /\ cron'[d].kind = cron[d].kind /\ cron'[d].last = "queued" /\ cron[d].next = "due"
                         /\ cron'[d].next = (IF cron[d].kind = "at" THEN "none" ELSE "ahead")
    BY <1>2, <1>4, <2>1
  <2> QED
    BY <2>1, <2>2, <2>3, <2>4 DEF FiringWrites
<1>10. Due \subseteq rows /\ UNCHANGED <<rows, past, deleting>> /\ torn' = torn \ Due
  BY DEF CheckAndFireCronTasks, Due
<1> QED
  BY <1>7, <1>8, <1>9, <1>10

LEMMA FireKeepsTimes ==
  ASSUME Times, CheckAndFireCronTasks
  PROVE  Times'
<1> USE DEF Times
<1>0. PICK fired \in SUBSET Due : FiringWrites(fired)
  BY FireWrites
<1>1. /\ Due \subseteq rows /\ UNCHANGED <<rows, past, deleting>> /\ torn' = torn \ Due
      /\ cron' \in [Crons -> CronRow] /\ jobs' \in [Crons -> Seq(Job)]
      /\ \A d \in fired :
           /\ cron'[d].kind = cron[d].kind /\ cron[d].next = "due"
           /\ cron'[d].next = (IF cron[d].kind = "at" THEN "none" ELSE "ahead")
           /\ jobs'[d] = Append(jobs[d], Queued("schedule"))
      /\ \A d \in Crons \ fired : cron'[d].kind = cron[d].kind /\ cron'[d].next = cron[d].next /\ jobs'[d] = jobs[d]
  BY <1>0, FireWrites DEF FiringWrites
<1>2. jobs \in [Crons -> Seq(Job)] /\ rows \subseteq Crons /\ fired \subseteq Crons /\ MaxRuns \in Nat
  BY <1>1, SchedulerAssumption DEF CronTypeOK
<1>3. \A d \in fired : Len(jobs[d]) <= MaxRuns /\ Len(jobs'[d]) = Len(jobs[d]) + 1
  BY <1>1, <1>2, RunQueued DEF RowsKnown
<1>4. \A d \in fired : ScheduledRuns(d)' = ScheduledRuns(d) \union {Len(jobs[d]) + 1}
  <2> SUFFICES ASSUME NEW d \in fired
               PROVE  ScheduledRuns(d)' = ScheduledRuns(d) \union {Len(jobs[d]) + 1}
    OBVIOUS
  <2> DEFINE new == Append(jobs[d], Queued("schedule"))
  <2>1. /\ DOMAIN new = DOMAIN jobs[d] \union {Len(jobs[d]) + 1}
        /\ new[Len(jobs[d]) + 1].origin = "schedule" /\ \A i \in DOMAIN jobs[d] : new[i] = jobs[d][i]
    BY <1>1, <1>2, RunQueued
  <2>2. jobs'[d] = new
    BY <1>1
  <2> HIDE DEF new
  <2> QED
    BY <2>1, <2>2 DEF ScheduledRuns
<1>5. \A d \in Crons \ fired : ScheduledRuns(d)' = ScheduledRuns(d)
  BY <1>1 DEF ScheduledRuns
<1>6. CronTypeOK'
  <2>1. \A d \in Crons : Len(jobs[d]) \in Nat /\ Len(jobs[d]) <= MaxRuns + 1
    BY <1>2 DEF CronTypeOK
  <2>2. \A d \in Crons : Len(jobs'[d]) <= MaxRuns + 1
    BY <1>1, <1>2, <1>3, <2>1
  <2> QED
    BY <1>1, <2>2 DEF CronTypeOK
<1>7. RowsKnown'
  <2>1. \A d \in fired : d \in rows /\ cron[d].kind # "none" /\ cron'[d].next # "due"
    BY <1>1, <1>2 DEF RowsKnown
  <2> QED
    BY <1>1, <2>1 DEF RowsKnown
<1>8. \A d \in fired : cron[d].kind = "at" => d \in past /\ ScheduledRuns(d) = {}
  BY <1>1, <1>2 DEF TimeGone
<1>9. TimeGone'
  BY <1>1, <1>5, <1>8 DEF TimeGone
<1>10. FiredByTimeOnce'
  <2>1. \A d \in fired : cron[d].kind = "at" => Cardinality(ScheduledRuns(d)') = 1
    <3> SUFFICES ASSUME NEW d \in fired, cron[d].kind = "at"
                 PROVE  Cardinality(ScheduledRuns(d)') = 1
      OBVIOUS
    <3>1. ScheduledRuns(d)' = {Len(jobs[d]) + 1}
      BY <1>4, <1>8
    <3> QED
      BY <3>1, FS_Singleton
  <2> QED
    BY <1>1, <1>5, <2>1 DEF FiredByTimeOnce
<1> QED
  BY <1>6, <1>7, <1>9, <1>10

\* A boot puts back what it finds running, and perhaps a run whose task it never
\* told of its end; the runs stay what they were.
LEMMA RequeueKeeps ==
  ASSUME CronTypeOK, NEW queue, queue \in [Crons -> Seq(Job)],
         \A d \in Crons :
           /\ Len(queue[d]) = Len(jobs[d]) /\ DOMAIN queue[d] = DOMAIN jobs[d]
           /\ \A i \in DOMAIN jobs[d] :
                /\ queue[d][i].origin = jobs[d][i].origin
                /\ jobs[d][i].status = "cancelled" => queue[d][i].status = "cancelled",
         jobs' = [d \in Crons |-> Requeued(queue[d])]
  PROVE  KeepsRuns
<1>1. \A d \in Crons : /\ Requeued(queue[d]) \in Seq(Job)
                       /\ Len(Requeued(queue[d])) = Len(queue[d]) /\ DOMAIN Requeued(queue[d]) = DOMAIN queue[d]
                       /\ \A i \in DOMAIN queue[d] :
                            /\ Requeued(queue[d])[i].origin = queue[d][i].origin
                            /\ queue[d][i].status = "cancelled" <=> Requeued(queue[d])[i].status = "cancelled"
  BY RequeueWrites
<1>2. jobs' \in [Crons -> Seq(Job)] /\ \A d \in Crons : jobs'[d] = Requeued(queue[d])
  BY <1>1
<1> QED
  BY <1>1, <1>2 DEF KeepsRuns, SameRuns

\* The rows of the runs a torn end of the process leaves, before they are put back.
TornRuns(c, i, row) == [d \in Crons |-> IF d = c THEN [jobs[c] EXCEPT ![i] = row] ELSE jobs[d]]

LEMMA TornWrites ==
  ASSUME CronTypeOK, NEW c \in Crons, NEW i \in DOMAIN jobs[c], NEW row \in Job, UntoldRow(jobs[c][i], row)
  PROVE  /\ TornRuns(c, i, row) \in [Crons -> Seq(Job)] /\ TornRuns(c, i, row)[c][i] = row
         /\ \A d \in Crons :
              /\ Len(TornRuns(c, i, row)[d]) = Len(jobs[d]) /\ DOMAIN TornRuns(c, i, row)[d] = DOMAIN jobs[d]
              /\ \A k \in DOMAIN jobs[d] :
                   /\ TornRuns(c, i, row)[d][k].origin = jobs[d][k].origin
                   /\ jobs[d][k].status = "cancelled" => TornRuns(c, i, row)[d][k].status = "cancelled"
         /\ \A d \in Crons \ {c} : TornRuns(c, i, row)[d] = jobs[d]
<1>1. jobs \in [Crons -> Seq(Job)] /\ jobs[c] \in Seq(Job) /\ jobs[c][i] \in Job
  BY DEF CronTypeOK
<1> DEFINE new == [jobs[c] EXCEPT ![i] = row]
<1>2. row.origin = jobs[c][i].origin /\ jobs[c][i].status # "cancelled"
  <2>1. \A v : [jobs[c][i] EXCEPT !.status = v].origin = jobs[c][i].origin
    BY <1>1 DEF Job
  <2>2. Retried(jobs[c][i]).origin = jobs[c][i].origin
    BY DEF Retried
  <2> QED
    BY <2>1, <2>2 DEF UntoldRow
<1>4. new \in Seq(Job) /\ Len(new) = Len(jobs[c]) /\ DOMAIN new = DOMAIN jobs[c]
  BY <1>1
<1>5. new[i] = row /\ \A k \in DOMAIN jobs[c] \ {i} : new[k] = jobs[c][k]
  BY <1>1
<1> HIDE DEF new
<1>6. TornRuns(c, i, row) = [d \in Crons |-> IF d = c THEN new ELSE jobs[d]]
  BY DEF TornRuns, new
<1>7. TornRuns(c, i, row) \in [Crons -> Seq(Job)]
  BY <1>1, <1>4, <1>6
<1>8. TornRuns(c, i, row)[c] = new /\ \A d \in Crons \ {c} : TornRuns(c, i, row)[d] = jobs[d]
  BY <1>6
<1> QED
  BY <1>2, <1>4, <1>5, <1>7, <1>8

\* The end of a process between the write of a job's row and its task's.
Torn(c, i, row) ==
  /\ UntoldRow(jobs[c][i], row)
  /\ torn' = IF row.status \in Ended THEN torn \union {c} ELSE torn
  /\ deleting' = {} /\ UNCHANGED <<rows, cron, past>>
  /\ jobs' = [d \in Crons |-> Requeued(TornRuns(c, i, row)[d])]

LEMMA TornPicked ==
  ASSUME CronRestartTorn
  PROVE  \E c \in Crons : \E i \in DOMAIN jobs[c], row \in Job : Torn(c, i, row)
<1>1. PICK c \in Crons : \E i \in DOMAIN jobs[c], row \in Job :
        /\ UntoldRow(jobs[c][i], row)
        /\ jobs' = [d \in Crons |->
                      Requeued(IF d = c THEN [jobs[c] EXCEPT ![i] = row] ELSE jobs[d])]
        /\ torn' = IF row.status \in Ended THEN torn \union {c} ELSE torn
        /\ deleting' = {}
        /\ UNCHANGED <<rows, cron, past>>
  BY DEF CronRestartTorn
<1>2. PICK i \in DOMAIN jobs[c], row \in Job :
        /\ UntoldRow(jobs[c][i], row)
        /\ jobs' = [d \in Crons |->
                      Requeued(IF d = c THEN [jobs[c] EXCEPT ![i] = row] ELSE jobs[d])]
        /\ torn' = IF row.status \in Ended THEN torn \union {c} ELSE torn
        /\ deleting' = {}
        /\ UNCHANGED <<rows, cron, past>>
  BY <1>1
<1>3. \A d \in Crons : TornRuns(c, i, row)[d] = IF d = c THEN [jobs[c] EXCEPT ![i] = row] ELSE jobs[d]
  BY DEF TornRuns
<1>4. jobs' = [d \in Crons |-> Requeued(TornRuns(c, i, row)[d])]
  BY <1>2, <1>3
<1>5. Torn(c, i, row)
  BY <1>2, <1>4 DEF Torn
<1> QED
  BY <1>5

LEMMA RestartKeepsTimes ==
  ASSUME Times, CronRestart \/ CronRestartTorn
  PROVE  Times'
<1>1. CronTypeOK
  BY DEF Times
<1>2. CASE CronRestart
  <2>1. KeepsRuns
    BY <1>1, <1>2, RequeueKeeps DEF CronRestart, CronTypeOK
  <2> QED
    BY <1>1, <1>2, <2>1, RunsKept DEF CronRestart, CronTypeOK
<1>3. CASE CronRestartTorn
  <2>1. PICK c \in Crons : \E i \in DOMAIN jobs[c], row \in Job : Torn(c, i, row)
    BY <1>3, TornPicked
  <2>2. PICK i \in DOMAIN jobs[c], row \in Job : Torn(c, i, row)
    BY <2>1
  <2>3. KeepsRuns
    BY <1>1, <2>2, TornWrites, RequeueKeeps DEF Torn
  <2> QED
    BY <1>1, <2>2, <2>3, RunsKept DEF Torn, CronTypeOK
<1> QED
  BY <1>2, <1>3

-----------------------------------------------------------------------------
(* What the last status says. *)

\* The status of c is as true as it was, or true on its own account.
StatusHolds(c) ==
  \/ c \in rows \ torn /\ cron'[c].last = cron[c].last /\ jobs'[c] = jobs[c]
  \/ cron'[c].last \notin {"queued"} \union Live
  \/ \E i \in DOMAIN jobs'[c] : jobs'[c][i].status = "cancelled" \/ jobs'[c][i].status \in Live

LEMMA StatusesHold ==
  ASSUME LastStatusIsTrue, \A c \in rows' \ torn' : StatusHolds(c)
  PROVE  LastStatusIsTrue'
<1> SUFFICES ASSUME NEW c \in rows' \ torn',
                    cron'[c].last \in {"queued"} \union Live,
                    \A i \in DOMAIN jobs'[c] : jobs'[c][i].status # "cancelled"
             PROVE  LiveJobs(c)' # {}
  BY DEF LastStatusIsTrue
<1>1. CASE c \in rows \ torn /\ cron'[c].last = cron[c].last /\ jobs'[c] = jobs[c]
  BY <1>1 DEF LastStatusIsTrue, LiveJobs
<1>2. CASE \E i \in DOMAIN jobs'[c] : jobs'[c][i].status \in Live
  BY <1>2 DEF LiveJobs
<1> QED
  BY <1>1, <1>2 DEF StatusHolds

LEMMA JobActsTellsTruth ==
  ASSUME CronTypeOK, LastStatusIsTrue, NEW c \in Crons, JobActs(c)
  PROVE  LastStatusIsTrue'
<1>1. PICK i \in DOMAIN jobs[c], j \in Job :
        /\ jobs[c][i].status \in Live /\ j.origin = jobs[c][i].origin
        /\ jobs' = [jobs EXCEPT ![c] = [jobs[c] EXCEPT ![i] = j]]
        /\ j.status \in {"running", "retrying", "failed", "completed"}
        /\ cron' = LastStatus(c, j.status)
        /\ rows' \subseteq rows /\ torn' = torn \ {c} /\ UNCHANGED <<past, deleting>>
  BY JobMoves
<1>2. /\ jobs'[c][i] = j /\ i \in DOMAIN jobs'[c]
      /\ \A d \in Crons \ {c} : jobs'[d] = jobs[d]
  BY <1>1, JobWrites DEF Live, KeepsRuns, SameRuns
<1>3. /\ \A d \in Crons \ {c} : cron'[d] = cron[d]
      /\ c \in rows => cron'[c].last = j.status
  BY <1>1, LastWrites
<1>4. \A d \in rows' \ torn' : StatusHolds(d)
  BY <1>1, <1>2, <1>3 DEF StatusHolds, CronTypeOK, Live
<1> QED
  BY <1>4, StatusesHold

LEMMA CascadeTellsTruth ==
  ASSUME CronTypeOK, LastStatusIsTrue, NEW c \in Crons, CancelRun(c) \/ DeleteBegins(c)
  PROVE  LastStatusIsTrue'
<1>1. CascadeCancel(c) /\ UNCHANGED <<rows, cron, torn>>
  BY DEF CancelRun, DeleteBegins
<1>2. /\ KeepsRuns /\ \A i \in LiveJobs(c) : jobs'[c][i].status = "cancelled"
      /\ \A d \in Crons : d # c \/ LiveJobs(c) = {} => jobs'[d] = jobs[d]
  BY <1>1, CascadeWrites
<1>3. \A i \in LiveJobs(c) : i \in DOMAIN jobs'[c]
  BY <1>2 DEF LiveJobs, KeepsRuns, SameRuns
<1>4. \A d \in rows' \ torn' : StatusHolds(d)
  BY <1>1, <1>2, <1>3 DEF StatusHolds, CronTypeOK
<1> QED
  BY <1>4, StatusesHold

LEMMA UsersTellTruth ==
  ASSUME CronTypeOK, LastStatusIsTrue, NEW c \in Crons,
         \/ AddCronTask(c) \/ DeleteEnds(c) \/ TimeComes(c)
         \/ \E on \in BOOLEAN : SetCronTaskEnabled(c, on)
  PROVE  LastStatusIsTrue'
<1>0. cron \in [Crons -> CronRow] /\ rows \subseteq Crons
  BY DEF CronTypeOK
<1>1. CASE AddCronTask(c)
  <2>1. /\ cron'[c].last = "none" /\ rows' = rows \union {c} /\ UNCHANGED <<jobs, torn>>
        /\ \A d \in Crons \ {c} : cron'[d] = cron[d]
    BY <1>0, <1>1 DEF AddCronTask
  <2>2. \A d \in rows' \ torn' : StatusHolds(d)
    BY <1>0, <2>1 DEF StatusHolds, Live
  <2> QED
    BY <2>2, StatusesHold
<1>2. CASE DeleteEnds(c)
  BY <1>2 DEF DeleteEnds, LastStatusIsTrue, LiveJobs
<1>3. CASE TimeComes(c)
  <2>1. cron'[c].last = cron[c].last /\ \A d \in Crons \ {c} : cron'[d] = cron[d]
    BY <1>0, <1>3 DEF TimeComes, CronRow
  <2>2. \A d \in rows' \ torn' : StatusHolds(d)
    BY <1>0, <1>3, <2>1 DEF StatusHolds, TimeComes
  <2> QED
    BY <2>2, StatusesHold
<1>4. ASSUME NEW on \in BOOLEAN, SetCronTaskEnabled(c, on)
      PROVE  LastStatusIsTrue'
  <2> DEFINE next == IF on THEN "ahead" ELSE "none"
  <2>1. next \in {"none", "ahead"} /\ cron' = [cron EXCEPT ![c].enabled = on, ![c].next = next]
    BY <1>4 DEF SetCronTaskEnabled
  <2> HIDE DEF next
  <2>2. cron'[c].last = cron[c].last /\ \A d \in Crons \ {c} : cron'[d] = cron[d]
    BY <2>1, EnabledWrites
  <2>3. \A d \in rows' \ torn' : StatusHolds(d)
    BY <1>0, <1>4, <2>2 DEF StatusHolds, SetCronTaskEnabled
  <2> QED
    BY <2>3, StatusesHold
<1> QED
  BY <1>1, <1>2, <1>3, <1>4

LEMMA QueuesTellTruth ==
  ASSUME Times, LastStatusIsTrue, CheckAndFireCronTasks \/ \E c \in Crons : RunCronTaskNow(c)
  PROVE  LastStatusIsTrue'
<1>0. jobs \in [Crons -> Seq(Job)] /\ cron \in [Crons -> CronRow] /\ rows \subseteq Crons
  BY DEF Times, CronTypeOK
<1>1. \A d \in Crons, o \in {"schedule", "manual"} :
        jobs'[d] = Append(jobs[d], Queued(o)) => \E i \in DOMAIN jobs'[d] : jobs'[d][i].status \in Live
  BY <1>0, RunQueued DEF Live
<1>2. CASE CheckAndFireCronTasks
  <2>1. PICK fired \in SUBSET Due : FiringWrites(fired)
    BY <1>2, FireWrites
  <2>2. rows' = rows /\ torn' = torn \ Due
    BY <1>2, FireWrites
  <2>3. \A d \in rows' \ torn' : StatusHolds(d)
    BY <1>0, <1>1, <2>1, <2>2 DEF FiringWrites, StatusHolds, Live
  <2> QED
    BY <2>3, StatusesHold
<1>3. ASSUME NEW c \in Crons, RunCronTaskNow(c)
      PROVE  LastStatusIsTrue'
  <2>1. /\ jobs'[c] = Append(jobs[c], Queued("manual")) /\ UNCHANGED rows /\ torn' = torn \ {c}
        /\ \A d \in Crons \ {c} : jobs'[d] = jobs[d] /\ cron'[d] = cron[d]
    BY <1>0, <1>3 DEF RunCronTaskNow, TellTask, LastStatus
  <2>2. \A d \in rows' \ torn' : StatusHolds(d)
    BY <1>0, <1>1, <2>1 DEF StatusHolds
  <2> QED
    BY <2>2, StatusesHold
<1> QED
  BY <1>2, <1>3

LEMMA RestartTellsTruth ==
  ASSUME CronTypeOK, LastStatusIsTrue, CronRestart \/ CronRestartTorn
  PROVE  LastStatusIsTrue'
<1>0. jobs \in [Crons -> Seq(Job)] /\ rows \subseteq Crons
  BY DEF CronTypeOK
<1>1. ASSUME NEW d \in rows \ torn, jobs'[d] = Requeued(jobs[d]), cron' = cron,
             cron'[d].last \in {"queued"} \union Live,
             \A i \in DOMAIN jobs'[d] : jobs'[d][i].status # "cancelled"
      PROVE  LiveJobs(d)' # {}
  <2>1. /\ DOMAIN jobs'[d] = DOMAIN jobs[d]
        /\ \A i \in DOMAIN jobs[d] :
             /\ jobs[d][i].status \in Live <=> jobs'[d][i].status \in Live
             /\ jobs[d][i].status = "cancelled" <=> jobs'[d][i].status = "cancelled"
    BY <1>0, <1>1, RequeueWrites
  <2>2. LiveJobs(d) # {}
    BY <1>1, <2>1 DEF LastStatusIsTrue
  <2> QED
    BY <2>1, <2>2 DEF LiveJobs
<1>2. CASE CronRestart
  <2>1. /\ UNCHANGED <<rows, cron, torn>>
        /\ \A d \in Crons : jobs'[d] = Requeued(jobs[d])
    BY <1>2 DEF CronRestart
  <2> QED
    BY <1>0, <1>1, <2>1 DEF LastStatusIsTrue
<1>3. CASE CronRestartTorn
  <2>1. PICK c \in Crons : \E i \in DOMAIN jobs[c], row \in Job : Torn(c, i, row)
    BY <1>3, TornPicked
  <2>2. PICK i \in DOMAIN jobs[c], row \in Job : Torn(c, i, row)
    BY <2>1
  <2>3. /\ UNCHANGED <<rows, cron>> /\ torn \subseteq torn'
        /\ row.status \in Ended => c \in torn'
        /\ \A d \in Crons : jobs'[d] = Requeued(TornRuns(c, i, row)[d])
    BY <2>2 DEF Torn
  <2>4. /\ TornRuns(c, i, row)[c] \in Seq(Job) /\ i \in DOMAIN TornRuns(c, i, row)[c]
        /\ TornRuns(c, i, row)[c][i] = row /\ \A d \in Crons \ {c} : TornRuns(c, i, row)[d] = jobs[d]
    BY <2>2, TornWrites DEF Torn
  <2>5. row.status \notin Ended => LiveJobs(c)' # {}
    <3>1. row.status \notin Ended => row.status \in Live
      BY DEF Job
    <3>2. /\ i \in DOMAIN jobs'[c]
          /\ row.status \in Live => jobs'[c][i].status \in Live
      BY <2>3, <2>4, RequeueWrites
    <3> QED
      BY <3>1, <3>2 DEF LiveJobs
  <2>6. \A d \in rows' \ torn' : d \in rows \ torn /\ d \in Crons /\ (d # c => jobs'[d] = Requeued(jobs[d]))
    BY <1>0, <2>3, <2>4
  <2> QED
    BY <1>1, <2>3, <2>5, <2>6 DEF LastStatusIsTrue
<1> QED
  BY <1>2, <1>3

-----------------------------------------------------------------------------
(* The tasks, over every step. *)

LEMMA CronKeeps ==
  ASSUME CronInv, CronNext \/ CronRestart \/ CronRestartTorn
  PROVE  CronInv'
<1>1. Times /\ CronTypeOK /\ LastStatusIsTrue
  BY DEF CronInv, Times
<1>2. Times'
  <2>1. CASE CronNext
    BY <1>1, <2>1, FireKeepsTimes, AddKeepsTimes, EnableKeepsTimes, RunNowKeepsTimes,
       CascadeKeepsTimes, DeleteKeepsTimes, TimeKeepsTimes, JobActsKeepsTimes DEF CronNext
  <2> QED
    BY <1>1, <2>1, RestartKeepsTimes
<1>3. LastStatusIsTrue'
  <2>1. CASE CronNext
    BY <1>1, <2>1, QueuesTellTruth, UsersTellTruth, CascadeTellsTruth, JobActsTellsTruth DEF CronNext
  <2> QED
    BY <1>1, <2>1, RestartTellsTruth
<1> QED
  BY <1>2, <1>3 DEF CronInv, Times

LEMMA CronSame == ASSUME CronInv, UNCHANGED cronVars PROVE CronInv'
BY DEF CronInv, cronVars, CronTypeOK, RowsKnown, TimeGone, FiredByTimeOnce, ScheduledRuns, LastStatusIsTrue, LiveJobs

-----------------------------------------------------------------------------
(* The reminders. *)

Statuses == {"absent", "pending", "delivering", "retrying"} \union Over

\* The claim of the next reminder, or the end of the round, from rows in which
\* nothing is being sent any more.
LEMMA VisitKeeps ==
  ASSUME ReminderInv, restarts \in Nat, UNCHANGED restarts,
         NEW delayed, delayed \subseteq Reminders, NEW list, list \subseteq Reminders,
         NEW table, table \in [Reminders -> Statuses],
         stale' \subseteq Reminders, sent' \in [Reminders -> Nat],
         \A r \in Reminders :
           /\ table[r] \in {"absent", "pending"} => attempts[r] = 0
           /\ table[r] \in {"retrying", "delivering"} => attempts[r] < MaxAttempts + restarts
           /\ table[r] \notin {"delivered", "deleted"} => sent'[r] <= restarts
           /\ sent'[r] <= 1 + restarts,
         Visit(table, delayed, list)
  PROVE  ReminderInv'
<1>0. MaxAttempts \in Nat \ {0} /\ NoReminder \notin Reminders /\ attempts \in [Reminders -> 0 .. MaxAttempts + restarts]
  BY SchedulerAssumption DEF ReminderInv, ReminderTypeOK
<1>1. later' = delayed
  BY DEF Visit
<1>2. CASE /\ reminder' = table /\ UNCHANGED attempts
           /\ round' = FALSE /\ due' = {} /\ sending' = NoReminder
  <2>1. ReminderTypeOK'
    BY <1>0, <1>1, <1>2 DEF ReminderTypeOK, Statuses
  <2>2. Claims'
    BY <1>0, <1>2 DEF Claims
  <2> QED
    BY <2>1, <2>2 DEF ReminderInv, SentOnce
<1>3. ASSUME NEW r \in list, Waits(table, r),
             reminder' = [table EXCEPT ![r] = "delivering"],
             attempts' = [attempts EXCEPT ![r] = @ + 1],
             round' = TRUE, due' = list \ {r}, sending' = r
      PROVE  ReminderInv'
  <2>1. r \in Reminders /\ r # NoReminder /\ attempts[r] \in Nat /\ attempts[r] < MaxAttempts + restarts
    BY <1>0, <1>3 DEF Waits
  <2>2. attempts' \in [Reminders -> 0 .. MaxAttempts + restarts]
    BY <1>0, <1>3, <2>1
  <2>3. ReminderTypeOK'
    BY <1>1, <1>3, <2>1, <2>2 DEF ReminderTypeOK, Statuses
  <2>4. \A s \in Reminders \ {r} : reminder'[s] = table[s] /\ attempts'[s] = attempts[s]
    BY <1>0, <1>3
  <2>5. reminder'[r] = "delivering" /\ sent'[r] <= restarts
    BY <1>3, <2>1 DEF Waits
  <2>6. Claims'
    BY <1>3, <2>1, <2>4, <2>5 DEF Claims
  <2> QED
    BY <2>3, <2>6 DEF ReminderInv, SentOnce
<1> QED
  BY <1>2, <1>3 DEF Visit

LEMMA RoundKeeps ==
  ASSUME ReminderInv, restarts \in Nat, UNCHANGED restarts, CheckAndFireReminders
  PROVE  ReminderInv'
<1> DEFINE table == [r \in Reminders |-> IF r \in Reclaimed THEN "retrying" ELSE reminder[r]]
<1>1. /\ ~round /\ Visit(table, later, DueRows(table))
      /\ stale' = stale \ Reclaimed /\ UNCHANGED sent
  BY DEF CheckAndFireReminders, MayBegin
<1>2. ReminderTypeOK /\ Claims /\ SentOnce
  BY DEF ReminderInv
<1>3. sending = NoReminder /\ NoReminder \notin Reminders
  BY <1>1, <1>2, SchedulerAssumption DEF Claims
<1>4. table \in [Reminders -> Statuses]
  BY <1>2 DEF ReminderTypeOK, Statuses
<1>5. \A r \in Reminders :
        /\ table[r] \in {"absent", "pending"} => reminder[r] = table[r]
        /\ table[r] \in {"retrying", "delivering"} => reminder[r] \in {"retrying", "delivering"}
        /\ table[r] \notin {"delivered", "deleted"} => reminder[r] \notin {"delivered", "deleted"}
  BY DEF Reclaimed
<1>6. DueRows(table) \subseteq Reminders
  BY DEF DueRows
<1> HIDE DEF table
<1>7. \A r \in Reminders :
        /\ table[r] \in {"absent", "pending"} => attempts[r] = 0
        /\ table[r] \in {"retrying", "delivering"} => attempts[r] < MaxAttempts + restarts
        /\ table[r] \notin {"delivered", "deleted"} => sent'[r] <= restarts
        /\ sent'[r] <= 1 + restarts
  BY <1>1, <1>2, <1>3, <1>5 DEF Claims, SentOnce
<1> QED
  BY <1>1, <1>2, <1>4, <1>6, <1>7, VisitKeeps DEF ReminderTypeOK

LEMMA SendKeeps ==
  ASSUME ReminderInv, restarts \in Nat, UNCHANGED restarts, NEW ok \in BOOLEAN, SendSettles(ok)
  PROVE  ReminderInv'
<1>0. ReminderTypeOK /\ Claims /\ SentOnce /\ MaxAttempts \in Nat \ {0}
  BY SchedulerAssumption DEF ReminderInv
<1> DEFINE r == sending
           end == IF ok THEN "delivered" ELSE IF GivenUp(r) THEN "failed" ELSE "retrying"
           table == IF reminder[r] = "deleted" THEN reminder ELSE [reminder EXCEPT ![r] = end]
           delayed == IF reminder[r] # "deleted" /\ end = "retrying" THEN later \union {r} ELSE later
<1>1. r \in Reminders /\ sending # NoReminder
  BY <1>0 DEF SendSettles, ReminderTypeOK
<1>2. /\ stale' = stale \ {r}
      /\ sent' = (IF ok THEN [sent EXCEPT ![r] = @ + 1] ELSE sent)
      /\ Visit(table, delayed, due)
  BY DEF SendSettles
<1>3. /\ table \in [Reminders -> Statuses] /\ delayed \subseteq Reminders
      /\ table[r] \in {"deleted", "delivered", "failed", "retrying"}
      /\ table[r] = "delivered" \/ table[r] = "deleted" \/ ~ok
      /\ table[r] = "retrying" => ~GivenUp(r)
      /\ \A s \in Reminders \ {r} : table[s] = reminder[s]
  BY <1>0, <1>1 DEF ReminderTypeOK, Statuses, Over
<1>4. table[r] \notin {"deleted", "delivered"} => reminder[r] # "deleted"
  BY <1>1
<1> HIDE DEF table, delayed
<1>5. reminder[r] \in {"delivering", "deleted"}
  BY <1>0, <1>1 DEF Claims
<1>6. /\ sent \in [Reminders -> Nat] /\ sent' \in [Reminders -> Nat] /\ sent[r] <= restarts
      /\ sent'[r] <= 1 + restarts /\ (~ok => sent'[r] <= restarts)
      /\ \A s \in Reminders \ {r} : sent'[s] = sent[s]
  BY <1>0, <1>1, <1>2 DEF ReminderTypeOK, Claims
<1>7. attempts \in [Reminders -> Nat] /\ (table[r] = "retrying" => attempts[r] < MaxAttempts + restarts)
  BY <1>0, <1>1, <1>3 DEF ReminderTypeOK, GivenUp
<1>8. \A s \in Reminders :
        /\ table[s] \in {"absent", "pending"} => attempts[s] = 0
        /\ table[s] \in {"retrying", "delivering"} => attempts[s] < MaxAttempts + restarts
        /\ table[s] \notin {"delivered", "deleted"} => sent'[s] <= restarts
        /\ sent'[s] <= 1 + restarts
  BY <1>0, <1>1, <1>3, <1>6, <1>7 DEF Claims, SentOnce
<1>9. stale' \subseteq Reminders /\ due \subseteq Reminders
  BY <1>0, <1>2 DEF ReminderTypeOK
<1> QED
  BY <1>2, <1>3, <1>6, <1>8, <1>9, VisitKeeps

\* What users and time do to a reminder.
LEMMA DelaysKeep ==
  ASSUME ReminderInv, restarts \in Nat, UNCHANGED restarts, NEW r \in Reminders,
         AddReminder(r) \/ CancelReminder(r) \/ ReminderTime(r) \/ ClaimAges(r)
  PROVE  ReminderInv'
<1> USE DEF ReminderInv
<1>0. MaxAttempts \in Nat \ {0} /\ NoReminder \notin Reminders
  BY SchedulerAssumption
<1>1. CASE AddReminder(r)
  BY <1>0, <1>1 DEF AddReminder, ReminderTypeOK, Claims, SentOnce, Over
<1>2. CASE CancelReminder(r)
  BY <1>0, <1>2 DEF CancelReminder, ReminderTypeOK, Claims, SentOnce, Over
<1>3. CASE ReminderTime(r)
  BY <1>3 DEF ReminderTime, ReminderTypeOK, Claims, SentOnce
<1>4. CASE ClaimAges(r)
  BY <1>4 DEF ClaimAges, ReminderTypeOK, Claims, SentOnce
<1> QED
  BY <1>1, <1>2, <1>3, <1>4

LEMMA ReminderKeeps ==
  ASSUME ReminderInv, restarts \in Nat, UNCHANGED restarts, ReminderNext
  PROVE  ReminderInv'
BY RoundKeeps, SendKeeps, DelaysKeep DEF ReminderNext

\* The end of a process cuts one claim short, and may send one message the row
\* does not know of.
LEMMA RestartKeeps ==
  ASSUME ReminderInv, restarts \in Nat, restarts' = restarts + 1, ReminderRestart
  PROVE  ReminderInv'
<1>0. ReminderTypeOK /\ Claims /\ SentOnce /\ MaxAttempts \in Nat \ {0} /\ NoReminder \notin Reminders
  BY SchedulerAssumption DEF ReminderInv
<1>1. /\ sent' \in [Reminders -> Nat]
      /\ \A r \in Reminders : /\ sent'[r] \in {sent[r], sent[r] + 1}
                              /\ r # sending => sent'[r] = sent[r]
  BY <1>0 DEF ReminderRestart, ReminderTypeOK
<1>2. /\ round' = FALSE /\ due' = {} /\ sending' = NoReminder /\ UNCHANGED <<reminder, attempts, later, stale>>
  BY DEF ReminderRestart
<1>3. \A r \in Reminders : sent[r] \in Nat /\ attempts[r] \in 0 .. MaxAttempts + restarts
  BY <1>0 DEF ReminderTypeOK
<1>4. ReminderTypeOK'
  <2>1. attempts' \in [Reminders -> 0 .. MaxAttempts + restarts']
    BY <1>0, <1>2, <1>3 DEF ReminderTypeOK
  <2> QED
    BY <1>0, <1>1, <1>2, <2>1 DEF ReminderTypeOK
<1>5. \A r \in Reminders :
        /\ sent'[r] <= 1 + restarts'
        /\ reminder[r] \notin {"delivered", "deleted"} \/ r = sending => sent'[r] <= restarts'
        /\ attempts[r] < MaxAttempts + restarts'
  <2> SUFFICES ASSUME NEW r \in Reminders
               PROVE  /\ sent'[r] <= 1 + restarts'
                      /\ reminder[r] \notin {"delivered", "deleted"} \/ r = sending => sent'[r] <= restarts'
                      /\ attempts[r] < MaxAttempts + restarts'
    OBVIOUS
  <2>1. /\ reminder[r] \notin {"delivered", "deleted"} \/ r = sending => sent[r] <= restarts
        /\ sent[r] <= 1 + restarts
    BY <1>0 DEF Claims, SentOnce
  <2>2. attempts[r] < MaxAttempts + restarts'
    BY <1>0, <1>3
  <2>3. sent[r] \in Nat /\ (sent'[r] = sent[r] \/ sent'[r] = sent[r] + 1)
    BY <1>1, <1>3
  <2>4. r # sending => sent'[r] = sent[r]
    BY <1>1
  <2>5. sent'[r] <= 1 + restarts'
    BY <2>1, <2>3
  <2>6. reminder[r] \notin {"delivered", "deleted"} \/ r = sending => sent'[r] <= restarts'
    BY <2>1, <2>3, <2>4
  <2> QED
    BY <2>2, <2>5, <2>6
<1>6. Claims'
  <2>1. (round <=> sending # NoReminder)' /\ sending' \notin Reminders
    BY <1>0, <1>2
  <2>2. \A r \in Reminders : reminder[r] \in {"absent", "pending"} => attempts[r] = 0
    BY <1>0 DEF Claims
  <2> QED
    BY <1>2, <1>5, <2>1, <2>2 DEF Claims
<1>7. SentOnce'
  BY <1>5 DEF SentOnce
<1> QED
  BY <1>4, <1>6, <1>7 DEF ReminderInv

LEMMA ReminderSame == ASSUME ReminderInv, UNCHANGED <<reminderVars, restarts>> PROVE ReminderInv'
BY DEF ReminderInv, ReminderTypeOK, Claims, SentOnce, reminderVars

-----------------------------------------------------------------------------
(* The theorems. *)

LEMMA InitHolds == Init => IInv
<1> SUFFICES ASSUME Init PROVE IInv
  OBVIOUS
<1> USE SchedulerAssumption
<1>1. \A c \in Crons : ScheduledRuns(c) = {} /\ Cardinality(ScheduledRuns(c)) = 0
  BY FS_EmptySet DEF Init, CronInit, ScheduledRuns
<1>2. CronInv
  BY <1>1 DEF Init, CronInit, NoRow, CronInv, CronTypeOK, CronRow, RowsKnown, TimeGone, FiredByTimeOnce, LastStatusIsTrue
<1>3. /\ reminder = [r \in Reminders |-> "absent"] /\ round = FALSE /\ sending = NoReminder
      /\ attempts = [r \in Reminders |-> 0] /\ sent = [r \in Reminders |-> 0] /\ restarts = 0
      /\ later = {} /\ stale = {} /\ due = {} /\ NoReminder \notin Reminders /\ MaxAttempts \in Nat \ {0}
  BY DEF Init, ReminderInit
<1>4. ReminderTypeOK
  <2>1. attempts \in [Reminders -> 0 .. MaxAttempts + restarts] /\ sent \in [Reminders -> Nat]
    BY <1>3
  <2>2. reminder \in [Reminders -> {"absent", "pending", "delivering", "retrying"} \union Over]
    BY <1>3
  <2> QED
    BY <1>3, <2>1, <2>2 DEF ReminderTypeOK
<1>5. Claims /\ SentOnce
  <2>1. round <=> sending # NoReminder
    BY <1>3
  <2>2. sending \notin Reminders /\ \A r \in Reminders : reminder[r] = "absent" /\ attempts[r] = 0 /\ sent[r] = 0
    BY <1>3
  <2> QED
    BY <1>3, <2>1, <2>2 DEF Claims, SentOnce
<1>6. ReminderInv
  BY <1>4, <1>5 DEF ReminderInv
<1> QED
  BY <1>2, <1>6 DEF Init, IInv

LEMMA NextHolds == IInv /\ [Next]_vars => IInv'
<1> SUFFICES ASSUME IInv, [Next]_vars PROVE IInv'
  OBVIOUS
<1> USE DEF IInv
<1>0. MaxRestarts \in Nat /\ restarts \in Nat
  BY SchedulerAssumption
<1>1. CASE CronNext /\ UNCHANGED <<reminderVars, restarts>>
  BY <1>1, CronKeeps, ReminderSame
<1>2. CASE ReminderNext /\ UNCHANGED <<cronVars, restarts>>
  BY <1>0, <1>2, CronSame, ReminderKeeps
<1>3. CASE Restart
  <2>1. CronInv' /\ ReminderInv'
    BY <1>0, <1>3, CronKeeps, RestartKeeps DEF Restart
  <2> QED
    BY <1>0, <1>3, <2>1 DEF Restart
<1>4. CASE UNCHANGED vars
  BY <1>4, CronSame, ReminderSame DEF vars
<1> QED
  BY <1>1, <1>2, <1>3, <1>4 DEF Next

\* The invariant holds in every state of the scheduler.
THEOREM SchedulerInvariant == Spec => []IInv
BY InitHolds, NextHolds, PTL DEF Spec

\* The tables, the round and the claims keep their types; no reminder is tried
\* beyond max_attempts but for attempts the end of a process cut short.
THEOREM SchedulerTypeCorrect == Spec => []TypeOK
<1>1. IInv => TypeOK
  BY DEF IInv, CronInv, ReminderInv, ReminderTypeOK, TypeOK
<1> QED
  BY <1>1, SchedulerInvariant, PTL

\* A task says it is queued, running or retrying only while a job of it is live,
\* or after a cancelled run or a write lost in a crash.
THEOREM SchedulerStatusTrue == Spec => []LastStatusIsTrue
<1>1. IInv => LastStatusIsTrue
  BY DEF IInv, CronInv
<1> QED
  BY <1>1, SchedulerInvariant, PTL

\* What is to happen once happens once, through pauses, retries and restarts.
THEOREM SchedulerFiresOnce == Spec => []FiredOnce
<1>1. IInv => FiredOnce
  BY DEF IInv, CronInv, ReminderInv, FiredByTimeOnce, ScheduledRuns, SentOnce, FiredOnce
<1> QED
  BY <1>1, SchedulerInvariant, PTL
=============================================================================
