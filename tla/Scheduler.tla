------------------------------ MODULE Scheduler ------------------------------
(***************************************************************************)
(* scheduled-tasks.ts: the ticker of scheduler/index.ts dispatches cron    *)
(* tasks and reminders, each under its own `running` flag, in one process  *)
(* that may end at any time; the tables of both survive.                   *)
(***************************************************************************)
EXTENDS CronTasks, Reminders

CONSTANTS MaxRestarts,    \* bound: ends of the process
          Populations     \* bound: what is scheduled together

ASSUME SchedulerAssumption ==
  /\ Managed \subseteq Crons /\ NoReminder \notin Reminders
  /\ {MaxRuns, MaxJobRetries, MaxRestarts} \subseteq Nat /\ MaxAttempts \in Nat \ {0}
  /\ Populations \subseteq SUBSET (Crons \union Reminders)

VARIABLE restarts

vars == <<cronVars, reminderVars, restarts>>

Init == CronInit /\ ReminderInit /\ restarts = 0

Restart ==
  /\ restarts < MaxRestarts
  /\ restarts' = restarts + 1
  /\ CronRestart \/ CronRestartTorn
  /\ ReminderRestart

Scheduled == {c \in Crons : cron[c] # NoRow} \union {r \in Reminders : reminder[r] # "absent"}
Bounded == \E P \in Populations : Scheduled' \subseteq P

Next ==
  \/ CronNext /\ UNCHANGED <<reminderVars, restarts>> /\ Bounded
  \/ ReminderNext /\ UNCHANGED <<cronVars, restarts>> /\ Bounded
  \/ Restart

(* The steps that need nobody from outside. *)
CronTick == CheckAndFireCronTasks /\ UNCHANGED <<reminderVars, restarts>>
JobStep(c) == JobActs(c) /\ UNCHANGED <<reminderVars, restarts>>
ReminderTick == CheckAndFireReminders /\ UNCHANGED <<cronVars, restarts>>
SendStep == (\E ok \in BOOLEAN : SendSettles(ok)) /\ UNCHANGED <<cronVars, restarts>>
DelayStep(r) == (ReminderTime(r) \/ ClaimAges(r)) /\ UNCHANGED <<cronVars, restarts>>

(* The ticker ticks, jobs and sends settle, delays elapse; nobody has to add,
   pause, cancel or end anything. *)
Spec ==
  /\ Init /\ [][Next]_vars
  /\ WF_vars(CronTick) /\ WF_vars(ReminderTick)
  /\ \A c \in Crons : WF_vars(JobStep(c))
  /\ WF_vars(SendStep)
  /\ \A r \in Reminders : WF_vars(DelayStep(r))

-----------------------------------------------------------------------------
\* Every variable keeps its shape; no reminder is tried beyond its limit but
\* for the attempts the end of a process has cut short.
TypeOK ==
  /\ CronTypeOK
  /\ reminder \in [Reminders -> {"absent", "pending", "delivering", "retrying"} \union Over]
  /\ attempts \in [Reminders -> 0 .. MaxAttempts + restarts]
  /\ later \subseteq Reminders /\ stale \subseteq Reminders /\ due \subseteq Reminders
  /\ round \in BOOLEAN /\ sending \in Reminders \union {NoReminder}
  /\ sent \in [Reminders -> Nat]
  /\ restarts \in 0 .. MaxRestarts

\* "Record only queued truth; handlers own terminal status" (cron-tasks.ts:335):
\* a task that says it is queued, running or retrying has a live job, whatever
\* pauses, overlapping runs and restarts come between.  A cancelled run leaves
\* the status as it was; so does the end of a run that a crash kept from the
\* task, until the task is told anything again.
LastStatusIsTrue ==
  \A c \in rows \ torn :
    /\ cron[c].last \in {"queued"} \union Live
    /\ \A i \in DOMAIN jobs[c] : jobs[c][i].status # "cancelled"
    => LiveJobs(c) # {}

\* What is to happen once happens once: a task of kind 'at' is fired by its
\* time once, through pauses, retries and restarts; a reminder is sent again
\* only when the process ended between its message and its row.
FiredOnce ==
  /\ \A c \in Crons :
       cron[c].kind = "at" =>
         Cardinality({i \in DOMAIN jobs[c] : jobs[c][i].origin = "schedule"}) <= 1
  /\ \A r \in Reminders : sent[r] <= 1 + restarts

\* Every run of a task ends, that of a deleted task too, and every reminder is
\* delivered, given up or cancelled: no claim and no job is left behind.
SchedulesSettle ==
  /\ \A c \in Crons, i \in 1 .. MaxRuns + 1 :
       i \in DOMAIN jobs[c] ~> i \in DOMAIN jobs[c] /\ jobs[c][i].status \in Ended
  /\ \A r \in Reminders : reminder[r] # "absent" ~> reminder[r] \in Over
=============================================================================
