------------------------------ MODULE Reminders ------------------------------
(***************************************************************************)
(* scheduler/reminders.ts under the ticker of scheduler/index.ts: claim,   *)
(* send, record the outcome, one reminder after the other.  The send is    *)
(* awaited; all else of a round happens in one step with what it follows.  *)
(***************************************************************************)
EXTENDS Integers, FiniteSets

CONSTANTS Reminders, NoReminder,
          MaxAttempts     \* max_attempts of the reminders

VARIABLES reminder,     \* reminders.status, "absent" before and "deleted" after the row
          attempts,   \* attempt_count
          later,      \* fire_at or next_attempt_at is ahead
          stale,      \* claimed more than ten minutes ago
          round,      \* the dispatch runs (`running` of the ticker's task)
          due,        \* what it has read and not visited yet
          sending,    \* the reminder whose send it awaits
          sent        \* messages that went out, of each reminder

reminderVars == <<reminder, attempts, later, stale, round, due, sending, sent>>

Over == {"delivered", "failed", "deleted"}

ReminderInit ==
  /\ reminder = [r \in Reminders |-> "absent"]
  /\ attempts = [r \in Reminders |-> 0] /\ sent = [r \in Reminders |-> 0]
  /\ later = {} /\ stale = {} /\ due = {}
  /\ round = FALSE /\ sending = NoReminder

AddReminder(r) ==
  /\ reminder[r] = "absent"
  /\ reminder' = [reminder EXCEPT ![r] = "pending"]
  /\ later' = later \union {r}
  /\ UNCHANGED <<attempts, stale, round, due, sending, sent>>

\* The row is deleted, also while its message is being sent.
CancelReminder(r) ==
  /\ reminder[r] \notin {"absent", "deleted"}
  /\ reminder' = [reminder EXCEPT ![r] = "deleted"]
  /\ later' = later \ {r}
  /\ stale' = stale \ {r}
  /\ UNCHANGED <<attempts, round, due, sending, sent>>

GivenUp(r) == attempts[r] >= MaxAttempts

Waits(rows, r) == rows[r] \in {"pending", "retrying"}

\* The claim of the next reminder that can still be claimed, or the end of the
\* round, with the rows and delays as the step has left them.
Visit(rows, delayed, list) ==
  LET open == {r \in list : Waits(rows, r) /\ r \notin delayed}
  IN  /\ later' = delayed
      /\ \/ /\ open = {}
            /\ reminder' = rows
            /\ round' = FALSE /\ due' = {} /\ sending' = NoReminder
            /\ UNCHANGED attempts
         \/ \E r \in open :
              /\ reminder' = [rows EXCEPT ![r] = "delivering"]
              /\ attempts' = [attempts EXCEPT ![r] = @ + 1]
              /\ round' = TRUE /\ due' = list \ {r} /\ sending' = r

\* Mutant: claims a dead process left are never taken back.
Reclaimed_Never == {}

\* Delivering rows whose claim is stale.
Reclaimed == {r \in stale : reminder[r] = "delivering"}

DueRows(rows) == {r \in Reminders : Waits(rows, r) /\ r \notin later}

\* Mutant: the ticker does not ask whether the last round still runs.
MayBegin_Unasked == TRUE

MayBegin == ~round

\* runDueTasks() and checkAndFireReminders(), up to the first send.
CheckAndFireReminders ==
  /\ MayBegin
  /\ LET rows == [r \in Reminders |-> IF r \in Reclaimed THEN "retrying" ELSE reminder[r]]
     IN  /\ Reclaimed \union DueRows(rows) # {}
         /\ Visit(rows, later, DueRows(rows))
  /\ stale' = stale \ Reclaimed
  /\ UNCHANGED sent

\* The outcome of the send, and the next claim.
SendSettles(ok) ==
  /\ sending # NoReminder
  /\ LET r == sending
         end == IF ok THEN "delivered" ELSE IF GivenUp(r) THEN "failed" ELSE "retrying"
     IN  /\ sent' = IF ok THEN [sent EXCEPT ![r] = @ + 1] ELSE sent
         /\ stale' = stale \ {r}
         /\ IF reminder[r] = "deleted"
              THEN Visit(reminder, later, due)
              ELSE Visit([reminder EXCEPT ![r] = end],
                         IF end = "retrying" THEN later \union {r} ELSE later, due)

\* A delay elapses.
ReminderTime(r) ==
  /\ r \in later
  /\ later' = later \ {r}
  /\ UNCHANGED <<reminder, attempts, stale, round, due, sending, sent>>

ClaimAges(r) ==
  /\ reminder[r] = "delivering" /\ r \notin stale
  /\ stale' = stale \union {r}
  /\ UNCHANGED <<reminder, attempts, later, round, due, sending, sent>>

\* The process ends, perhaps after the message went out and before the row says so.
ReminderRestart ==
  /\ round' = FALSE /\ due' = {} /\ sending' = NoReminder
  /\ sent' \in {sent} \union
               {[sent EXCEPT ![r] = @ + 1] : r \in {sending} \intersect Reminders}
  /\ UNCHANGED <<reminder, attempts, later, stale>>

ReminderNext ==
  \/ CheckAndFireReminders
  \/ \E ok \in BOOLEAN : SendSettles(ok)
  \/ \E r \in Reminders :
       AddReminder(r) \/ CancelReminder(r) \/ ReminderTime(r) \/ ClaimAges(r)
=============================================================================
