\* A scheduled prompt with two runs, or two reminders, through two restarts.
\* Ids are used once: in the end nothing may be left to schedule.
SPECIFICATION Spec
CONSTANTS
  c1 = c1
  m1 = m1
  m2 = m2
  none = none
  Crons <- Prompts
  Managed <- Prompts
  MaxRuns = 2
  MaxJobRetries = 1
  Reminders <- Messages
  NoReminder = none
  MaxAttempts = 2
  MaxRestarts = 2
  Populations <- OneKind
INVARIANTS
  TypeOK
  LastStatusIsTrue
  FiredOnce
PROPERTIES
  SchedulesSettle
CHECK_DEADLOCK FALSE
