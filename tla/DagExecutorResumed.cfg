\* Rows of a restarted plan, two cancellations, and an event that is lost: every
\* call ends, and leaves nothing behind.
SPECIFICATION Spec
CONSTANTS
  NumTasks = 3
  Graphs <- PairAndChain
  Policies = {"fail_fast"}
  EarlierAttempts <- RestartedRun
  MaxParallel = 1
  MaxRetries = 1
  EventsTakeTime = TRUE
  MaxCancels = 2
  MaxRejections = 1
INVARIANTS
  ReturnsSettled
PROPERTIES
  DagReturns
  WaitingCancellationHonoured
