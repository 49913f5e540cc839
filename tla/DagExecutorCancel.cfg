\* The events take no time, as in every call of executeDag() in the code.
SPECIFICATION Spec
CONSTANTS
  NumTasks = 2
  Graphs <- AnyGraph
  Policies = {"fail_fast"}
  EarlierAttempts <- FreshRun
  MaxParallel = 1
  MaxRetries = 1
  EventsTakeTime = FALSE
  MaxCancels = 1
  MaxRejections = 0
PROPERTIES
  CancelledNotPromoted
