\* Three tasks in every acyclic shape, two permits.
SPECIFICATION Spec
CONSTANTS
  NumTasks = 3
  Graphs <- AnyGraph
  Policies <- DistinctPolicies
  EarlierAttempts <- FreshRun
  MaxParallel = 2
  MaxRetries = 1
  EventsTakeTime = TRUE
  MaxCancels = 1
  MaxRejections = 0
INVARIANTS
  TypeOK
  StartedAfterDependencies
  StoreMirrorsState
  NothingRunsOnCancelled
PROPERTIES
  ImplementsContract
