\* One slot; job 2 has no handler, or one that goes on after its timeout and the sweep.
SPECIFICATION Spec
CONSTANTS
  NumJobs = 2
  CronJobs <- Jobs
  Managed = {1}
  Unknown <- LastJob
  Stubborn <- LastJob
  MaxConcurrent = 1
  MaxRetries = 1
  MaxDeliveries = 2
  MaxCancels = 1
  MaxRestarts = 1
INVARIANTS
  TypeOK
  WorkInHand
  RunAgreesWithJob
PROPERTIES
  OneHandlerPerJob
  OutcomeIsFinal
  OutcomesDelivered
