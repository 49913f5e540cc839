\* A plan of two steps through two ends of the process; two runs, one retry each.
SPECIFICATION Spec
CONSTANTS
  NumSteps = 2
  Scheduled = {FALSE, TRUE}
  MaxRuns = 2
  MaxRetries = 1
  MaxFailures = 1
  MaxEnds = 2
  MaxCancels = 1
INVARIANTS TypeOK NoStrandedPlan NoGhostStep CompletedIsDelivered JobAgreesWithPlan
PROPERTIES CompletedMeansAllSteps WorkNotRepeated PlanEnds
