\* What an unclean end of the process leaves of a running plan.
SPECIFICATION Spec
CONSTANTS
  NumSteps = 2
  Scheduled = {FALSE, TRUE}
  MaxRuns = 2
  MaxRetries = 1
  MaxFailures = 1
  MaxEnds = 2
  MaxCancels = 1
PROPERTY InterruptedIsResumed
