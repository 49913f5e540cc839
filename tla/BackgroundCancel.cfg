\* A timeout aborts the signal before the cancellation does.
SPECIFICATION Spec
CONSTANTS
  NumJobs = 1
  CronJobs = {1}
  Managed = {}
  Unknown = {}
  Stubborn = {}
  MaxConcurrent = 1
  MaxRetries = 1
  MaxDeliveries = 2
  MaxCancels = 1
  MaxRestarts = 0
PROPERTIES
  CancelledStaysCancelled
