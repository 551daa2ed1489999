CONSTANTS
  t1 = t1
  t2 = t2
  Tasks <- MCTasks
  Compensable = {1}
  NumSteps = 1
  MaxAttempts = 2
  CompLimit = 2
  Overlap = TRUE
  MaxRows = 2
  MaxRuns = 2
  MaxCancels = 1
  MaxCrashes = 0
  MaxFaults = 1
SPECIFICATION FairSpec
VIEW FutureView
PROPERTY RunTerminates
CHECK_DEADLOCK FALSE
