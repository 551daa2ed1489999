CONSTANTS
  t1 = t1
  t2 = t2
  Tasks <- MCTasks
  Compensable <- MCSteps
  NumSteps = 2
  MaxAttempts = 1
  CompLimit = 3
  Overlap = FALSE
  MaxRows = 4
  MaxRuns = 2
  MaxCancels = 1
  MaxCrashes = 1
  MaxFaults = 1
SPECIFICATION Spec
INVARIANT TypeOK
INVARIANT UndoneAsRecorded
INVARIANT FailedLeavesNothingPending
PROPERTY LastInFirstOut
CHECK_DEADLOCK FALSE
SYMMETRY TaskSymmetry
INVARIANT ReplayIsEarned
