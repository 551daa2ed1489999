CONSTANTS
  t1 = t1
  t2 = t2
  Tasks <- MCTasks
  Compensable = {1}
  NumSteps = 2
  MaxAttempts = 1
  CompLimit = 4
  Overlap = TRUE
  MaxRows = 4
  MaxRuns = 2
  MaxCancels = 1
  MaxCrashes = 0
  MaxFaults = 0
SPECIFICATION Spec
INVARIANT EffectIsCompensable
INVARIANT CompletedMeansDone
CHECK_DEADLOCK FALSE
SYMMETRY TaskSymmetry
