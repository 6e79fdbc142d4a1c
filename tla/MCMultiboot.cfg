CONSTANTS
  a = a
  b = b
  c = c
  Files <- MCFiles
  Builds <- MCBuilds
  Faults = {"crash", "save", "unlink"}
  MaxRuns = 3
  MaxSignals = 2
SPECIFICATION FairSpec
INVARIANTS
  CleanupPossible
  JobsDone
  SuccessIsComplete
PROPERTIES
  CleanupComplete
  Ends
CHECK_DEADLOCK FALSE
