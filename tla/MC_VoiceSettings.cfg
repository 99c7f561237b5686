CONSTANTS
  MaxRuns = 2
  MaxSaves = 1
SPECIFICATION Spec
INVARIANT ImportedOnce
CHECK_DEADLOCK FALSE
