CONSTANTS
  None = None
  ContextLimit = 80
  Turns = {t1, t2}
  Convs = {c1}
  Procs = {server, desktop}
  MaxDeltas = 0
  MaxCrashes = 0
SPECIFICATION Spec
CHECK_DEADLOCK FALSE
INVARIANT TurnsDoNotInterleave
