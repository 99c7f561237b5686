CONSTANTS
  None = None
  ContextLimit = 2
  Turns = {t1, t2, t3}
  Convs = {c1}
  Procs = {server}
  MaxDeltas = 1
  MaxCrashes = 1
SYMMETRY TurnSymmetry
SPECIFICATION Spec
CHECK_DEADLOCK FALSE
INVARIANTS
  MutualExclusion
  SettledContext
  DoneIsPersisted
PROPERTIES
  ImplementsSerial
