CONSTANTS
  init = init  a = a  b = b
  Calls <- MCCalls
  Opener = init
  PipeSize = 2
  OutSize = 1
  MaxUnasked = 1
  Users = {t1, t2}
  Versions = {1, 2, 3}
  Good = {2, 3}
  MaxEdits = 2
  MaxMishaps = 2
  Askers = {u1, u2}
  MaxSessions = 2
  MaxIds = 2
  MaxPages = 1
  MaxTrouble = 1
SPECIFICATION MCMcpSpec
INVARIANTS OwnAnswer WholeLines ServesTheFile RequestsAfterHandshake
PROPERTIES EveryCallEnds Converges
CHECK_DEADLOCK FALSE
