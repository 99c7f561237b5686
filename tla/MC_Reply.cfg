CONSTANTS
  search = search
  remember_fact = remember_fact
  invented = invented
  Tools <- MCTools
  McpTools <- MCMcpTools
  MemoryTools <- MCMemoryTools
  Unknown = invented
  MaxRounds = 2
  MaxCalls = 2
  MaxDeltas = 2
  Depth = 2
  MaxFragments = 6
  None = None
  ContextLimit = 80
  Turns = {t1, t2}
  Convs = {c1, c2}
  Procs = {server}
  MaxCrashes = 1
SPECIFICATION MCReplySpec
CHECK_DEADLOCK FALSE
INVARIANTS
  PairedHistory
  Conservation
  HonestVerdict
PROPERTIES
  ImplementsReply
  EveryTurnEnds
