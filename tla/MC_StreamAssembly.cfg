CONSTANTS
  Tools = {"search"}
  MaxTexts = 1
  MaxToolCalls = 2
  MaxArgs = 1
  MaxWire = 1
SPECIFICATION AsmSpec
CHECK_DEADLOCK FALSE
INVARIANT WholeReply
