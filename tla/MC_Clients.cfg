CONSTANTS
  MaxChats = 2
  MaxRuns = 2
  MaxDeltas = 2
  MaxSessions = 1
  MaxLoads = 2
  MaxCalls = 2
  TermProviders = {1, 2}
  TermModels = {1}
  MaxTermTurns = 2
  MaxForeign = 1
  MaxTermFaults = 1
  Tools = {"search", "time"}
  MaxTexts = 1
  MaxToolCalls = 2
  MaxArgs = 1
  MaxWire = 1
  r1 = r1
  r2 = r2
  r3 = r3
  Requests = {r1, r2, r3}
  ManagerOf <- Managers
  MaxIssued = 3
  MaxAuthFaults = 1
SPECIFICATION MCClientsSpec
SYMMETRY Interchangeable
CHECK_DEADLOCK FALSE
INVARIANTS
  ShownBelongs
  ReplyIsWhole
  AnswersFollow
  AcceptedIsMeant
  StaysSignedIn
