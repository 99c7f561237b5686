CONSTANTS
  Devices = {d1, d2}
  OneDevice = d1
  Chats = {c1}
  NoChat = NoChat
  MaxLocal = 3
  MaxFaults = 1
  MaxUpdates = 2
  MaxCrashes = 1
  Agents = {a1, a2, a3}
  Facts = {f1}
  NoFact = NoFact
  MaxRows = 3
  Starters = {p1, p2}
  NoStarter = NoStarter
  LastVersion = 3
  Baseline = {1, 3}
  Keys <- MCKeys
  Texts = {own}
  NoText = NoText
  DefaultText = DefaultText
  MaxStarts = 3
  MaxStops = 1
  Browsers = {b1, b2}
  MaxFailures = 2
  Window = 2
  SessionAge = 2
  Never = Never
  MaxTime = 3
  MaxVerdicts = 4
  HasHash = TRUE
  Reveals = FALSE
  Apps = {{r1, r2}, {r3}}
  Commands = {k1}
  Names = {n1, n2}
  Transports = {stdio, http}
  Secret = secret
  Blank = blank
  NoServer = NoServer
  MaxJobs = 2
  MaxHalts = 1
SPECIFICATION MCSpec
CHECK_DEADLOCK FALSE
INVARIANTS
  SomeChatIsLeft
  ConfirmedWasSettled
  SessionIsLive
  FactsAreSingle
  NoStartIsRefused
  OwnTextStays
  GuessesAreBounded
  SavedStays
PROPERTIES
  BotCatchesUp
