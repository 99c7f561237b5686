CONSTANTS
  a1 = a1
  a2 = a2
  HostClients = {a1, a2}
  Ids = {"postgres", "projects-api", "projects-mcp"}
  LegacyMarks = {{"projects-api"}}
  NewPorts = {1}
  MaxRequests = 3
  MaxHostFaults = 1
  Conns = {c1, c2}
  Callers = {a1, a2}
  Servers = {server1, server2}
  MaxVersion = 2
  MaxToolFaults = 1
  Processes = {p1, p2, p3}
  Secrets = {s1, s2}
  Keys = {key1, key2}
  NoKey = NoKey
  Empty = Empty
  Editors = {a1, a2}
  Synced = Synced
  Manual = Manual
  Names = {1, 2}
  MaxModels = 4
  MaxLists = 2
  MaxDbFaults = 1
  Asks = {a1, a2}
  ProviderKind <- Kinds
  Keyed = {2}
  SourceOf <- Sources
  Offers <- ModelsDev
  MaxAsks = 2
  MaxWrites = 1
  MaxEdits = 1
  MaxChoiceFaults = 1
SPECIFICATION MCSettingsSpec
SYMMETRY Symmetric
CHECK_DEADLOCK FALSE
INVARIANTS
  PairsMarkedTogether
  ServedIsCurrent
  SecretsOpen
  AModelStaysActive
  ChoiceStands
  PromptIsKept
