SPECIFICATION Spec
CONSTANTS
  MaxTasks = 2
  Agents = {a1}
  NoTask = NoTask
  NoAgent = NoAgent
  MaxGen = 2
  MaxReceipts = 1
  MaxWorkers = 1
  MaxAttempts = 1
  Features = {"edit_tools", "stop_commands"}
INVARIANTS
  TypeOK
  CacheCoherent
  BackLinksComplete
PROPERTIES
  CancelReleases
