SPECIFICATION Spec
CONSTANTS
  MaxTasks = 1
  Agents = {a1, a2}
  NoTask = NoTask
  NoAgent = NoAgent
  MaxGen = 5
  MaxReceipts = 3
  MaxWorkers = 1
  MaxAttempts = 2
  Features = {"edit_tools", "status_tool", "stop_commands", "auto_retry", "session_ttl", "cancel_crash", "respawn_throttle"}
INVARIANTS
  CacheCoherent
  VerdictSettlesRun
  OneVerdictPerWorker
PROPERTIES
  RowsKeepLedger
