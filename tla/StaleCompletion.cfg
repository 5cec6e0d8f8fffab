SPECIFICATION Spec
CONSTANTS
  MaxTasks = 1
  Agents = {a1, a2}
  NoTask = NoTask
  NoAgent = NoAgent
  MaxGen = 4
  MaxReceipts = 2
  MaxWorkers = 1
  MaxAttempts = 3
  Features = {"stop_commands", "auto_retry"}
PROPERTIES
  StaleCompletionNeverLands
