SPECIFICATION FairSpec
CONSTANTS
  MaxTasks = 2
  Agents = {a1, a2}
  NoTask = NoTask
  NoAgent = NoAgent
  MaxGen = 3
  MaxReceipts = 1
  MaxWorkers = 2
  MaxAttempts = 3
  Features = {"auto_retry"}
PROPERTIES
  RunsEnd
