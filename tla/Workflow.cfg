SPECIFICATION Spec
CONSTANTS
  Nodes <- MCNodes
  Workflows <- MCWorkflows
  Executions = {e1, e2}
  Retries = 1
  Turns = 2
  MaxLive <- MCMaxLive
  MaxRuns <- MCMaxRuns
  MaxWalks = 4
  None = None
INVARIANTS TypeOK OrderRespected CompletedMeansAll IdleIsSettled
PROPERTIES FailedIsFinal StopHolds ExecutionEnds
