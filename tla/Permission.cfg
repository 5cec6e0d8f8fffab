SPECIFICATION Spec
CONSTANTS
  Workers = {w1}
  Leader = leader
  NoGate = NoGate
  DefaultYolo = TRUE
  BelowYolo = TRUE
  MaxRequests = 2
  Parallel = 2
  MaxAnswers = 0
INVARIANTS TypeOK GrantsAreApproved NoRequestForgotten YoloIsUsersChoice
PROPERTIES QueueIsServed
