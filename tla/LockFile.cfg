SPECIFICATION Spec
CONSTANTS
  Pids = {1, 2, 3, 4}
  MaxFiles = 3
INVARIANTS MutualExclusion
CHECK_DEADLOCK FALSE
