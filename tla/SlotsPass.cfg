SPECIFICATION FairSpec
CONSTANTS
  Keys = {k1, k2, k3, k4, k5}
  Limits = {1, 2}
  Resizes = {3}
INVARIANTS
  NoWaiterForgotten
PROPERTIES
  ImplementsPool
  EveryWaiterServed
