SPECIFICATION FairSpec
CONSTANTS
  N = 4
  Dangling = {0}
  MaxEdges = 5
CHECK_DEADLOCK FALSE
INVARIANTS
  TypeOK
  OrderRespectsEdges
  CycleIsExactlyStuck
  CheckedEdgesStayAcyclic
PROPERTIES
  SortEnds
