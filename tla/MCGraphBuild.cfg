SPECIFICATION Spec
CONSTANTS
  Node = {"a", "b", "c", "d"}
  MaxDeps = 3
INVARIANTS
  LevelsAreDepths
  AcceptedIsAcyclic
  ReachIsExact
CHECK_DEADLOCK FALSE
