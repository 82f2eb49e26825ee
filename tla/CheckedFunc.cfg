SPECIFICATION FuncSpec
CONSTANTS
  Blocks = {1, 2, 3, 4}
  Entry = 1
  NoBlock = 0
  Values = {v}
  Constant = constant
  MaxEdges = 5
  MaxWrong = 1
  MaxInstrs = 2
  Kinds = {"mov", "phi"}
INVARIANTS
  DominatorsAreRight
  ThrowsForUnreachedParent
  AcceptedFuncRunsIfDepthFirst
CHECK_DEADLOCK FALSE
