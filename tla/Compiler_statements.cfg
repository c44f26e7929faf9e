SPECIFICATION Spec
CONSTANTS
  Mixes <- MCMixes
  Bare = {"If"}
  Usage = {}
  LocalsMax = 6
  MaxStatements = 4
  MaxLabels = 2
  MaxFunctions = 2
  MaxParameters = 1
  WithMax = 2
INVARIANTS SlotsMatch WithsMatch BreakpointsPlaced
PROPERTY EvaluatesInOrder
CHECK_DEADLOCK FALSE
