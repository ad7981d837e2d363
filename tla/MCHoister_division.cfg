SPECIFICATION Spec
CONSTANTS
  Graphs <- MCGraphs
  Callees <- MCCallees
  Location <- MCLocation
  ConstantLocation <- MCConstant
  Arguments <- MCArguments
  Programs <- MCPrograms
  MaxDepth = 5
INVARIANT
  RunsKept
CHECK_DEADLOCK FALSE
