SPECIFICATION Spec
CONSTANTS
  Graphs <- MCGraphs
  Callees <- MCCallees
  Location <- MCLocation
  ConstantLocation <- MCConstant
  Arguments <- MCArguments
  Programs <- MCPrograms
  MaxDepth = 5
INVARIANTS
  DefinitionsDominateUses
  OneWalkIsEnough
  ValuesKept
PROPERTIES
  PassReturns
CHECK_DEADLOCK FALSE
