SPECIFICATION Spec
CONSTANTS
  Shapes <- MCShapes
  Half = 4
  Values <- MCValues
  MaxIterations = 8
INVARIANTS
  InnerConditionsHold
  ExitConditionsHold
CHECK_DEADLOCK FALSE
