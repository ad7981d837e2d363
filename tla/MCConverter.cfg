SPECIFICATION Spec
CONSTANTS
  Value <- MCValue
  Globals <- MCGlobals
  Functions <- MCFunctions
  OptionSets <- MCOptions
INVARIANTS
  ConverterTypeOK
  Exact
  CyclesCut
  NondefsFresh
PROPERTIES
  Simulated
CHECK_DEADLOCK FALSE
