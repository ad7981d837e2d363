SPECIFICATION PassSpec
CONSTANTS
  Block <- MCBlock
  CFGs <- AllCFGs
INVARIANTS
  DominatorsFirst
  BackwardEdgesCloseLoops
  FactsHold
  ReduciblePredecessorsFirst
PROPERTIES
  SortTerminates
CHECK_DEADLOCK FALSE
