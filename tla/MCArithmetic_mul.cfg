SPECIFICATION Spec
CONSTANTS
  Programs <- MCProducts
CHECK_DEADLOCK FALSE
INVARIANTS
  ResultsKept
