SPECIFICATION Spec
CONSTANTS
  Programs <- MCItself
CHECK_DEADLOCK FALSE
INVARIANTS
  ResultsKept
