SPECIFICATION Spec
CONSTANTS
  start = "start"
  stop = "stop"
  OtherStarts = {"other_start"}
  Nondef = {"nondef.0", "nondef.1", "nondef.2"}
  Systems <- TwoCallSystems
INVARIANTS
  RecursiveCallsKept
CHECK_DEADLOCK FALSE
