SPECIFICATION Spec
CONSTANTS
  start = "start"
  stop = "stop"
  OtherStarts = {"other_start"}
  Nondef = {"nondef.0", "nondef.1", "nondef.2"}
  Systems <- MCSystems
INVARIANTS
  PositionsAligned
  NoFreeVariables
  TransitionsKept
  ConstraintsKept
  VariablesFound
CHECK_DEADLOCK FALSE
