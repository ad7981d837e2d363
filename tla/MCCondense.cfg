SPECIFICATION Spec
CONSTANTS
  Symbol <- MCSymbol
  State <- MCState
  Nondef <- MCNondef
  Value <- MCState
  ControlPoints <- MCControlPoints
  Systems <- MCSystems
INVARIANTS
  TypeOK
  CondensedSound
  CondensedComplete
PROPERTIES
  Terminates
CHECK_DEADLOCK FALSE
