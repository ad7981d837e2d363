SPECIFICATION MCSpec
CONSTANTS
  N = 4
  t1 = t1
  t2 = t2
  Types = {t1, t2}
  Globals = {g}
  MaxSites = 3
  Options <- MCOptions
  SourceSets <- MCSources
  SiteSets <- MCSites
  Writes <- MCWrites
INVARIANTS
  TypeOK
  HierarchyExact
  ComponentsPartition
  StackDiscipline
  NoLookupFails
  MayZapExact
  ConvertsBottomUp
PROPERTIES
  ImplementsCallOrder
  DriverTerminates
CHECK_DEADLOCK FALSE
