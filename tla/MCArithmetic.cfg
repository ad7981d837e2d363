SPECIFICATION Spec
CONSTANTS
  Programs <- MCPrograms
CHECK_DEADLOCK FALSE
INVARIANTS
  PipelineTypeOK
  ResultsKept
  ResultsExact
  ResultsBounded
PROPERTIES
  RunsEnd
