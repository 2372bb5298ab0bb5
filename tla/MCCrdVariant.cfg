\* Two changes, one interrupted run.
CONSTANTS
  TypeVersions <- MCTypeVersions
  GateTable <- MCGateTable
  NoFile = NoFile
  Truncated = Truncated
  MaxEdits = 2
  MaxInterrupts = 1
SPECIFICATION RoutineSpec
INVARIANTS
  TypeOK
  StaleIsNeverWider
  VariantsNest
PROPERTIES
  EventuallyRight
  CompleteRunIsRight
