\* Two changes, nothing interrupted.
CONSTANTS
  TypeVersions <- MCTypeVersions
  GateTable <- MCGateTable
  NoFile = NoFile
  Truncated = Truncated
  MaxEdits = 2
  MaxInterrupts = 0
SPECIFICATION Spec
INVARIANT EachTierOnly
