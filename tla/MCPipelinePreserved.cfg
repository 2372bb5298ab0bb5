\* No interrupted make.
CONSTANTS
  SourceTypes <- MCSourceTypes
  SpecSuffixed <- MCSpecSuffixed
  Upstreams <- MCUpstreams
  Policies <- MCPolicies
  Committed <- MCCommitted
  NoBin = NoBin
  MaxEdits = 1
  MaxBumps = 1
  MaxInterrupts = 0
SPECIFICATION Spec
PROPERTY MarkersPreserved
