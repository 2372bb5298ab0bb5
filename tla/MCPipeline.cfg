\* Two HyperShift versions, one edit, one interrupted make.
CONSTANTS
  SourceTypes <- MCSourceTypes
  SpecSuffixed <- MCSpecSuffixed
  Upstreams <- MCUpstreams
  Policies <- MCPolicies
  Committed <- MCCommitted
  NoBin = NoBin
  MaxEdits = 1
  MaxBumps = 1
  MaxInterrupts = 1
SPECIFICATION DeveloperSpec
INVARIANTS
  TypeOK
  NewFieldsStayHidden
  GreenMeansSameFields
  GreenMeansOwned
PROPERTIES
  GenerateKeepsMarkers
  EventuallyGreen
