\* One resource, bodies of one field, one restart of the controller.
SPECIFICATION BoundarySpec
CONSTANTS
  HyperFleetFeatureGates <- MCGates
  FieldRegistry <- MCRegistry
  Field = {"accountId", "capabilities", "channel"}
  Holder <- MCHolder
  TopLevel = {"accountId"}
  MirrorOnly = {}
  CustomerValue = {c1, c2}
  PlatformValue = {p1}
  Zero = Zero
  Nil = Nil
  Gate = {}
  Replace = TRUE
  MaxBody = 1
  Unmapped = {"capabilities"}
  NoObject = NoObject
  MaxRestarts = 1
INVARIANTS
  BoundaryTypeOK
PROPERTIES
  ImmutableReachesHyperShiftOnce
  SpecArrives
  ReadinessIsTold
