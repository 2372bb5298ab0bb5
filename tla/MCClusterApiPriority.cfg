\* An override list whose specific entry restates the base mode.
CONSTANTS
  HyperFleetFeatureGates <- MCGates
  FieldRegistry <- MCIrregularRegistry
  Field <- MCIrregularField
  Holder <- MCHolder
  TopLevel <- MCIrregularTopLevel
  MirrorOnly = {}
  CustomerValue = {c1, c2}
  PlatformValue = {p1}
  Zero = Zero
  Nil = Nil
  Gate = {"PremiumFeature"}
  Replace = FALSE
  MaxBody = 1
SPECIFICATION Spec
INVARIANT DocumentedPriority
