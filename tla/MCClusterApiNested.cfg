\* A path without an entry below a visible service-set struct.
CONSTANTS
  HyperFleetFeatureGates <- MCGates
  FieldRegistry <- MCNestedRegistry
  Field <- MCNestedField
  Holder <- MCHolder
  TopLevel <- MCNestedTopLevel
  MirrorOnly = {}
  CustomerValue = {c1, c2}
  PlatformValue = {p1}
  Zero = Zero
  Nil = Nil
  Gate = {"PremiumFeature"}
  Replace = FALSE
  MaxBody = 1
SPECIFICATION Spec
INVARIANT NestedServiceSetIsPlatforms
