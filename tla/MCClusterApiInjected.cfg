\* A hidden, service-set passthrough field next to an envelope one.
CONSTANTS
  HyperFleetFeatureGates <- MCGates
  FieldRegistry <- MCPassthroughRegistry
  Field <- MCPassthroughField
  Holder <- MCHolder
  TopLevel <- MCPassthroughTopLevel
  MirrorOnly = {}
  CustomerValue = {c1, c2}
  PlatformValue = {p1}
  Zero = Zero
  Nil = Nil
  Gate = {"PremiumFeature"}
  Replace = FALSE
  MaxBody = 1
SPECIFICATION Spec
INVARIANT ServiceSetFieldsInjected
