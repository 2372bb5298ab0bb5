\* One customer, two values, bodies of at most two fields.
CONSTANTS
  HyperFleetFeatureGates <- MCGates
  FieldRegistry <- MCRegistry
  Field <- MCField
  Holder <- MCHolder
  TopLevel <- MCTopLevel
  MirrorOnly = {"kubelet.maxPods"}
  CustomerValue = {c1, c2}
  PlatformValue = {p1}
  Zero = Zero
  Nil = Nil
  Gate = {"PremiumFeature"}
  Replace = FALSE
  MaxBody = 2
SPECIFICATION Spec
INVARIANTS
  TypeOK
  PlatformOwnedStaysPlatform
  HiddenNeverCustomer
  ImmutableKeepsFirstValue
PROPERTIES
  WritesAreEntitled
  ImplementsOwnership
