---------------------------- MODULE FeatureGate ----------------------------
(***************************************************************************)
(* pkg/featuregate: the maturity stages, the feature sets, the registry of *)
(* gates and the field filters built on them.  Pure operators; a request   *)
(* validator and the CRD tooling are built on top.                         *)
(*                                                                         *)
(* The generated registry (pkg/registry, markers.FieldRegistry) is data:   *)
(* it is the constant FieldRegistry, a function from the registered field  *)
(* paths to their metadata.  A path is an opaque name.                     *)
(***************************************************************************)
EXTENDS Naturals, Sequences

CONSTANTS
  HyperFleetFeatureGates,   \* gate name |-> stage, for every declared gate
  FieldRegistry             \* field path |-> FieldMeta, for every registered path

GA == 0
TechPreview == 1
DevPreview == 2
FeatureStage == {GA, TechPreview, DevPreview}

FeatureSet == {"Default", "TechPreviewNoUpgrade", "DevPreviewNoUpgrade"}

NoGate == ""
DeclaredGates == DOMAIN HyperFleetFeatureGates

WriteMode == {"mutable", "immutable", "service-set"}
NoMode == ""

(* FieldMeta: the gate named by a field or by an override need not be one  *)
(* that is declared, and a registered field may lack a write mode.         *)
IsFieldMeta(m) ==
  /\ DOMAIN m = {"writeMode", "hidden", "featureGate", "overrides"}
  /\ m.writeMode \in WriteMode \cup {NoMode}
  /\ m.hidden \in BOOLEAN
  /\ m.featureGate \in STRING
  /\ m.overrides \in Seq([featureGate : STRING, writeMode : WriteMode])

ASSUME GatesAssumption ==
  /\ HyperFleetFeatureGates \in [DeclaredGates -> FeatureStage]
  /\ DeclaredGates \subseteq STRING
  /\ NoGate \notin DeclaredGates

ASSUME RegistryAssumption ==
  \A f \in DOMAIN FieldRegistry : IsFieldMeta(FieldRegistry[f])

-----------------------------------------------------------------------------

MaxStage(featureSet) ==
  IF featureSet = "TechPreviewNoUpgrade" THEN TechPreview
  ELSE IF featureSet = "DevPreviewNoUpgrade" THEN DevPreview
  ELSE GA

\* Mutant: a set has the gates of its own stage only.
Includes_Exact(featureSet, stage) == stage = MaxStage(featureSet)

Includes(featureSet, stage) == stage <= MaxStage(featureSet)

\* Unknown gates are disabled.
IsGateEnabled(gate, featureSet) ==
  /\ gate \in DeclaredGates
  /\ Includes(featureSet, HyperFleetFeatureGates[gate])

GatesForFeatureSet(featureSet) ==
  {g \in DeclaredGates : HyperFleetFeatureGates[g] <= MaxStage(featureSet)}

Registered(f) == f \in DOMAIN FieldRegistry
Hidden(f) == Registered(f) /\ FieldRegistry[f].hidden

=============================================================================
