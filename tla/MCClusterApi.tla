---------------------------- MODULE MCClusterApi ----------------------------
(***************************************************************************)
(* ClusterApi on a registry with one field of each kind the code tells     *)
(* apart.  MCRegistry is modelled on the generated registry and on the     *)
(* markers of docs/api-management.md and gated_writemode_test.go;          *)
(* MCIrregularRegistry has a field whose specific override restates the    *)
(* base mode while its default override opens the field, MCPassthrough-    *)
(* Registry one of the hidden passthrough fields every cluster needs,      *)
(* MCNestedRegistry a visible service-set struct.                          *)
(***************************************************************************)
EXTENDS ClusterApi, TLC

MCGates ==
  "HyperFleetEtcdConfig" :> GA @@ "HyperFleetAutoScaling" :> TechPreview

Meta(mode, hidden, gate, overrides) ==
  [writeMode |-> mode, hidden |-> hidden, featureGate |-> gate, overrides |-> overrides]

Override(gate, mode) == [featureGate |-> gate, writeMode |-> mode]

MCRegistry ==
     "accountId" :> Meta("service-set", TRUE, NoGate, <<>>)
  @@ "channel"   :> Meta("service-set", FALSE, NoGate, <<>>)
  @@ "note"      :> Meta("mutable", TRUE, NoGate, <<>>)
  @@ "tags"      :> Meta("mutable", FALSE, "HyperFleetAutoScaling", <<>>)
  @@ "etcd"      :> Meta("service-set", FALSE, "HyperFleetEtcdConfig",
                         <<Override(NoGate, "service-set"),
                           Override("HyperFleetEtcdConfig", "mutable")>>)
  @@ "tier"      :> Meta("immutable", FALSE, NoGate,
                         <<Override(NoGate, "immutable"), Override("PremiumFeature", "mutable")>>)
  @@ "fips"      :> Meta("immutable", FALSE, NoGate, <<>>)
  @@ "autoNode"  :> Meta("service-set", FALSE, NoGate, <<>>)
  @@ "configuration" :> Meta("service-set", FALSE, NoGate, <<>>)
  @@ "platform"  :> Meta("service-set", TRUE, NoGate, <<>>)

MCIrregularRegistry ==
     "tags"   :> Meta("mutable", FALSE, "HyperFleetAutoScaling", <<>>)
  @@ "locked" :> Meta("immutable", FALSE, NoGate,
                   <<Override("PremiumFeature", "immutable"), Override(NoGate, "mutable")>>)

MCPassthroughRegistry ==
     "accountId" :> Meta("service-set", TRUE, NoGate, <<>>)
  @@ "release"   :> Meta("service-set", TRUE, NoGate, <<>>)
  @@ "tags"      :> Meta("mutable", FALSE, "HyperFleetAutoScaling", <<>>)

MCNestedRegistry ==
     "autoNode" :> Meta("service-set", FALSE, NoGate, <<>>)
  @@ "tags"     :> Meta("mutable", FALSE, "HyperFleetAutoScaling", <<>>)

\* Paths below a struct that has an entry and they have none: upstream has
\* the first and the last, the second is only in the mirror type.
MCStruct ==
  "autoNode.x" :> "autoNode" @@ "kubelet.maxPods" :> "configuration" @@ "aws.region" :> "platform"

MCHolder == [f \in Field |-> IF f \in DOMAIN MCStruct THEN MCStruct[f] ELSE f]

MCField == {"accountId", "channel", "note", "tags", "etcd", "tier", "fips"} \cup DOMAIN MCStruct
MCTopLevel == {"accountId", "note", "tags"}
MCIrregularField == DOMAIN MCIrregularRegistry
MCIrregularTopLevel == {"tags"}
MCPassthroughField == DOMAIN MCPassthroughRegistry
MCPassthroughTopLevel == {"accountId", "tags"}
MCNestedField == {"autoNode.x", "tags"}
MCNestedTopLevel == {"tags"}

=============================================================================
