---------------------------- MODULE MCCrdVariant ----------------------------
(***************************************************************************)
(* CrdVariant with the gates of the registry that matter here and three    *)
(* versions of the types: the second adds a gated field with an ungated    *)
(* child and a list whose elements have a gated field, the third takes the *)
(* gate off tags.                                                          *)
(***************************************************************************)
EXTENDS CrdVariant, TLC

MCGateTable ==
  "HyperFleetAutoScaling" :> 1 @@ "HyperFleetKubeletAdvanced" :> 2

Field(gate, list) == [gate |-> gate, list |-> list]

MCFirst ==
     <<"spec">> :> Field(NoGate, FALSE)
  @@ <<"spec", "properties">> :> Field(NoGate, FALSE)
  @@ <<"spec", "tags">> :> Field("HyperFleetAutoScaling", FALSE)

MCAdded ==
     <<"spec", "kubelet">> :> Field("HyperFleetKubeletAdvanced", FALSE)
  @@ <<"spec", "kubelet", "maxPods">> :> Field(NoGate, FALSE)
  @@ <<"spec", "pools">> :> Field(NoGate, TRUE)
  @@ <<"spec", "pools", "spot">> :> Field("HyperFleetAutoScaling", FALSE)

MCUngated == [MCFirst EXCEPT ![<<"spec", "tags">>] = Field(NoGate, FALSE)]

MCTypeVersions == {MCFirst, MCFirst @@ MCAdded, MCUngated @@ MCAdded}

=============================================================================
