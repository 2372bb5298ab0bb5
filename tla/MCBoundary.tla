------------------------------ MODULE MCBoundary ------------------------------
(***************************************************************************)
(* HyperShiftBoundary with a mutable field that both conversions map,      *)
(* capabilities, which the HostedCluster conversion leaves out, here as an *)
(* immutable field, and an envelope field the platform fills in.  Updates  *)
(* replace the spec.                                                       *)
(***************************************************************************)
EXTENDS HyperShiftBoundary, TLC

Meta(mode, hidden) ==
  [writeMode |-> mode, hidden |-> hidden, featureGate |-> NoGate, overrides |-> <<>>]

MCGates == "HyperFleetEtcdConfig" :> GA

MCHolder == [f \in Field |-> f]

MCRegistry ==
     "accountId" :> Meta("service-set", TRUE)
  @@ "capabilities" :> Meta("immutable", FALSE)
  @@ "channel"   :> Meta("mutable", FALSE)

=============================================================================
