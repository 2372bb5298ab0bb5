------------------------ MODULE HyperShiftBoundaryProofs ------------------------
(***************************************************************************)
(* What HyperShift is told of an immutable field, for every registry, both *)
(* kinds of update and any number of requests and restarts.                *)
(***************************************************************************)
EXTENDS HyperShiftBoundary, ClusterApiProofs

(* The controller only reads what the write path stores, so all that is    *)
(* proved of the write path holds while resources are reconciled.          *)
THEOREM BoundaryIsClusterApi == BoundarySpec => Spec
  <1>1. BoundaryInit => Init
    BY DEF BoundaryInit
  <1>2. [BoundaryNext]_allVars => [Next]_vars
    <2> SUFFICES ASSUME [BoundaryNext]_allVars PROVE [Next]_vars
      OBVIOUS
    <2>1. CASE CustomerRequest
      BY <2>1 DEF CustomerRequest, Next
    <2>2. Reconcile \/ Restart => UNCHANGED vars
      BY DEF Reconcile, ReadResource, Apply, ReadStatus, UpdateStatus, Restart
    <2>3. ASSUME NEW type, NEW status, SetCondition(type, status) PROVE UNCHANGED vars
      BY <2>3 DEF SetCondition
    <2>4. UNCHANGED allVars => UNCHANGED vars
      BY DEF allVars
    <2> QED
      BY <2>1, <2>2, <2>3, <2>4 DEF BoundaryNext
  <1> QED
    BY <1>1, <1>2, PTL DEF BoundarySpec, Spec

(* What an accepted update leaves of an immutable field: its value, or     *)
(* nothing.                                                                *)
LEMMA UpdatedImmutable ==
  ASSUME crd \in [Field -> Value],
         NEW body \in Bodies, NEW e \in Enrichments, UpdateCluster(body, e),
         NEW f \in Field, AlwaysOfMode(f, "immutable"), crd[f] # Zero
  PROVE  crd'[f] \in {crd[f], Zero}
  <1>1. crd' = UnprojectCluster(Decode(body, UpdateBase), e)
    BY DEF UpdateCluster, UpdateBase
  <1>2. f \notin EnrichedFields
    BY DEF AlwaysOfMode, EnrichedFields, ServiceSetFields
  <1>3. f \in Present(crd)
    BY DEF Present
  <1>4. f \notin DOMAIN body
    BY <1>3, AcceptedMode, PresentIsNotNil DEF UpdateCluster
  <1>5. f \in RestFields => UpdateBase[f] \in {crd[f], Zero}
    BY DEF UpdateBase, EmptyRest, ProjectCluster
  <1> QED
    BY <1>1, <1>2, <1>4, <1>5, UpdateBaseType, StoredValue

(* The invariant: HyperShift's object, the copy a reconcile works on and   *)
(* the stored spec agree on each immutable field that has a value in the   *)
(* older of any two of them.                                               *)
Agreement(f) ==
  /\ hosted # NoObject /\ hosted[f] # Zero =>
       /\ ~(kind = "Cluster" /\ f \in Unmapped)
       /\ crd[f] = hosted[f]
       /\ step = "read" => copy[f] = hosted[f]
  /\ step = "read" /\ copy[f] # Zero => crd[f] = copy[f]

ImmutableAgrees ==
  /\ hosted # NoObject \/ step = "read" => exists
  /\ \A f \in Passthrough : AlwaysOfMode(f, "immutable") /\ f \notin cleared => Agreement(f)

(* What a request does to an immutable field that no update has removed.   *)
LEMMA RequestKeepsImmutable ==
  ASSUME crd \in [Field -> Value], CustomerRequest, exists, NEW f \in Field, AlwaysOfMode(f, "immutable"),
         f \notin cleared', crd[f] # Zero
  PROVE  f \notin cleared /\ crd'[f] = crd[f]
  <1>1. PICK body \in Bodies, e \in Enrichments : UpdateCluster(body, e)
    BY DEF CustomerRequest, CreateCluster
  <1>2. crd'[f] \in {crd[f], Zero}
    BY <1>1, UpdatedImmutable
  <1> QED
    BY <1>2 DEF CustomerRequest, WriteOnce

THEOREM AgreementInvariant == BoundarySpec => []ImmutableAgrees
  <1>1. BoundaryInit => ImmutableAgrees
    BY DEF BoundaryInit, ImmutableAgrees, Agreement
  <1>2. TypeOK /\ ImmutableAgrees /\ [BoundaryNext]_allVars => ImmutableAgrees'
    <2> SUFFICES ASSUME TypeOK, ImmutableAgrees, [BoundaryNext]_allVars PROVE ImmutableAgrees'
      OBVIOUS
    <2>1. CASE CustomerRequest
      <3>1. UNCHANGED <<kind, hosted, step, copy>> /\ cleared \subseteq cleared'
        BY <2>1 DEF CustomerRequest, controller
      <3>2. exists'
        BY <2>1 DEF CustomerRequest, CreateCluster, UpdateCluster
      <3>3. ASSUME NEW f \in Passthrough, AlwaysOfMode(f, "immutable"), f \notin cleared'
            PROVE  Agreement(f)'
        <4>1. Agreement(f)
          BY <3>1, <3>3 DEF ImmutableAgrees
        <4>2. f \in Field
          BY DEF Passthrough
        <4>3. crd[f] # Zero /\ exists => crd'[f] = crd[f]
          BY <2>1, <3>3, <4>2, RequestKeepsImmutable DEF TypeOK
        <4>4. hosted # NoObject \/ step = "read" => exists
          BY DEF ImmutableAgrees
        <4> QED
          BY <3>1, <4>1, <4>3, <4>4 DEF Agreement
      <3> QED
        BY <3>2, <3>3 DEF ImmutableAgrees, AlwaysOfMode, Registered
    <2>2. CASE ReadResource
      <3>1. ASSUME NEW f \in Passthrough, AlwaysOfMode(f, "immutable"), f \notin cleared
            PROVE  Agreement(f)'
        <4>1. Agreement(f)
          BY <3>1 DEF ImmutableAgrees
        <4> QED
          BY <2>2, <4>1 DEF ReadResource, Agreement, vars
      <3> QED
        BY <2>2, <3>1 DEF ReadResource, ImmutableAgrees, AlwaysOfMode, Registered, vars
    <2>3. CASE Apply
      <3>1. /\ step = "read" /\ step' = "applied"
            /\ hosted' = ToHyperShift(kind, copy)
            /\ UNCHANGED <<exists, crd, kind, cleared>>
        BY <2>3 DEF Apply, vars
      <3>2. ASSUME NEW f \in Passthrough, AlwaysOfMode(f, "immutable"), f \notin cleared
            PROVE  Agreement(f)'
        <4>1. Agreement(f)
          BY <3>2 DEF ImmutableAgrees
        <4>2. hosted'[f] = IF kind = "Cluster" /\ f \in Unmapped THEN Zero ELSE copy[f]
          BY <3>1 DEF ToHyperShift
        <4> QED
          BY <3>1, <4>1, <4>2 DEF Agreement
      <3> QED
        BY <3>1, <3>2 DEF ImmutableAgrees, AlwaysOfMode, Registered
    <2>4. CASE ReadStatus \/ UpdateStatus \/ Restart
      <3>1. step' # "read" /\ UNCHANGED <<exists, crd, kind, hosted, cleared>>
        BY <2>4 DEF ReadStatus, UpdateStatus, Restart, vars
      <3> QED
        BY <3>1 DEF ImmutableAgrees, Agreement, AlwaysOfMode, Registered
    <2>5. ASSUME NEW type, NEW status, SetCondition(type, status) PROVE ImmutableAgrees'
      BY <2>5 DEF SetCondition, controller, ImmutableAgrees, Agreement, AlwaysOfMode, Registered, vars
    <2>6. CASE UNCHANGED allVars
      BY <2>6 DEF allVars, boundaryVars, controller, vars, ImmutableAgrees, Agreement,
                  AlwaysOfMode, Registered
    <2> QED
      BY <2>1, <2>2, <2>3, <2>4, <2>5, <2>6 DEF BoundaryNext, Reconcile
  <1> QED
    BY <1>1, <1>2, BoundaryIsClusterApi, TypeCorrect, PTL DEF BoundarySpec

(* HyperShift is never told a second value of an immutable field that no   *)
(* replacing update has removed, from however old a copy.                  *)
THEOREM ImmutableToldOnce == BoundarySpec => ImmutableReachesHyperShiftOnce
  <1> DEFINE Once(f) ==
               (/\ AlwaysOfMode(f, "immutable") /\ f \notin cleared
                /\ hosted # NoObject /\ hosted[f] # Zero) => hosted'[f] = hosted[f]
  <1>1. ImmutableAgrees /\ [BoundaryNext]_allVars => [\A f \in Passthrough : Once(f)]_allVars
    <2> SUFFICES ASSUME ImmutableAgrees, BoundaryNext, NEW f \in Passthrough,
                        AlwaysOfMode(f, "immutable"), f \notin cleared,
                        hosted # NoObject, hosted[f] # Zero
                 PROVE  hosted'[f] = hosted[f]
      OBVIOUS
    <2>1. CASE Apply
      <3>1. hosted'[f] = IF kind = "Cluster" /\ f \in Unmapped THEN Zero ELSE copy[f]
        BY <2>1 DEF Apply, ToHyperShift
      <3>2. Agreement(f) /\ step = "read"
        BY <2>1 DEF Apply, ImmutableAgrees
      <3> QED
        BY <3>1, <3>2 DEF Agreement
    <2>2. CASE UNCHANGED hosted
      BY <2>2
    <2> QED
      BY <2>1, <2>2 DEF BoundaryNext, CustomerRequest, Reconcile, ReadResource, ReadStatus,
                        UpdateStatus, Restart, SetCondition
  <1> QED
    BY <1>1, AgreementInvariant, PTL DEF BoundarySpec, ImmutableReachesHyperShiftOnce

-----------------------------------------------------------------------------

\* The states the conversions compute; one is not in the Enum of the CRD.
Computed(k) == StateEnum(k) \cup (IF k = "NodePool" THEN {"updating"} ELSE {})

LEMMA ComputedState ==
  ASSUME NEW k \in {"Cluster", "NodePool"}, NEW conds
  PROVE  FromHyperShift(k, conds) \in Computed(k)
  BY DEF FromHyperShift, computeClusterState, computeNodePoolState, Computed, StateEnum

(* The types of the composition: the customer is only ever shown a state   *)
(* of the Enum, whatever HyperShift's conditions are.                      *)
THEOREM BoundaryTypeCorrect == BoundarySpec => []BoundaryTypeOK
  <1>0. MaxRestarts \in Nat
    BY BoundaryAssumption, Zenon
  <1>1. BoundaryInit => (TypeOK => BoundaryTypeOK)
    <2> SUFFICES ASSUME BoundaryInit, TypeOK PROVE BoundaryTypeOK
      OBVIOUS
    <2>1. restarts \in 0 .. MaxRestarts
      <3>1. restarts = 0
        BY Zenon DEF BoundaryInit
      <3> QED
        BY <1>0, <3>1
    <2>2. conditions \in Conditions(kind)
      BY DEF BoundaryInit
    <2> QED
      BY <2>1, <2>2 DEF BoundaryInit, BoundaryTypeOK
  <1>2. TypeOK' /\ BoundaryTypeOK /\ [BoundaryNext]_allVars => BoundaryTypeOK'
    <2> SUFFICES ASSUME TypeOK', BoundaryTypeOK, [BoundaryNext]_allVars PROVE BoundaryTypeOK'
      OBVIOUS
    <2>1. CASE CustomerRequest
      <3>1. cleared' \subseteq Field
        BY <2>1 DEF CustomerRequest, BoundaryTypeOK, WriteOnce
      <3> QED
        BY <2>1, <3>1 DEF CustomerRequest, controller, BoundaryTypeOK, Conditions, Looked, StateEnum
    <2>2. CASE ReadResource
      <3>1. copy' \in [Field -> Value] /\ copy' # NoObject
        BY <2>2, BoundaryAssumption DEF ReadResource, BoundaryTypeOK, TypeOK
      <3> QED
        BY <2>2, <3>1 DEF ReadResource, BoundaryTypeOK, Conditions, Looked, StateEnum
    <2>3. CASE Apply
      <3>1. copy \in [Field -> Value]
        BY <2>3 DEF Apply, BoundaryTypeOK
      <3>2. hosted' \in [Passthrough -> Value]
        BY <2>3, <3>1 DEF Apply, ToHyperShift, Passthrough, Value
      <3> QED
        BY <2>3, <3>2 DEF Apply, BoundaryTypeOK, Conditions, Looked, StateEnum
    <2>4. CASE ReadStatus
      <3>1. computed' \in Computed(kind)
        BY <2>4, ComputedState DEF ReadStatus, BoundaryTypeOK
      <3> QED
        BY <2>4, <3>1 DEF ReadStatus, BoundaryTypeOK, Computed, Conditions, Looked, StateEnum
    <2>5. CASE UpdateStatus
      BY <2>5 DEF UpdateStatus, BoundaryTypeOK, Conditions, Looked, StateEnum
    <2>6. CASE Restart
      <3>1. restarts' \in 0 .. MaxRestarts
        <4>1. restarts < MaxRestarts /\ restarts' = restarts + 1
          BY <2>6, Zenon DEF Restart
        <4>2. restarts \in 0 .. MaxRestarts
          BY Zenon DEF BoundaryTypeOK
        <4> QED
          BY <1>0, <4>1, <4>2
      <3> QED
        BY <2>6, <3>1 DEF Restart, BoundaryTypeOK, Conditions, Looked, StateEnum
    <2>7. ASSUME NEW type \in Looked(kind), NEW status \in {"True", "False"},
                 SetCondition(type, status)
          PROVE  BoundaryTypeOK'
      <3>1. conditions' \in Conditions(kind)
        <4>1. PICK S \in SUBSET Looked(kind) : conditions \in [S -> {"True", "False"}]
          BY DEF BoundaryTypeOK, Conditions
        <4>2. conditions' \in [S \cup {type} -> {"True", "False"}]
          BY <2>7, <4>1 DEF SetCondition
        <4>3. S \cup {type} \in SUBSET Looked(kind)
          BY <2>7
        <4> QED
          BY <4>2, <4>3 DEF Conditions
      <3> QED
        BY <2>7, <3>1 DEF SetCondition, controller, BoundaryTypeOK, Conditions, Looked, StateEnum
    <2>8. CASE UNCHANGED allVars
      BY <2>8 DEF allVars, boundaryVars, controller, BoundaryTypeOK, Conditions, Looked, StateEnum
    <2> QED
      BY <2>1, <2>2, <2>3, <2>4, <2>5, <2>6, <2>7, <2>8 DEF BoundaryNext, Reconcile
  <1> QED
    BY <1>1, <1>2, BoundaryIsClusterApi, TypeCorrect, PTL DEF BoundarySpec

=============================================================================
