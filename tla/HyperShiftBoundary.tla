-------------------------- MODULE HyperShiftBoundary --------------------------
(***************************************************************************)
(* pkg/conversion/hypershift: what the Platform API's controller makes of  *)
(* a stored Cluster or NodePool for HyperShift, and of HyperShift's        *)
(* conditions for the customer.  The write path of ClusterApi goes on      *)
(* while a reconcile is under way, so each conversion works on a copy that *)
(* may be old by the time its result is written.                           *)
(*                                                                         *)
(* The controller is not in the repository.  Its loop is the one of        *)
(* docs/boundary1-conversions.md: read the resource, convert, apply; read  *)
(* HyperShift's object, convert, update the status.  It can be restarted   *)
(* anywhere, which forgets the copy.  Gates and entitlements do not change *)
(* here.                                                                   *)
(***************************************************************************)
EXTENDS ClusterApi

CONSTANTS
  Unmapped,     \* passthrough fields the HostedCluster conversion leaves out
  NoObject,     \* there is no HyperShift object, or no copy of a resource
  MaxRestarts   \* bound

ASSUME BoundaryAssumption ==
  /\ Unmapped \subseteq Field \ TopLevel
  /\ NoObject \notin [Field -> Value] \cup [Field \ TopLevel -> Value]
  /\ MaxRestarts \in Nat

VARIABLES
  kind,        \* "Cluster" or "NodePool"
  hosted,      \* the spec of the HyperShift object, or NoObject
  conditions,  \* HyperShift's conditions that are there, type |-> status
  state,       \* the state in the status of the stored resource, "" for none
  step,        \* where the reconcile is
  copy,        \* the stored spec it works on
  computed,    \* the state it has computed
  cleared,     \* history: immutable fields an update has removed from the spec
  restarts     \* counter for the bound

controller == <<step, copy, computed>>
boundaryVars == <<kind, hosted, conditions, state, controller, cleared, restarts>>
allVars == <<vars, boundaryVars>>

Passthrough == Field \ TopLevel

\* The conditions a state is computed from.
Looked(k) == IF k = "Cluster" THEN {"Available", "Degraded", "Progressing"}
                              ELSE {"Ready", "AllNodesHealthy", "UpdatingVersion"}

\* The Enum of the CRD, which the Kubernetes API server enforces.
StateEnum(k) ==
  {"pending", "ready", "degraded", "deleting", "failed"}
    \cup (IF k = "Cluster" THEN {"provisioning"} ELSE {"scaling"})

Conditions(k) == UNION {[S -> {"True", "False"}] : S \in SUBSET Looked(k)}

Is(conds, type, status) == type \in DOMAIN conds /\ conds[type] = status

\* Mutant: one more field is forgotten.
ToHyperShift_Forgetful(k, spec) ==
  [f \in Passthrough |->
     IF k = "Cluster" /\ (f \in Unmapped \/ FieldRegistry[f].writeMode = "mutable")
       THEN Zero ELSE spec[f]]

\* The HostedCluster conversion names every field but two; the NodePool
\* conversion names them all.
ToHyperShift(k, spec) ==
  [f \in Passthrough |-> IF k = "Cluster" /\ f \in Unmapped THEN Zero ELSE spec[f]]

\* Mutant: a cluster gets the state a NodePool may have.
computeClusterState_Updating(conds) ==
  IF Is(conds, "Available", "True") THEN "ready"
  ELSE IF Is(conds, "Degraded", "True") THEN "degraded"
  ELSE IF Is(conds, "Progressing", "True") THEN "updating"
  ELSE "pending"

computeClusterState(conds) ==
  IF Is(conds, "Available", "True") THEN "ready"
  ELSE IF Is(conds, "Degraded", "True") THEN "degraded"
  ELSE IF Is(conds, "Progressing", "True") THEN "provisioning"
  ELSE "pending"

\* Mutant: an update is looked at before readiness.
computeNodePoolState_UpdateFirst(conds) ==
  IF Is(conds, "UpdatingVersion", "True") THEN "updating"
  ELSE IF Is(conds, "Ready", "True") THEN "ready"
  ELSE IF Is(conds, "AllNodesHealthy", "False") THEN "degraded"
  ELSE "pending"

computeNodePoolState(conds) ==
  IF Is(conds, "Ready", "True") THEN "ready"
  ELSE IF Is(conds, "AllNodesHealthy", "False") THEN "degraded"
  ELSE IF Is(conds, "UpdatingVersion", "True") THEN "updating"
  ELSE "pending"

FromHyperShift(k, conds) ==
  IF k = "Cluster" THEN computeClusterState(conds) ELSE computeNodePoolState(conds)

-----------------------------------------------------------------------------

BoundaryTypeOK ==
  /\ TypeOK
  /\ kind \in {"Cluster", "NodePool"}
  /\ hosted \in [Passthrough -> Value] \cup {NoObject}
  /\ conditions \in Conditions(kind)
  /\ state \in StateEnum(kind) \cup {""}
  /\ step \in {"idle", "read", "applied", "computed"}
  /\ copy \in [Field -> Value] \cup {NoObject}
  /\ (copy # NoObject) = (step = "read")
  /\ computed \in StateEnum(kind) \cup {""} \cup (IF kind = "NodePool" THEN {"updating"} ELSE {})
  /\ cleared \subseteq Field
  /\ restarts \in 0 .. MaxRestarts

BoundaryInit ==
  /\ Init /\ featureSet = "Default"
  /\ kind \in {"Cluster", "NodePool"}
  /\ hosted = NoObject
  /\ conditions \in {c \in Conditions(kind) : DOMAIN c = {}}
  /\ state = ""
  /\ step = "idle" /\ copy = NoObject /\ computed = ""
  /\ cleared = {}
  /\ restarts = 0

\* A request of the customer, at any time.
CustomerRequest ==
  /\ \E body \in Bodies, e \in Enrichments : CreateCluster(body, e) \/ UpdateCluster(body, e)
  /\ cleared' = cleared \cup {f \in WriteOnce : crd[f] # Zero /\ crd'[f] = Zero}
  /\ UNCHANGED <<kind, hosted, conditions, state, controller, restarts>>

ReadResource ==
  /\ exists /\ step = "idle"
  /\ step' = "read" /\ copy' = crd
  /\ UNCHANGED <<vars, kind, hosted, conditions, state, computed, cleared, restarts>>

\* ToHyperShift..., and its result is applied.
Apply ==
  /\ step = "read"
  /\ hosted' = ToHyperShift(kind, copy)
  /\ step' = "applied" /\ copy' = NoObject
  /\ UNCHANGED <<vars, kind, conditions, state, computed, cleared, restarts>>

\* FromHyperShift... on the object as it is now.
ReadStatus ==
  /\ step = "applied"
  /\ computed' = FromHyperShift(kind, conditions)
  /\ step' = "computed"
  /\ UNCHANGED <<vars, kind, hosted, conditions, state, copy, cleared, restarts>>

\* The API server refuses a status whose state is not in the Enum.
UpdateStatus ==
  /\ step = "computed"
  /\ state' = IF computed \in StateEnum(kind) THEN computed ELSE state
  /\ step' = "idle" /\ computed' = ""
  /\ UNCHANGED <<vars, kind, hosted, conditions, copy, cleared, restarts>>

Restart ==
  /\ step # "idle" /\ restarts < MaxRestarts
  /\ step' = "idle" /\ copy' = NoObject /\ computed' = ""
  /\ restarts' = restarts + 1
  /\ UNCHANGED <<vars, kind, hosted, conditions, state, cleared>>

\* HyperShift sets one condition, for the first time or anew.
SetCondition(type, status) ==
  /\ hosted # NoObject
  /\ conditions' = [t \in DOMAIN conditions \cup {type} |->
                      IF t = type THEN status ELSE conditions[t]]
  /\ UNCHANGED <<vars, kind, hosted, state, controller, cleared, restarts>>

Reconcile == ReadResource \/ Apply \/ ReadStatus \/ UpdateStatus

BoundaryNext ==
  \/ CustomerRequest
  \/ Reconcile
  \/ Restart
  \/ \E type \in Looked(kind), status \in {"True", "False"} : SetCondition(type, status)

\* The controller reconciles again and again.
BoundarySpec ==
  BoundaryInit /\ [][BoundaryNext]_allVars /\ WF_allVars(Reconcile)

-----------------------------------------------------------------------------

\* Action property (validator.go:151-187, hypershift/cluster.go:48): HyperShift
\* is never told to change an immutable field it was given, however old the
\* copy it is told from, unless an update whose body replaced the spec had
\* removed the field: then it may see a second value.
ImmutableReachesHyperShiftOnce ==
  [][\A f \in Passthrough :
       (/\ AlwaysOfMode(f, "immutable") /\ f \notin cleared
        /\ hosted # NoObject /\ hosted[f] # Zero) =>
         hosted'[f] = hosted[f]]_allVars

\* Liveness (hypershift/cluster.go:48-82, nodepool.go:41-62): a value a mapped
\* field of the passthrough keeps in the end is the one HyperShift has in the
\* end, across updates and restarts in between.
SpecArrives ==
  \A f \in Passthrough : \A v \in CustomerValue \cup {Zero} :
    <>[](exists /\ crd[f] = v /\ (kind = "NodePool" \/ f \notin Unmapped))
      => <>[](hosted # NoObject /\ hosted[f] = v)

\* Liveness (hypershift/cluster.go:131-159, nodepool.go:100-134): when the
\* readiness of the resource lasts, the customer is told it in the end, and
\* when its absence does, is not told "ready" in the end.  Only a NodePool
\* that is updating and healthy is left out: its state is not in the Enum, the
\* status is refused, and an old "ready" may stay.
ReadinessIsTold ==
  LET ready == Is(conditions, "Available", "True") \/ Is(conditions, "Ready", "True")
      stuck == /\ Is(conditions, "UpdatingVersion", "True")
               /\ ~Is(conditions, "AllNodesHealthy", "False")
  IN  /\ <>[]ready => <>[](state = "ready")
      /\ <>[](~ready /\ ~stuck) => <>[](state # "ready")

=============================================================================
