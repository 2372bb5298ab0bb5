----------------------------- MODULE ClusterApi -----------------------------
(***************************************************************************)
(* The life of one cluster's spec under the write path of the Platform     *)
(* API: the request is checked by Validate, the accepted body is turned    *)
(* into a CRD by UnprojectCluster with the platform's ServiceSetFields,    *)
(* and read back by ProjectCluster (pkg/validation, pkg/conversion).  The  *)
(* customer's feature set and entitlements change between requests.        *)
(*                                                                         *)
(* The server that calls these packages is not in the repository: the      *)
(* order validate, unproject, enrich, store and the two kinds of update    *)
(* (the body replaces the spec, or is merged into it) are external.        *)
(*                                                                         *)
(* Data: a field value is opaque; Zero is the Go zero value, which is an   *)
(* absent field.  Customer and platform values are disjoint sets, so the   *)
(* value stored in a field tells who supplied it.  A path is a leaf: of a  *)
(* struct the request lists what is in it, as the answers of               *)
(* docs/configuration-types-pattern.md do, and the struct's own entry in   *)
(* the registry, if it has one, is not looked at.                          *)
(***************************************************************************)
EXTENDS Validation, FiniteSets

CONSTANTS
  Field,            \* the leaf paths of the spec, registered or not
  Holder,           \* of each, the field of the spec's structs it is or lies below
  TopLevel,         \* those outside the passthrough struct (spec.X)
  MirrorOnly,       \* those in a mirror type whose upstream type lacks them
  CustomerValue,    \* values customers send
  PlatformValue,    \* values the platform fills in
  Zero,
  Nil,              \* the nil pointer, of a spec or of an enrichment
  Gate,             \* every gate name a customer may be entitled to
  Replace,          \* TRUE: an update's body replaces the spec (PUT)
  MaxBody           \* bound: fields in one request body

ASSUME ClusterApiAssumption ==
  /\ TopLevel \subseteq Field
  /\ MirrorOnly \subseteq Field \ TopLevel
  /\ DOMAIN Holder = Field
  /\ \A f \in TopLevel : Holder[f] = f
  /\ CustomerValue \cap PlatformValue = {}
  /\ Zero \notin CustomerValue \cup PlatformValue
  /\ "<nil>" \notin Field
  /\ Replace \in BOOLEAN
  /\ MaxBody \in Nat

VARIABLES
  exists,        \* has the cluster been created?
  crd,           \* the stored ClusterSpec
  featureSet,    \* the account's feature set
  entitlements,  \* gates granted to the account one by one
  first          \* history: the first value a customer gave an immutable field

vars == <<exists, crd, featureSet, entitlements, first>>

Value == CustomerValue \cup PlatformValue \cup {Zero}

ServiceSetFields ==
  {f \in DOMAIN FieldRegistry : FieldRegistry[f].writeMode = "service-set"}

\* The platform's values, if the server has them at hand.
Enrichments == [ServiceSetFields -> PlatformValue] \cup {Nil}

\* Mutant: the hidden fields are left in the REST types.
RestFields_All == Field

\* The REST structs lack the hidden fields with all that is below them; a
\* struct they have keeps its type, with everything in it.
RestFields == {f \in Field : ~Hidden(Holder[f])}

EnrichedFields == ServiceSetFields \cap TopLevel

ASSUME NilAssumption ==
  Nil \notin [RestFields -> Value] \cup [ServiceSetFields -> PlatformValue]

\* Fields whose write mode is the same whatever the gates.
AlwaysOfMode(f, mode) ==
  /\ Registered(f)
  /\ FieldRegistry[f].writeMode = mode
  /\ \A i \in DOMAIN FieldRegistry[f].overrides :
       FieldRegistry[f].overrides[i].writeMode = mode

TypeOK ==
  /\ exists \in BOOLEAN
  /\ crd \in [Field -> Value]
  /\ featureSet \in FeatureSet
  /\ entitlements \in SUBSET Gate
  /\ first \in [Field -> CustomerValue \cup {Zero}]

-----------------------------------------------------------------------------

\* Request.EnabledGates: the feature set's gates and the entitlements.
EnabledGates == GatesForFeatureSet(featureSet) \cup entitlements

ProjectCluster(spec) == [f \in RestFields |-> spec[f]]

\* Mutants: the CRD has only what the request has; every service-set field
\* is injected.
UnprojectCluster_VisibleOnly(rest, enrichment) ==
  IF rest = Nil THEN Nil
  ELSE [f \in RestFields |-> IF f \in EnrichedFields /\ enrichment # Nil
                               THEN enrichment[f] ELSE rest[f]]

UnprojectCluster_InjectsAll(rest, enrichment) ==
  IF rest = Nil THEN Nil
  ELSE [f \in Field |-> IF f \in ServiceSetFields /\ enrichment # Nil THEN enrichment[f]
                        ELSE IF f \in RestFields \ MirrorOnly THEN rest[f]
                        ELSE Zero]

(* The visible fields come from the REST spec, except those that the JSON  *)
(* round trip between the mirror type and the upstream type drops; the     *)
(* enrichment, if there is one, then overwrites the service-set fields of  *)
(* the envelope, and no others.                                            *)
UnprojectCluster(rest, enrichment) ==
  IF rest = Nil THEN Nil
  ELSE [f \in Field |-> IF f \in EnrichedFields /\ enrichment # Nil THEN enrichment[f]
                        ELSE IF f \in RestFields \ MirrorOnly THEN rest[f]
                        ELSE Zero]

Bodies ==
  UNION {[S -> CustomerValue] : S \in {T \in SUBSET Field : Cardinality(T) \in 1 .. MaxBody}}

\* Decoding a body onto a REST spec: paths the REST type lacks are dropped.
Decode(body, onto) ==
  [f \in RestFields |-> IF f \in DOMAIN body THEN body[f] ELSE onto[f]]

EmptyRest == [f \in RestFields |-> Zero]

Present(spec) == {f \in Field : spec[f] # Zero}

Request(operation, body, existing) ==
  [operation    |-> operation,
   fields       |-> DOMAIN body,
   featureSet   |-> featureSet,
   existing     |-> existing,
   enabledGates |-> EnabledGates]

RecordFirst(body) ==
  first' = [f \in Field |-> IF /\ first[f] = Zero
                               /\ AlwaysOfMode(f, "immutable")
                               /\ f \in DOMAIN body \cap RestFields
                            THEN body[f] ELSE first[f]]

Init ==
  /\ exists = FALSE
  /\ crd = [f \in Field |-> Zero]
  /\ featureSet \in FeatureSet
  /\ entitlements = {}
  /\ first = [f \in Field |-> Zero]

CreateCluster(body, enrichment) ==
  /\ ~exists
  /\ Accepts(Request("create", body, NilFields))
  /\ exists' = TRUE
  /\ crd' = UnprojectCluster(Decode(body, EmptyRest), enrichment)
  /\ RecordFirst(body)
  /\ UNCHANGED <<featureSet, entitlements>>

UpdateCluster(body, enrichment) ==
  /\ exists
  /\ Accepts(Request("update", body, Present(crd)))
  /\ crd' = UnprojectCluster(
              Decode(body, IF Replace THEN EmptyRest ELSE ProjectCluster(crd)),
              enrichment)
  /\ RecordFirst(body)
  /\ UNCHANGED <<exists, featureSet, entitlements>>

AssignFeatureSet(fs) ==
  /\ featureSet' = fs
  /\ UNCHANGED <<exists, crd, entitlements, first>>

Entitle(gate) ==
  /\ entitlements' = entitlements \cup {gate}
  /\ UNCHANGED <<exists, crd, featureSet, first>>

Revoke(gate) ==
  /\ entitlements' = entitlements \ {gate}
  /\ UNCHANGED <<exists, crd, featureSet, first>>

Next ==
  \/ \E body \in Bodies, e \in Enrichments : CreateCluster(body, e) \/ UpdateCluster(body, e)
  \/ \E fs \in FeatureSet : AssignFeatureSet(fs)
  \/ \E gate \in Gate : Entitle(gate) \/ Revoke(gate)

Spec == Init /\ [][Next]_vars

-----------------------------------------------------------------------------

(* A path that is service-set under every gate never holds a value a       *)
(* customer supplied, after any sequence of creates, updates and changes   *)
(* of feature set and entitlements (validator.go: "cannot be set by        *)
(* customers").  Paths below a service-set struct that have no entry of    *)
(* their own are not covered: see NestedServiceSetIsPlatforms.             *)
PlatformOwnedStaysPlatform ==
  \A f \in Field : AlwaysOfMode(f, "service-set") => crd[f] \notin CustomerValue

(* A hidden field, or anything in a hidden struct, never holds a           *)
(* customer's value, even one the validator lets through (mutable, or not  *)
(* registered): the REST types do not have it (generator.go:353-359).      *)
HiddenNeverCustomer ==
  \A f \in Field : Hidden(Holder[f]) => crd[f] \notin CustomerValue

(* An immutable field keeps the first value a customer gave it: updates of *)
(* other fields, gate changes and refused updates in between do not change *)
(* or drop it.  (The fields that only the mirror type has are dropped by   *)
(* the conversion before they are stored.)                                 *)
ImmutableKeepsFirstValue ==
  \A f \in RestFields \ MirrorOnly :
    AlwaysOfMode(f, "immutable") /\ first[f] # Zero => crd[f] = first[f]

(* A step that gives a registered path a new customer value is one the     *)
(* customer's gates allow at that moment: the field's gate is in the       *)
(* feature set, the documented mode is not service-set, and if it is       *)
(* immutable the field was absent.  A gate revoked later does not undo the *)
(* value, and one granted later does not excuse an earlier write.  (The    *)
(* gate of a struct does not count for the paths below it.)                *)
WritesAreEntitled ==
  [][\A f \in Field \cap DOMAIN FieldRegistry :
       LET meta == FieldRegistry[f]
           mode == PriorityMode(meta, EnabledGates)
       IN  /\ RegularOverrides(meta)
           /\ crd'[f] # crd[f]
           /\ crd'[f] \in CustomerValue
           => /\ meta.featureGate = NoGate \/ IsGateEnabled(meta.featureGate, featureSet)
              /\ mode # "service-set"
              /\ mode = "immutable" => crd[f] = Zero]_vars

-----------------------------------------------------------------------------

PlatformPaths == {f \in Field : Hidden(Holder[f]) \/ AlwaysOfMode(f, "service-set")}
WriteOnce == {f \in Field : AlwaysOfMode(f, "immutable")}

Owned == INSTANCE FieldOwnership WITH
  spec <- crd, PlatformField <- PlatformPaths, Injected <- EnrichedFields

(* Refinement (validator.go, cluster.go): under merging updates the write  *)
(* path is the ownership promise: a step of a request, of the gates or of  *)
(* the entitlements is a creation, an update that touches only what the    *)
(* owner of each field may touch and loses nothing, or no step at all.     *)
ImplementsOwnership == Owned!Spec

-----------------------------------------------------------------------------
\* What the documentation promises and the code does not keep.

(* "Specific gate match, then default, then base": for every registered    *)
(* field the enforced mode is the documented one (docs/api-management.md,  *)
(* the comment "takes precedence" in validateWriteMode).                   *)
DocumentedPriority ==
  \A f \in DOMAIN FieldRegistry :
    EffectiveMode(FieldRegistry[f], EnabledGates) = PriorityMode(FieldRegistry[f], EnabledGates)

(* ServiceSetFields "contains platform-managed fields injected during      *)
(* UnprojectX conversions": where the platform's values were injected at   *)
(* all, every service-set field has its one.                               *)
ServiceSetFieldsInjected ==
  (\E f \in EnrichedFields : crd[f] \in PlatformValue) =>
    \A f \in ServiceSetFields \cap Field :
      AlwaysOfMode(f, "service-set") => crd[f] \in PlatformValue

(* A service-set struct is the platform's with all that is in it, but for  *)
(* the paths that have markers of their own: "marking the entire field as  *)
(* service-set prevents granular control"                                  *)
(* (docs/configuration-types-pattern.md:11).                               *)
NestedServiceSetIsPlatforms ==
  \A f \in Field :
    AlwaysOfMode(Holder[f], "service-set") /\ ~Registered(f) => crd[f] \notin CustomerValue

=============================================================================
