-------------------------- MODULE ClusterApiProofs --------------------------
(***************************************************************************)
(* The safety properties of ClusterApi for every registry, every set of    *)
(* gates and of fields, and both kinds of update.                          *)
(***************************************************************************)
EXTENDS ClusterApi, ValidationProofs

(* A request body names fields of the spec and holds customer values. *)
LEMMA BodyType ==
  ASSUME NEW body \in Bodies
  PROVE  /\ DOMAIN body \subseteq Field
         /\ \A f \in DOMAIN body : body[f] \in CustomerValue
  BY DEF Bodies

(* Decoding a body onto a typed REST spec gives a typed REST spec. *)
LEMMA DecodeType ==
  ASSUME NEW body \in Bodies, NEW onto \in [RestFields -> Value]
  PROVE  Decode(body, onto) \in [RestFields -> Value]
  BY BodyType DEF Decode, Value

(* Unprojecting typed values gives a typed CRD, with enrichment or without. *)
LEMMA UnprojectType ==
  ASSUME NEW r \in [RestFields -> Value], NEW e \in Enrichments
  PROVE  UnprojectCluster(r, e) \in [Field -> Value]
  <1>1. r # Nil
    BY NilAssumption
  <1>2. ASSUME NEW f \in EnrichedFields, e # Nil
        PROVE  e[f] \in Value
    BY <1>2 DEF Enrichments, EnrichedFields, Value
  <1>3. Zero \in Value
    BY DEF Value
  <1> QED
    BY <1>1, <1>2, <1>3 DEF UnprojectCluster

(* The REST spec an update's body is decoded onto. *)
UpdateBase == IF Replace THEN EmptyRest ELSE ProjectCluster(crd)

LEMMA EmptyRestType == EmptyRest \in [RestFields -> Value]
  BY DEF EmptyRest, Value

LEMMA UpdateBaseType ==
  ASSUME crd \in [Field -> Value]
  PROVE  UpdateBase \in [RestFields -> Value]
  BY DEF UpdateBase, EmptyRest, ProjectCluster, RestFields, Value

(* TypeOK is an invariant: the stored spec, the platform's values and the  *)
(* history keep their types under every sequence of calls.                 *)
THEOREM TypeCorrect == Spec => []TypeOK
  <1>1. Init => TypeOK
    BY DEF Init, TypeOK, Value
  <1>2. TypeOK /\ [Next]_vars => TypeOK'
    <2> SUFFICES ASSUME TypeOK, [Next]_vars PROVE TypeOK'
      OBVIOUS
    <2>1. ASSUME NEW body \in Bodies, NEW e \in Enrichments, CreateCluster(body, e)
          PROVE  TypeOK'
      <3>2. crd' \in [Field -> Value]
        BY <2>1, EmptyRestType, DecodeType, UnprojectType DEF CreateCluster
      <3>3. first' \in [Field -> CustomerValue \cup {Zero}]
        BY <2>1, BodyType DEF CreateCluster, RecordFirst, TypeOK
      <3> QED
        BY <2>1, <3>2, <3>3 DEF CreateCluster, TypeOK
    <2>2. ASSUME NEW body \in Bodies, NEW e \in Enrichments, UpdateCluster(body, e)
          PROVE  TypeOK'
      <3>1. crd' = UnprojectCluster(Decode(body, UpdateBase), e)
        BY <2>2 DEF UpdateCluster, UpdateBase
      <3>2. crd' \in [Field -> Value]
        BY <3>1, DecodeType, UnprojectType, UpdateBaseType DEF TypeOK
      <3>3. first' \in [Field -> CustomerValue \cup {Zero}]
        BY <2>2, BodyType DEF UpdateCluster, RecordFirst, TypeOK
      <3> QED
        BY <2>2, <3>2, <3>3 DEF UpdateCluster, TypeOK
    <2>3. ASSUME NEW fs \in FeatureSet, AssignFeatureSet(fs)
          PROVE  TypeOK'
      BY <2>3 DEF AssignFeatureSet, TypeOK
    <2>4. ASSUME NEW gate \in Gate, Entitle(gate) \/ Revoke(gate)
          PROVE  TypeOK'
      BY <2>4 DEF Entitle, Revoke, TypeOK
    <2>5. CASE UNCHANGED vars
      BY <2>5 DEF vars, TypeOK
    <2> QED
      BY <2>1, <2>2, <2>3, <2>4, <2>5 DEF Next
  <1> QED
    BY <1>1, <1>2, PTL DEF Spec

-----------------------------------------------------------------------------

(* What a write stores in each field. *)
LEMMA StoredValue ==
  ASSUME NEW body \in Bodies, NEW base \in [RestFields -> Value], NEW e, NEW f \in Field
  PROVE  UnprojectCluster(Decode(body, base), e)[f] =
           IF f \in EnrichedFields /\ e # Nil THEN e[f]
           ELSE IF f \in RestFields \ MirrorOnly THEN (IF f \in DOMAIN body THEN body[f] ELSE base[f])
           ELSE Zero
  <1>1. Decode(body, base) # Nil
    BY DecodeType, NilAssumption
  <1>2. f \in RestFields =>
          Decode(body, base)[f] = IF f \in DOMAIN body THEN body[f] ELSE base[f]
    BY DEF Decode
  <1> QED
    BY <1>1, <1>2 DEF UnprojectCluster

(* What enrichment puts in the envelope is the platform's. *)
LEMMA EnrichedValue ==
  ASSUME NEW e \in Enrichments, NEW f \in EnrichedFields, e # Nil
  PROVE  e[f] \in PlatformValue /\ e[f] \notin CustomerValue
  BY ClusterApiAssumption DEF Enrichments, EnrichedFields

(* What an accepted request may hold of a field with one mode. *)
LEMMA AcceptedMode ==
  ASSUME NEW operation, NEW body, NEW existing, NEW mode,
         Accepts(Request(operation, body, existing)),
         NEW f \in DOMAIN body, AlwaysOfMode(f, mode)
  PROVE  /\ mode # "service-set"
         /\ mode = "immutable" /\ operation = "update" /\ existing # NilFields
              => f \notin existing
  <1> DEFINE req == Request(operation, body, existing)
  <1>1. EffectiveMode(FieldRegistry[f], req.enabledGates) = mode
    BY RegistryAssumption, UniformMode DEF AlwaysOfMode, Registered
  <1>2. ModeAllows(f, req)
    BY AcceptedFields DEF AlwaysOfMode, Request
  <1> QED
    BY <1>1, <1>2 DEF ModeAllows, Request

\* The two invariants that do not depend on the kind of update.
Ownership == PlatformOwnedStaysPlatform /\ HiddenNeverCustomer

(* A write keeps ownership: it is the common part of create and update.    *)
LEMMA WriteKeepsOwnership ==
  ASSUME Ownership, crd \in [Field -> Value],
         NEW operation, NEW body \in Bodies, NEW existing,
         Accepts(Request(operation, body, existing)),
         NEW base, base = EmptyRest \/ base = UpdateBase,
         NEW e \in Enrichments,
         crd' = UnprojectCluster(Decode(body, base), e)
  PROVE  Ownership'
  <1>0. base \in [RestFields -> Value]
    BY EmptyRestType, UpdateBaseType
  <1>1. ASSUME NEW f \in Field, AlwaysOfMode(f, "service-set")
        PROVE  crd'[f] \notin CustomerValue
    <2>1. f \notin DOMAIN body
      BY <1>1, AcceptedMode
    <2>2. f \in RestFields => base[f] \notin CustomerValue
      BY <1>1, ClusterApiAssumption
        DEF EmptyRest, UpdateBase, ProjectCluster, Ownership, PlatformOwnedStaysPlatform
    <2> QED
      BY <1>0, <2>1, <2>2, EnrichedValue, StoredValue, ClusterApiAssumption
  <1>2. ASSUME NEW f \in Field, Hidden(Holder[f])
        PROVE  crd'[f] \notin CustomerValue
    <2>1. f \notin RestFields
      BY <1>2 DEF RestFields
    <2> QED
      BY <1>0, <2>1, EnrichedValue, StoredValue, ClusterApiAssumption
  <1> QED
    BY <1>1, <1>2
      DEF Ownership, PlatformOwnedStaysPlatform, HiddenNeverCustomer,
          AlwaysOfMode, Hidden, Registered

(* The platform's fields stay the platform's, and what is hidden never     *)
(* holds a customer's value.                                               *)
THEOREM OwnershipKept == Spec => []Ownership
  <1>1. Init => Ownership
    BY ClusterApiAssumption
      DEF Init, Ownership, PlatformOwnedStaysPlatform, HiddenNeverCustomer
  <1>2. TypeOK /\ Ownership /\ [Next]_vars => Ownership'
    <2> SUFFICES ASSUME TypeOK, Ownership, [Next]_vars PROVE Ownership'
      OBVIOUS
    <2>0. crd \in [Field -> Value]
      BY DEF TypeOK
    <2>1. ASSUME NEW body \in Bodies, NEW e \in Enrichments, CreateCluster(body, e)
          PROVE  Ownership'
      <3>1. Accepts(Request("create", body, NilFields))
        BY <2>1 DEF CreateCluster
      <3>2. crd' = UnprojectCluster(Decode(body, EmptyRest), e)
        BY <2>1 DEF CreateCluster
      <3> QED
        BY <2>0, <3>1, <3>2, WriteKeepsOwnership
    <2>2. ASSUME NEW body \in Bodies, NEW e \in Enrichments, UpdateCluster(body, e)
          PROVE  Ownership'
      <3>1. Accepts(Request("update", body, Present(crd)))
        BY <2>2 DEF UpdateCluster
      <3>2. crd' = UnprojectCluster(Decode(body, UpdateBase), e)
        BY <2>2 DEF UpdateCluster, UpdateBase
      <3> QED
        BY <2>0, <3>1, <3>2, WriteKeepsOwnership
    <2>3. CASE UNCHANGED <<exists, crd>>
      BY <2>3
        DEF Ownership, PlatformOwnedStaysPlatform, HiddenNeverCustomer
    <2> QED
      BY <2>1, <2>2, <2>3 DEF Next, AssignFeatureSet, Entitle, Revoke, vars
  <1> QED
    BY <1>1, <1>2, TypeCorrect, PTL DEF Spec

THEOREM PlatformOwned == Spec => []PlatformOwnedStaysPlatform
  <1>1. Ownership => PlatformOwnedStaysPlatform
    BY DEF Ownership
  <1> QED
    BY <1>1, OwnershipKept, PTL

THEOREM HiddenKept == Spec => []HiddenNeverCustomer
  <1>1. Ownership => HiddenNeverCustomer
    BY DEF Ownership
  <1> QED
    BY <1>1, OwnershipKept, PTL

-----------------------------------------------------------------------------

\* Before it is created the cluster has no spec and nobody wrote a field.
Fresh == ~exists => \A f \in Field : crd[f] = Zero /\ first[f] = Zero

THEOREM FreshInvariant == Spec => []Fresh
  <1>1. Init => Fresh
    BY DEF Init, Fresh
  <1>2. Fresh /\ [Next]_vars => Fresh'
    BY DEF Fresh, Next, CreateCluster, UpdateCluster, AssignFeatureSet, Entitle, Revoke, vars
  <1> QED
    BY <1>1, <1>2, PTL DEF Spec

LEMMA PresentIsNotNil == Present(crd) # NilFields
  BY ClusterApiAssumption DEF Present, NilFields

(* The step of the theorem below: what an accepted body writes is what the *)
(* gates allow and, if it is immutable on update, was absent.              *)
LEMMA AcceptedWrite ==
  ASSUME NEW operation, NEW body, NEW existing,
         Accepts(Request(operation, body, existing)),
         NEW f \in DOMAIN body, Registered(f), RegularOverrides(FieldRegistry[f])
  PROVE  LET meta == FieldRegistry[f]
             mode == PriorityMode(meta, EnabledGates)
         IN  /\ meta.featureGate = NoGate \/ IsGateEnabled(meta.featureGate, featureSet)
             /\ mode # "service-set"
             /\ mode = "immutable" /\ operation = "update" /\ existing # NilFields
                  => f \notin existing
  <1> DEFINE req == Request(operation, body, existing)
  <1>1. GateAllows(f, req) /\ ModeAllows(f, req)
    BY AcceptedFields DEF Request
  <1>2. EffectiveMode(FieldRegistry[f], req.enabledGates) =
          PriorityMode(FieldRegistry[f], req.enabledGates)
    BY RegularIsDocumented, RegistryAssumption DEF Registered
  <1> QED
    BY <1>1, <1>2 DEF GateAllows, ModeAllows, Request

(* Whatever the order of updates and of changes to the feature set and the *)
(* entitlements, every customer write is one the gates of that moment      *)
(* allow, on every registry with regular overrides.                        *)
THEOREM OnlyEntitledWrites == Spec => WritesAreEntitled
  <1> DEFINE Entitled(f) ==
               LET meta == FieldRegistry[f]
                   mode == PriorityMode(meta, EnabledGates)
               IN  /\ RegularOverrides(meta)
                   /\ crd'[f] # crd[f]
                   /\ crd'[f] \in CustomerValue
                   => /\ meta.featureGate = NoGate \/ IsGateEnabled(meta.featureGate, featureSet)
                      /\ mode # "service-set"
                      /\ mode = "immutable" => crd[f] = Zero
  <1>1. TypeOK /\ TypeOK' /\ Fresh /\ [Next]_vars =>
          [\A f \in Field \cap DOMAIN FieldRegistry : Entitled(f)]_vars
    <2> SUFFICES ASSUME TypeOK, TypeOK', Fresh, Next,
                        NEW f \in Field \cap DOMAIN FieldRegistry,
                        RegularOverrides(FieldRegistry[f]),
                        crd'[f] # crd[f], crd'[f] \in CustomerValue
                 PROVE  Entitled(f)
      OBVIOUS
    <2>0. f \in Field /\ Registered(f)
      BY DEF Registered
    <2>a. crd \in [Field -> Value]
      BY DEF TypeOK
    <2>1. ASSUME NEW body \in Bodies, NEW e \in Enrichments, CreateCluster(body, e)
          PROVE  Entitled(f)
      <3>1. crd' = UnprojectCluster(Decode(body, EmptyRest), e)
        BY <2>1 DEF CreateCluster
      <3>2. f \in DOMAIN body
        BY <2>0, <3>1, EmptyRestType, EnrichedValue, StoredValue, ClusterApiAssumption
          DEF EmptyRest
      <3>3. crd[f] = Zero
        BY <2>0, <2>1 DEF Fresh, CreateCluster
      <3>4. Accepts(Request("create", body, NilFields))
        BY <2>1 DEF CreateCluster
      <3> QED
        BY <2>0, <3>2, <3>3, <3>4, AcceptedWrite
    <2>2. ASSUME NEW body \in Bodies, NEW e \in Enrichments, UpdateCluster(body, e)
          PROVE  Entitled(f)
      <3>1. crd' = UnprojectCluster(Decode(body, UpdateBase), e)
        BY <2>2 DEF UpdateCluster, UpdateBase
      <3>2. UpdateBase \in [RestFields -> Value]
        BY <2>a, UpdateBaseType
      <3>3. f \in RestFields => UpdateBase[f] = Zero \/ UpdateBase[f] = crd[f]
        BY DEF UpdateBase, EmptyRest, ProjectCluster
      <3>4. f \in DOMAIN body
        BY <2>0, <3>1, <3>2, <3>3, EnrichedValue, StoredValue, ClusterApiAssumption
      <3>5. Accepts(Request("update", body, Present(crd)))
        BY <2>2 DEF UpdateCluster
      <3> QED
        BY <2>0, <3>4, <3>5, AcceptedWrite, PresentIsNotNil DEF Present
    <2> QED
      BY <2>1, <2>2 DEF Next, AssignFeatureSet, Entitle, Revoke
  <1> QED
    BY <1>1, TypeCorrect, FreshInvariant, PTL DEF Spec, WritesAreEntitled

(* When updates are merged into the stored spec, an immutable field keeps  *)
(* the first value a customer gave it.                                     *)
THEOREM ImmutableKept ==
  ASSUME Replace = FALSE
  PROVE  Spec => []ImmutableKeepsFirstValue
  <1>1. Init => ImmutableKeepsFirstValue
    BY DEF Init, ImmutableKeepsFirstValue, RestFields
  <1>2. TypeOK /\ Fresh /\ ImmutableKeepsFirstValue /\ [Next]_vars => ImmutableKeepsFirstValue'
    <2> SUFFICES ASSUME TypeOK, Fresh, ImmutableKeepsFirstValue, [Next]_vars,
                        NEW f \in RestFields \ MirrorOnly, AlwaysOfMode(f, "immutable"), first'[f] # Zero
                 PROVE  crd'[f] = first'[f]
      BY DEF ImmutableKeepsFirstValue, RestFields, AlwaysOfMode, Registered, Hidden
    <2>0. f \in Field /\ f \notin EnrichedFields
      BY DEF RestFields, EnrichedFields, ServiceSetFields, AlwaysOfMode
    <2>a. crd \in [Field -> Value]
      BY DEF TypeOK
    <2>1. ASSUME NEW body \in Bodies, NEW e \in Enrichments, CreateCluster(body, e)
          PROVE  crd'[f] = first'[f]
      <3>1. first[f] = Zero
        BY <2>0, <2>1 DEF Fresh, CreateCluster
      <3>2. f \in DOMAIN body /\ first'[f] = body[f]
        BY <2>0, <2>1, <3>1 DEF CreateCluster, RecordFirst
      <3> QED
        BY <2>0, <2>1, <3>2, EmptyRestType, StoredValue DEF CreateCluster
    <2>2. ASSUME NEW body \in Bodies, NEW e \in Enrichments, UpdateCluster(body, e)
          PROVE  crd'[f] = first'[f]
      <3>1. crd' = UnprojectCluster(Decode(body, ProjectCluster(crd)), e)
        BY <2>2 DEF UpdateCluster
      <3>a. ProjectCluster(crd) \in [RestFields -> Value]
        BY <2>a, UpdateBaseType DEF UpdateBase
      <3>2. CASE f \in DOMAIN body
        <4>1. f \notin Present(crd)
          BY <2>2, <3>2, AcceptedMode, PresentIsNotNil DEF UpdateCluster
        <4>2. first[f] = Zero
          BY <2>0, <4>1 DEF Present, ImmutableKeepsFirstValue
        <4>3. first'[f] = body[f]
          BY <2>0, <2>2, <3>2, <4>2 DEF UpdateCluster, RecordFirst
        <4> QED
          BY <2>0, <3>1, <3>a, <3>2, <4>3, StoredValue
      <3>3. CASE f \notin DOMAIN body
        <4>1. first'[f] = first[f]
          BY <2>0, <2>2, <3>3 DEF UpdateCluster, RecordFirst
        <4>2. crd'[f] = crd[f]
          BY <2>0, <3>1, <3>a, <3>3, StoredValue DEF ProjectCluster
        <4> QED
          BY <4>1, <4>2 DEF ImmutableKeepsFirstValue
      <3> QED
        BY <3>2, <3>3
    <2>3. CASE UNCHANGED <<crd, first>>
      BY <2>3 DEF ImmutableKeepsFirstValue
    <2> QED
      BY <2>1, <2>2, <2>3 DEF Next, AssignFeatureSet, Entitle, Revoke, vars
  <1> QED
    BY <1>1, <1>2, TypeCorrect, FreshInvariant, PTL DEF Spec

-----------------------------------------------------------------------------

\* What neither a request nor the enrichment reaches is never filled in.
Unreached == Field \ (EnrichedFields \cup (RestFields \ MirrorOnly))
UnreachedStaysZero == \A f \in Unreached : crd[f] = Zero

THEOREM UnreachedInvariant == Spec => []UnreachedStaysZero
  <1>1. Init => UnreachedStaysZero
    BY DEF Init, UnreachedStaysZero, Unreached
  <1>2. TypeOK /\ UnreachedStaysZero /\ [Next]_vars => UnreachedStaysZero'
    <2> SUFFICES ASSUME TypeOK, UnreachedStaysZero, [Next]_vars, NEW f \in Unreached
                 PROVE  crd'[f] = Zero
      BY DEF UnreachedStaysZero, Unreached, RestFields, EnrichedFields, ServiceSetFields,
             Hidden, Registered
    <2>0. f \in Field /\ f \notin EnrichedFields /\ f \notin RestFields \ MirrorOnly
      BY DEF Unreached
    <2>1. ASSUME NEW body \in Bodies, NEW e \in Enrichments, CreateCluster(body, e)
          PROVE  crd'[f] = Zero
      BY <2>0, <2>1, EmptyRestType, StoredValue DEF CreateCluster
    <2>2. ASSUME NEW body \in Bodies, NEW e \in Enrichments, UpdateCluster(body, e)
          PROVE  crd'[f] = Zero
      <3>1. crd' = UnprojectCluster(Decode(body, UpdateBase), e)
        BY <2>2 DEF UpdateCluster, UpdateBase
      <3>2. UpdateBase \in [RestFields -> Value]
        BY UpdateBaseType DEF TypeOK
      <3> QED
        BY <2>0, <3>1, <3>2, StoredValue
    <2>3. CASE UNCHANGED crd
      BY <2>3 DEF UnreachedStaysZero
    <2> QED
      BY <2>1, <2>2, <2>3 DEF Next, AssignFeatureSet, Entitle, Revoke, vars
  <1> QED
    BY <1>1, <1>2, TypeCorrect, PTL DEF Spec

(* One field of an accepted merging update: kept, given what the platform  *)
(* injects, or given a customer's value that its owner may give it.        *)
LEMMA MergedField ==
  ASSUME Replace = FALSE, TypeOK, UnreachedStaysZero,
         NEW body \in Bodies, NEW e \in Enrichments, UpdateCluster(body, e), NEW f \in Field
  PROVE  \/ crd'[f] = crd[f]
         \/ f \in EnrichedFields /\ crd'[f] \in PlatformValue \cup {Zero}
         \/ /\ ~Hidden(Holder[f]) /\ ~AlwaysOfMode(f, "service-set")
            /\ crd'[f] \in CustomerValue
            /\ AlwaysOfMode(f, "immutable") => crd[f] = Zero
  <1>1. crd' = UnprojectCluster(Decode(body, ProjectCluster(crd)), e)
    BY DEF UpdateCluster
  <1>a. ProjectCluster(crd) \in [RestFields -> Value]
    BY UpdateBaseType DEF UpdateBase, TypeOK
  <1>2. CASE f \in EnrichedFields /\ e # Nil
    <2>1. crd'[f] = e[f]
      BY <1>1, <1>a, <1>2, StoredValue
    <2> QED
      BY <1>2, <2>1, EnrichedValue
  <1>3. CASE ~(f \in EnrichedFields /\ e # Nil) /\ f \notin RestFields \ MirrorOnly
    <2>1. crd'[f] = Zero
      BY <1>1, <1>a, <1>3, StoredValue
    <2>2. f \in EnrichedFields \/ crd[f] = Zero
      BY <1>3 DEF UnreachedStaysZero, Unreached
    <2> QED
      BY <2>1, <2>2
  <1>4. CASE ~(f \in EnrichedFields /\ e # Nil) /\ f \in RestFields \ MirrorOnly /\ f \notin DOMAIN body
    BY <1>1, <1>a, <1>4, StoredValue DEF ProjectCluster
  <1>5. CASE ~(f \in EnrichedFields /\ e # Nil) /\ f \in RestFields \ MirrorOnly /\ f \in DOMAIN body
    <2>1. crd'[f] = body[f] /\ body[f] \in CustomerValue
      BY <1>1, <1>a, <1>5, StoredValue, BodyType
    <2>2. Accepts(Request("update", body, Present(crd)))
      BY DEF UpdateCluster
    <2>3. ~AlwaysOfMode(f, "service-set")
      BY <1>5, <2>2, AcceptedMode
    <2>4. AlwaysOfMode(f, "immutable") => crd[f] = Zero
      BY <1>5, <2>2, AcceptedMode, PresentIsNotNil DEF Present
    <2> QED
      BY <1>5, <2>1, <2>3, <2>4 DEF RestFields
  <1> QED
    BY <1>2, <1>3, <1>4, <1>5

(* Under merging updates the write path implements the ownership promise,  *)
(* for every registry: whoever owns a field is the only one to change it.  *)
THEOREM WritePathImplementsOwnership ==
  ASSUME Replace = FALSE
  PROVE  Spec => ImplementsOwnership
  <1>1. Init => Owned!Init
    BY DEF Init, Owned!Init
  <1>2. /\ TypeOK /\ TypeOK' /\ Ownership /\ Ownership' /\ UnreachedStaysZero
        /\ [Next]_vars
        => [Owned!Next]_<<exists, crd>>
    <2> SUFFICES ASSUME TypeOK, TypeOK', Ownership, Ownership', UnreachedStaysZero, [Next]_vars
                 PROVE  Owned!Create \/ Owned!Update \/ UNCHANGED <<exists, crd>>
      BY DEF Owned!Next
    <2>0. crd' \in [Field -> Owned!Value]
      BY DEF TypeOK, Value, Owned!Value
    <2>1. ASSUME NEW body \in Bodies, NEW e \in Enrichments, CreateCluster(body, e)
          PROVE  Owned!Create
      <3>1. \A f \in PlatformPaths : crd'[f] \notin CustomerValue
        BY DEF PlatformPaths, Ownership, PlatformOwnedStaysPlatform, HiddenNeverCustomer, Hidden,
               Registered, AlwaysOfMode
      <3> QED
        BY <2>0, <2>1, <3>1 DEF CreateCluster, Owned!Create
    <2>2. ASSUME NEW body \in Bodies, NEW e \in Enrichments, UpdateCluster(body, e)
          PROVE  Owned!Update
      <3>1. \A f \in Field :
              \/ crd'[f] = crd[f]
              \/ f \in EnrichedFields /\ crd'[f] \in PlatformValue \cup {Zero}
              \/ /\ f \notin PlatformPaths
                 /\ crd'[f] \in CustomerValue
                 /\ f \in WriteOnce => crd[f] = Zero
        BY <2>2, MergedField DEF PlatformPaths, WriteOnce
      <3> QED
        BY <2>0, <2>2, <3>1 DEF UpdateCluster, Owned!Update
    <2>3. CASE UNCHANGED <<exists, crd>>
      BY <2>3
    <2> QED
      BY <2>1, <2>2, <2>3 DEF Next, AssignFeatureSet, Entitle, Revoke, vars
  <1> QED
    BY <1>1, <1>2, TypeCorrect, OwnershipKept, UnreachedInvariant, PTL
      DEF Spec, ImplementsOwnership, Owned!Spec

=============================================================================
