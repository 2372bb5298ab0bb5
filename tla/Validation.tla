----------------------------- MODULE Validation -----------------------------
(***************************************************************************)
(* pkg/validation/validator.go: the check of one API request against the   *)
(* field registry.  A request is                                           *)
(*   [operation, fields, featureSet, existing, enabledGates]               *)
(* where fields is the set of paths in the body, existing the set of paths *)
(* of the stored resource (the keys of ExistingFields, or NilFields when   *)
(* the caller leaves it nil) and enabledGates the customer's gate list,    *)
(* which the code only searches, hence a set.                              *)
(***************************************************************************)
EXTENDS FeatureGate

NilFields == {"<nil>"}   \* ExistingFields == nil

IsFeatureGateEnabled(req, gate) == gate \in req.enabledGates

\* The positions of the overrides whose gate is one of gates; the code
\* takes the first.
Matching(overrides, gates) ==
  {i \in DOMAIN overrides : overrides[i].featureGate \in gates}

FirstMode(overrides, gates) ==
  LET first == CHOOSE i \in Matching(overrides, gates) :
                 \A j \in Matching(overrides, gates) : i <= j
  IN  overrides[first].writeMode

(* The mode after the loop over the specific gates, and the mode that is   *)
(* enforced.  The code does not remember that a specific gate matched: it  *)
(* looks at the default override whenever the mode still EQUALS the base.  *)
SpecificMode(meta, gates) ==
  IF Matching(meta.overrides, gates \ {NoGate}) # {}
    THEN FirstMode(meta.overrides, gates \ {NoGate})
    ELSE meta.writeMode

EffectiveMode(meta, gates) ==
  IF /\ SpecificMode(meta, gates) = meta.writeMode
     /\ Matching(meta.overrides, {NoGate}) # {}
    THEN FirstMode(meta.overrides, {NoGate})
    ELSE SpecificMode(meta, gates)

\* The documented order: specific gate, then default override, then base.
PriorityMode(meta, gates) ==
  IF Matching(meta.overrides, gates \ {NoGate}) # {}
    THEN FirstMode(meta.overrides, gates \ {NoGate})
    ELSE IF Matching(meta.overrides, {NoGate}) # {}
      THEN FirstMode(meta.overrides, {NoGate})
      ELSE meta.writeMode

\* The override list is regular when the base-mode comparison of the code
\* cannot mistake a specific match for no match.
RegularOverrides(meta) ==
  \/ Matching(meta.overrides, {NoGate}) = {}
  \/ FirstMode(meta.overrides, {NoGate}) = meta.writeMode
  \/ \A i \in DOMAIN meta.overrides :
       meta.overrides[i].featureGate # NoGate => meta.overrides[i].writeMode # meta.writeMode

-----------------------------------------------------------------------------

\* Mutant: any declared gate is taken for an enabled one.
GateAllows_DeclaredIsEnabled(f, req) ==
  FieldRegistry[f].featureGate \in {NoGate} \cup DeclaredGates

GateAllows(f, req) ==
  \/ FieldRegistry[f].featureGate = NoGate
  \/ IsGateEnabled(FieldRegistry[f].featureGate, req.featureSet)

\* Mutants: service-set fields are not refused; the operation is confused.
ModeAllows_NoServiceSet(f, req) ==
  ~ /\ EffectiveMode(FieldRegistry[f], req.enabledGates) = "immutable"
    /\ req.operation = "update"
    /\ req.existing # NilFields /\ f \in req.existing

ModeAllows_ImmutableOnCreate(f, req) ==
  /\ EffectiveMode(FieldRegistry[f], req.enabledGates) # "service-set"
  /\ ~ /\ EffectiveMode(FieldRegistry[f], req.enabledGates) = "immutable"
       /\ req.operation = "create"
       /\ req.existing # NilFields /\ f \in req.existing

(* On update an immutable field is refused whenever the stored resource    *)
(* has it, whatever its value; it may still be set once if it is absent.   *)
ModeAllows(f, req) ==
  LET mode == EffectiveMode(FieldRegistry[f], req.enabledGates)
  IN  /\ mode # "service-set"
      /\ ~ /\ mode = "immutable"
           /\ req.operation = "update"
           /\ req.existing # NilFields
           /\ f \in req.existing

\* The errors of a request: <<path, reason>>; an empty set is acceptance.
Validate(req) ==
  {<<f, "gate">> : f \in {x \in req.fields : Registered(x) /\ ~GateAllows(x, req)}}
    \cup
  {<<f, "mode">> : f \in {x \in req.fields : /\ Registered(x)
                                             /\ GateAllows(x, req)
                                             /\ ~ModeAllows(x, req)}}

Accepts(req) == Validate(req) = {}

=============================================================================
