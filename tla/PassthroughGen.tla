--------------------------- MODULE PassthroughGen ---------------------------
(***************************************************************************)
(* pkg/passthrough: the passthrough types are generated from the upstream  *)
(* HyperShift types, and each field gets the markers the registry saved    *)
(* for it, or the safe default.  One Generator handles all SourceTypes in  *)
(* order, and its FieldPrefix is derived from the first type that yields   *)
(* one and kept for the types after it.                                    *)
(***************************************************************************)
EXTENDS Markers

CONSTANTS
  SourceTypes,     \* HYPERSHIFT_TYPES, in order
  SpecSuffixed     \* the type names that end in "Spec"

ASSUME SourceTypesAssumption ==
  /\ SourceTypes \in Seq(STRING)
  /\ SourceTypes # <<>>
  /\ \A i, j \in DOMAIN SourceTypes : i # j => SourceTypes[i] # SourceTypes[j]
  /\ "" \notin SpecSuffixed
  /\ \A i \in DOMAIN SourceTypes : SourceTypes[i] # ""

TypeNames == {SourceTypes[i] : i \in DOMAIN SourceTypes}
NoPrefix == ""

\* A prefix is named by the type it belongs to.
deriveFieldPrefix(type) == IF type \in SpecSuffixed THEN type ELSE NoPrefix

\* The types seen so far that yield a prefix; the first one set FieldPrefix.
FieldPrefix(type) ==
  LET pos == CHOOSE i \in DOMAIN SourceTypes : SourceTypes[i] = type
      set == {i \in 1 .. pos : deriveFieldPrefix(SourceTypes[i]) # NoPrefix}
  IN  IF set = {} THEN NoPrefix
      ELSE SourceTypes[CHOOSE i \in set : \A j \in set : i <= j]

\* Mutant: a field that is not in the registry is visible.
SafeDefault_Visible ==
  [hidden |-> FALSE, writeMode |-> "service-set", overrides |-> FALSE, trailing |-> FALSE]

SafeDefault ==
  [hidden |-> TRUE, writeMode |-> "service-set", overrides |-> FALSE, trailing |-> FALSE]

\* Saved markers are written back above the field, but the gate-aware
\* overrides are not, nor is what stood behind it.
getMarkersForField(registry, path) ==
  IF path \in DOMAIN registry
    THEN [registry[path] EXCEPT !.overrides = FALSE]
    ELSE SafeDefault

\* Mutant: a field the registry does not know is left out.
GeneratePassthrough_RegisteredOnly(upstream, registry) ==
  [f \in upstream \cap DOMAIN registry |-> getMarkersForField(registry, f)]

GeneratePassthrough(upstream, registry) ==
  [f \in upstream |-> getMarkersForField(registry, <<FieldPrefix(f[1]), f[2]>>)]

=============================================================================
