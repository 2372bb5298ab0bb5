----------------------------- MODULE OutputGen -----------------------------
(***************************************************************************)
(* pkg/openapi and pkg/conversion (the generators): what they write for a  *)
(* source.  openapi-gen reads the markers in the source; conversion-gen    *)
(* reads hidden and write mode from the registry it was COMPILED with.     *)
(* Both copy the comment above a field, markers included, so the output    *)
(* carries its policy.                                                     *)
(***************************************************************************)
EXTENDS Markers

\* isHidden looks at the comment above the field and at the one behind it.
isHidden(policy) == policy.hidden \/ policy.trailing

OpenApi(src) ==
  [f \in {g \in DOMAIN src : ~isHidden(src[g])} |-> Doc(src[f])]

\* Mutant: the service-set fields are taken for the hidden ones.
RestVisible_ByMode(f, registry) == f \in DOMAIN registry => registry[f].writeMode # "service-set"

\* A field that is not registered is visible.
RestVisible(f, registry) == f \in DOMAIN registry => ~registry[f].hidden

RestTypes(src, registry) ==
  [f \in {g \in DOMAIN src : RestVisible(g, registry)} |-> Doc(src[f])]

\* Mutant: only the fields that are hidden as well.
ServiceSetFields_HiddenOnly(registry) ==
  {f[2] : f \in {g \in DOMAIN registry : /\ registry[g].writeMode = "service-set"
                                         /\ registry[g].hidden}}

\* ServiceSetFields has one entry per JSON name, whatever the type.
ServiceSetFields(registry) ==
  {f[2] : f \in {g \in DOMAIN registry : registry[g].writeMode = "service-set"}}

=============================================================================
