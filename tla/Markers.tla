------------------------------ MODULE Markers ------------------------------
(***************************************************************************)
(* pkg/markers: from the marker comments of the Go types to the field      *)
(* registry.  A struct field is <<type, name>>; its registry path is the   *)
(* same pair, because the scanner reaches every passthrough type through   *)
(* one field of its own (spec.hostedCluster, spec.nodePool).  The source   *)
(* (the passthrough file) is a function from fields to their policy, what  *)
(* the markers say of the field.  Gates are left out: every generator      *)
(* treats them as it treats the write mode.                                *)
(***************************************************************************)
EXTENDS Naturals, Sequences, FiniteSets

NoMode == ""

(* overrides: does the field have FeatureGateAwareWriteMode markers?       *)
(* trailing: is there a +k8s:openapi-gen=false in the comment BEHIND it?   *)
(* The other three are of the markers above it.                            *)
Policy == [hidden    : BOOLEAN,
           writeMode : {"mutable", "immutable", "service-set", NoMode},
           overrides : BOOLEAN,
           trailing  : BOOLEAN]

\* What the comment above the field says, which is all the scanner reads.
Doc(policy) == [policy EXCEPT !.trailing = FALSE]
DocPolicy == {policy \in Policy : ~policy.trailing}

\* A registry entry is made only when at least one marker was found.
HasMarker(policy) ==
  policy.hidden \/ policy.writeMode # NoMode \/ policy.overrides

MarkedFields(src) == {f \in DOMAIN src : HasMarker(src[f])}

Scan(src) == [f \in MarkedFields(src) |-> Doc(src[f])]

\* Every visible entry must have a write mode.
Validate(registry) ==
  \A f \in DOMAIN registry : registry[f].hidden \/ registry[f].writeMode # NoMode

=============================================================================
