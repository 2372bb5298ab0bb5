----------------------------- MODULE MCPipeline -----------------------------
(***************************************************************************)
(* Pipeline with the two source types of the Makefile and two versions of  *)
(* HyperShift.  The second has a new field in each type, and the new       *)
(* NodePool field has the name of a HostedCluster one, as release and      *)
(* platform have upstream.                                                 *)
(***************************************************************************)
EXTENDS Pipeline

MCSourceTypes == <<"HostedClusterSpec", "NodePoolSpec">>
MCSpecSuffixed == {"HostedClusterSpec", "NodePoolSpec"}

MCOldFields == {<<"HostedClusterSpec", "release">>}
MCUpstreams ==
  {MCOldFields,
   MCOldFields \cup {<<"HostedClusterSpec", "autoNode">>, <<"NodePoolSpec", "release">>}}

Visible(mode, overrides) ==
  [hidden |-> FALSE, writeMode |-> mode, overrides |-> overrides, trailing |-> FALSE]

\* Made visible with overrides; all markers removed; the overrides alone,
\* which marker-scanner refuses; hidden by a marker behind the field.
MCPolicies ==
  {Visible("service-set", TRUE), Visible(NoMode, FALSE), Visible(NoMode, TRUE),
   [Visible("service-set", FALSE) EXCEPT !.trailing = TRUE]}

\* All fields as generated, or curated once.
MCCommitted ==
  {[f \in MCOldFields |-> p] : p \in {SafeDefault, Visible("service-set", TRUE)}}

=============================================================================
