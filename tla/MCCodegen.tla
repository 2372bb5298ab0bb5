------------------------------ MODULE MCCodegen ------------------------------
(***************************************************************************)
(* The API types with a few fields each, and what a developer may make of  *)
(* them: two fields with one path, a type that contains itself, a marker   *)
(* behind its field, a hidden field in ClusterReference, a write mode left *)
(* out or mistyped, and one name for two service-set fields.               *)
(***************************************************************************)
EXTENDS Codegen, TLC

Says(hidden, mode) ==
  [hidden |-> hidden, writeMode |-> mode, overrides |-> FALSE, trailing |-> FALSE]
Unmarked == Says(FALSE, NoMode)
Mutable  == Says(FALSE, "mutable")
Platform == Says(TRUE, "service-set")

Field(name, policy, type) ==
  [name |-> name, embedded |-> FALSE, policy |-> policy, above |-> TRUE, mistyped |-> FALSE,
   type |-> type]
Embedded(name, type) == [Field(name, Unmarked, type) EXCEPT !.embedded = TRUE]
Text(name, policy) == Field(name, policy, GoString)

GoMap  == <<"map[string]string", "">>
GoBool == <<"*bool", "">>
Meta   == <<"metav1.ObjectMeta", "">>
Upstream == <<"*hypershiftv1beta1.ClusterConfiguration", "">>

Cluster == <<"Cluster", "">>
ClusterSpec == <<"Cluster", "Spec">>
ClusterStatus == <<"Cluster", "Status">>
NodePool == <<"NodePool", "">>
NodePoolSpec == <<"NodePool", "Spec">>
ClusterList == <<"Cluster", "List">>
HostedCluster == <<"HostedCluster", "Passthrough">>
NodePoolPassthrough == <<"NodePool", "Passthrough">>
ClusterConfiguration == <<"Cluster", "Configuration">>
KubeletConfig == <<"Kubelet", "Config">>
MachineConfigSpec == <<"MachineConfig", "Spec">>
FileSpec == <<"File", "Spec">>

MCLength ==
  [t \in {GoString, GoMap, GoBool, Meta, Upstream, Cluster, ClusterReference, ClusterSpec, ClusterStatus,
          NodePoolSpec, HostedCluster, NodePoolPassthrough, KubeletConfig, MachineConfigSpec,
          FileSpec} |->
    CASE t = GoString -> 6 [] t = GoMap -> 17 [] t = GoBool -> 5 [] OTHER -> 20]

\* The upstream configuration has the name of the mirrored one; *bool is bool.
MCBareName ==
  [t \in DOMAIN MCLength |->
    CASE t = Upstream -> ClusterConfiguration [] t = GoBool -> <<"bool", "">>
      [] t = Meta -> <<"ObjectMeta", "">> [] OTHER -> t]

ApiFields == [
  cluster |-> <<Embedded("", Meta), Embedded("metadata", Meta),
                Field("spec", Unmarked, ClusterSpec), Field("status", Unmarked, ClusterStatus)>>,
  clusterSpec |-> <<Text("displayName", Mutable), Text("accountId", Platform),
                    Field("hostedCluster", Unmarked, HostedCluster)>>,
  nodePoolSpec |-> <<Field("clusterRef", Unmarked, ClusterReference),
                     Text("displayName", Mutable), Text("accountId", Platform),
                     Field("nodePool", Unmarked, NodePoolPassthrough)>>,
  clusterRef |-> <<Text("name", Unmarked)>>,
  kubelet |-> <<Text("maxPods", Mutable), Field("evictionHard", Platform, GoMap)>>,
  machine |-> <<Field("fips", Says(FALSE, "immutable"), GoBool), Text("kernelType", Platform),
                Field("files", Platform, FileSpec)>>,
  file |-> <<Text("path", Unmarked)>>]

Source(api) == [
  file |-> [t \in {Cluster, ClusterSpec, ClusterStatus, ClusterList} |-> "cluster_types.go"]
             @@ [t \in {NodePool, NodePoolSpec, ClusterReference} |-> "nodepool_types.go"]
             @@ [t \in {HostedCluster, NodePoolPassthrough} |-> "passthrough.go"]
             @@ [t \in {ClusterConfiguration, KubeletConfig, MachineConfigSpec, FileSpec} |->
                   ConfigurationFile],
  fields |-> Cluster :> api.cluster
             @@ ClusterSpec :> api.clusterSpec
             @@ ClusterList :> <<Embedded("", Meta), Field("items", Unmarked, Cluster)>>
             @@ ClusterStatus :> <<Text("state", Unmarked)>>
             @@ NodePool :> <<Field("spec", Unmarked, NodePoolSpec)>>
             @@ NodePoolSpec :> api.nodePoolSpec
             @@ ClusterReference :> api.clusterRef
             @@ HostedCluster :> <<Text("etcd", Platform),
                                   Field("configuration", Says(FALSE, "service-set"), Upstream)>>
             @@ NodePoolPassthrough :> <<Text("arch", Platform)>>
             @@ ClusterConfiguration :> <<Field("kubelet", Says(FALSE, "service-set"), KubeletConfig),
                                          Field("machineConfig", Platform, MachineConfigSpec)>>
             @@ KubeletConfig :> api.kubelet
             @@ MachineConfigSpec :> api.machine
             @@ FileSpec :> api.file]

\* The NodePool field of the same path hidden; a name in ClusterReference
\* hidden and the kubelet marker behind its field; no write mode in the machine
\* configuration, a mistyped one, or a name that a kubelet field has; the name
\* of the cluster's service-set field, and that of a kubelet field.
Variants ==
  {[ApiFields EXCEPT !.nodePoolSpec[2] = pool, !.clusterRef[1] = Text("name", ref),
                     !.kubelet[2].above = (ref = Unmarked),
                     !.machine[2] = machine, !.clusterSpec[2] = service] :
     pool    \in {Text("displayName", Mutable), Text("displayName", Platform)},
     ref     \in {Unmarked, Platform},
     machine \in {Text("kernelType", Says(TRUE, NoMode)), Text("kernelType", Platform),
                  [Text("kernelType", Unmarked) EXCEPT !.mistyped = TRUE],
                  Text("evictionHard", Platform)},
     service \in {Text("accountId", Platform), Field("evictionHard", Platform, GoMap)}}

\* One short type under two paths, and a type that contains itself.
MCSources ==
  {Source(v) : v \in Variants \cup
     {[ApiFields EXCEPT !.clusterSpec[2] = Field("paused", Platform, GoBool),
                        !.kubelet[2] = Field("paused", Platform, GoBool)],
      [ApiFields EXCEPT !.file = <<Field("include", Unmarked, FileSpec)>>]}}

\* The hypothesis about the declared types under which the generator's guesses
\* are proved right.
ASSUME DeclaredTypes == \A src \in MCSources : ReachedAsNamed(src)

=============================================================================
