---------------------------- MODULE ConversionGen ----------------------------
(***************************************************************************)
(* pkg/conversion/generator.go: the REST types, ServiceSetFields and the   *)
(* conversion functions that are generated from the types of a source and  *)
(* a field registry.  A field is looked up under a path guessed from the   *)
(* NAME of its type, which need not be the path the scanner reached it by. *)
(*                                                                         *)
(* Function bodies are what they copy: a set of fields for a converter of  *)
(* a type, and the members of ServiceSetFields an Unproject reads.         *)
(***************************************************************************)
EXTENDS MarkerScanner

CONSTANTS
  Length,     \* the length of a Go type as it is written
  BareName    \* its name without a leading * and all up to the last dot

GoString == <<"string", "">>

ASSUME LengthAssumption ==
  /\ \A type \in DOMAIN Length : Length[type] \in Nat
  /\ GoString \in DOMAIN Length
  /\ DOMAIN BareName = DOMAIN Length
  /\ \A src \in Sources : \A t \in DOMAIN src.fields : \A i \in DOMAIN src.fields[t] :
       src.fields[t][i].type \in DOMAIN Length

\* Mutant: the prefix of NodePool passthrough types is forgotten.
buildFieldPath_NoNodePool(type, name) ==
  IF Suffix(type) = "Spec" THEN <<"spec", name>>
  ELSE IF Suffix(type) = "Status" THEN <<"status", name>>
  ELSE IF type = <<"HostedCluster", "Passthrough">> THEN <<"spec", "hostedCluster", name>>
  ELSE <<name>>

buildFieldPath(type, name) ==
  IF Suffix(type) = "Spec" THEN <<"spec", name>>
  ELSE IF Suffix(type) = "Status" THEN <<"status", name>>
  ELSE IF type = <<"HostedCluster", "Passthrough">> THEN <<"spec", "hostedCluster", name>>
  ELSE IF type = <<"NodePool", "Passthrough">> THEN <<"spec", "nodePool", name>>
  ELSE <<name>>

\* typeInfo.Fields: embedded fields and fields without a name are left out.
parseTypes(src, type) ==
  {f \in {src.fields[type][i] : i \in DOMAIN src.fields[type]} : f.name # "" /\ ~f.embedded}

IsHidden(reg, type, field) ==
  LET path == buildFieldPath(type, field.name)
  IN  path \in DOMAIN reg /\ reg[path].hidden

IsServiceSet(reg, type, field) ==
  LET path == buildFieldPath(type, field.name)
  IN  path \in DOMAIN reg /\ reg[path].writeMode = "service-set"

visibleFields(src, reg, type) ==
  {f.name : f \in {g \in parseTypes(src, type) : ~IsHidden(reg, type, g)}}

-----------------------------------------------------------------------------

resourceTypes == {<<r, s>> : r \in {"Cluster", "NodePool"}, s \in {"", "Spec", "Status"}}
                   \cup {ClusterReference}

\* The resource types that exist and every passthrough type.
RestTypeNames(src) ==
  {t \in Types(src) : t \in resourceTypes \/ Suffix(t) = "Passthrough"}

generateRESTTypes(src, reg) ==
  [t \in RestTypeNames(src) |-> visibleFields(src, reg, t)]

ServiceSetPaths(reg, name) ==
  {p \in DOMAIN reg : reg[p].writeMode = "service-set" /\ p[Len(p)] = name}

ServiceSetNames(reg) ==
  {p[Len(p)] : p \in {q \in DOMAIN reg : reg[q].writeMode = "service-set"}}

\* The type of any field that was looked up under the path, for typeInfos is
\* a map; string when there is none.
inferTypeFromPath(src, path) ==
  LET found == {f.type : f \in UNION {{g \in parseTypes(src, t) :
                                          buildFieldPath(t, g.name) = path} : t \in Types(src)}}
  IN  IF found = {} THEN {GoString} ELSE found

\* Mutant: the type is always the default one.
MayGetTypes_Default(src, reg, name) == {GoString}

\* The longest type that the paths with this name yield; between types of
\* one length the first in map order, so that more than one is possible.
MayGetTypes(src, reg, name) ==
  LET yields == {inferTypeFromPath(src, p) : p \in ServiceSetPaths(reg, name)}
  IN  {type \in UNION yields : \A types \in yields :
                                 \E other \in types : Length[other] <= Length[type]}

v1alpha1Types ==
  {<<stem, "Configuration">> : stem \in {"Cluster", "APIServerNetwork", "FeatureGate", "Image",
                                         "Ingress", "Network", "OAuth", "Scheduler", "Proxy"}}
    \cup {<<"Kubelet", "Config">>, <<"MachineConfig", "Spec">>, <<"ClusterAuthentication", "">>}

\* v1alpha1 is the package of the source: a type of ANY package that has the
\* name of one in the list is written as the one of the source.
qualifyType(type) == IF BareName[type] \in v1alpha1Types THEN BareName[type] ELSE type

\* One member per JSON name, with the types it may be written with.
generateServiceSetFields(src, reg) ==
  [name \in ServiceSetNames(reg) |-> {qualifyType(type) : type \in MayGetTypes(src, reg, name)}]

-----------------------------------------------------------------------------

Resources(src) == {t \in Types(src) : Suffix(t) = "Spec" /\ t[1] \in {"Cluster", "NodePool"}}

\* The types with a converter of their own: those of the resources and the
\* struct types of their spec fields (generatePassthroughHelpers).
HelperTypes(src) ==
  UNION {{f.type : f \in parseTypes(src, t)} : t \in Resources(src)} \cap Types(src)

StatusTypes(src) ==
  {t \in Types(src) : Suffix(t) = "Status" /\ <<t[1], "Spec">> \in Resources(src)}

\* project...: CRD to REST, the status included.
Projected(src, reg) ==
  [t \in Resources(src) \cup StatusTypes(src) \cup HelperTypes(src) |->
     visibleFields(src, reg, t)]

\* unproject...: REST to CRD.
Unprojected(src, reg) ==
  [t \in Resources(src) \cup HelperTypes(src) |-> visibleFields(src, reg, t)]

\* The spec fields set from ServiceSetFields; helpers get no enrichment.
Enriched(src, reg) ==
  [t \in Resources(src) |->
     {f \in parseTypes(src, t) : IsServiceSet(reg, t, f)}]

=============================================================================
