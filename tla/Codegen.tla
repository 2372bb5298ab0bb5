------------------------------- MODULE Codegen -------------------------------
(***************************************************************************)
(* One run of the tools over one source, from nothing: marker-scanner      *)
(* makes the registry, conversion-gen, compiled with it, makes its three   *)
(* outputs, and verify-configuration (cmd/verify-configuration) reads the  *)
(* same source.  Pipeline is about running them again.                     *)
(***************************************************************************)
EXTENDS ConversionGen

VARIABLES rest, ssf, project, unproject, enrich, generated

genVars == <<rest, ssf, project, unproject, enrich, generated>>
vars == <<scanVars, genVars>>

Nothing == [t \in {} |-> {}]

Init ==
  /\ ScanInit
  /\ rest = Nothing /\ ssf = Nothing
  /\ project = Nothing /\ unproject = Nothing /\ enrich = Nothing
  /\ generated = FALSE

\* The scanner's own check stops make before the generator.
Generate ==
  /\ Done /\ ~generated /\ Validate(registry)
  /\ rest' = generateRESTTypes(source, registry)
  /\ ssf' = generateServiceSetFields(source, registry)
  /\ project' = Projected(source, registry)
  /\ unproject' = Unprojected(source, registry)
  /\ enrich' = Enriched(source, registry)
  /\ generated' = TRUE
  /\ UNCHANGED scanVars

Next ==
  \/ ScanNext /\ UNCHANGED genVars
  \/ Generate

\* The tools are sequential programs that keep running.
Spec == Init /\ [][Next]_vars /\ WF_vars(Next)

-----------------------------------------------------------------------------
(* verify-configuration                                                    *)

ConfigurationFile == "configuration.go"
SupportTypes == {<<"SystemdUnit", "">>, <<"SystemdDropin", "">>, <<"File", "Spec">>}

\* Mutant: only the two configuration suffixes are checked.
isConfigType_NoSpec(type) == type \notin SupportTypes /\ Suffix(type) \in {"Configuration", "Config"}

isConfigType(type) ==
  type \notin SupportTypes /\ Suffix(type) \in {"Configuration", "Config", "Spec"}

\* It looks for the text +hyperfleet:write-mode= and not for what follows.
hasWriteMode(field) == field.policy.writeMode # NoMode \/ field.mistyped

\* Above the field or behind it, for all but embedded fields.
VerifyConfiguration(src) ==
  \A type \in {t \in Types(src) : src.file[t] = ConfigurationFile /\ isConfigType(t)} :
    \A i \in DOMAIN src.fields[type] :
      src.fields[type][i].embedded \/ hasWriteMode(src.fields[type][i])

-----------------------------------------------------------------------------
(* The reference: what the types declare, with no order in it.             *)

NamedFields(src, type) ==
  {f \in {src.fields[type][i] : i \in DOMAIN src.fields[type]} : f.name # ""}

\* The structs at depth n below the root types, each with its path.
StructsAt(src) ==
  LET at[n \in 1 .. MaxDepth] ==
        IF n = 1 THEN {<<(<<>>), t>> : t \in {u \in Types(src) : isRootType(u)}}
        ELSE UNION {{<<Append(s[1], f.name), f.type>> :
                        f \in {g \in NamedFields(src, s[2]) : g.type \in Types(src)}} :
                      s \in at[n - 1]}
  IN  at

\* Deeper than there are types: some type contains itself.
Cyclic == {src \in Sources : StructsAt(src)[Cardinality(Types(src)) + 1] # {}}

Declarations ==
  [src \in Sources |->
     UNION {{[path |-> Append(s[1], f.name), type |-> s[2], field |-> f] :
               f \in NamedFields(src, s[2])} :
             s \in UNION {StructsAt(src)[n] : n \in 1 .. MaxDepth}}]

Marked == [src \in Sources |-> {d \in Declarations[src] : Registers(d.field)}]

\* How the API types are declared: the types the generator guesses paths for
\* are reached through the one field it thinks of, and no field holds a list.
ReachedAsNamed(src) ==
  \A t \in {u \in Types(src) : Suffix(u) # "List"} : \A f \in NamedFields(src, t) :
    /\ Suffix(f.type) # "List"
    /\ f.type \in RestTypeNames(src) \ {ClusterReference} =>
         \/ t \in {<<"Cluster", "">>, <<"NodePool", "">>} /\ f.name = "spec" /\ Suffix(f.type) = "Spec"
         \/ t \in {<<"Cluster", "">>, <<"NodePool", "">>} /\ f.name = "status" /\ Suffix(f.type) = "Status"
         \/ t \in Resources(src) /\ f.name = "hostedCluster" /\ f.type = <<"HostedCluster", "Passthrough">>
         \/ t \in Resources(src) /\ f.name = "nodePool" /\ f.type = <<"NodePool", "Passthrough">>

\* No other declaration with another policy has the same path.
Alone(d) == \A e \in Marked[source] : e.path = d.path => e.field.policy = d.field.policy

-----------------------------------------------------------------------------

TypeOK ==
  /\ source \in Sources
  /\ filesLeft \subseteq Files(source)
  /\ cache \subseteq Types(source)
  /\ rootsLeft \subseteq cache
  /\ Len(stack) <= MaxDepth + 1
  /\ \A i \in DOMAIN stack : \E t \in cache : \E k \in 1 .. Len(source.fields[t]) + 1 :
        stack[i].todo = SubSeq(source.fields[t], k, Len(source.fields[t]))
  /\ \A p \in DOMAIN registry : Len(p) <= MaxDepth + 1 /\ registry[p] \in Policy
  /\ crashed \in BOOLEAN /\ generated \in BOOLEAN
  /\ DOMAIN rest \subseteq Types(source) /\ DOMAIN enrich \subseteq DOMAIN project

\* Safety (scanner.go:65-92, 130, 148): whatever the order of files, types
\* and roots, a finished scan holds exactly the marked fields below the root
\* types, and only where two fields share a path is the winner open.
ScanIsOrderFree ==
  Done =>
    /\ DOMAIN registry = {d.path : d \in Marked[source]}
    /\ \A p \in DOMAIN registry :
          \E d \in Marked[source] : d.path = p /\ registry[p] = d.field.policy

\* Safety (generator.go:164-218 against scanner.go:111-135): a field of a
\* resource or passthrough type whose markers hide it is in no REST type and
\* is copied in neither direction, although the generator guesses the path
\* the scanner found it under.  ClusterReference is the type it guesses
\* wrong; a field that shares its path may lose its marker.
HiddenStaysInside ==
  generated =>
    \A d \in Marked[source] :
      (d.type \in DOMAIN rest \ {ClusterReference} /\ d.field.policy.hidden
         /\ ~d.field.embedded /\ Alone(d)) =>
        /\ d.field.name \notin rest[d.type]
        /\ d.type \in DOMAIN project => d.field.name \notin project[d.type]
        /\ d.type \in DOMAIN unproject => d.field.name \notin unproject[d.type]

\* Safety (generator.go:257-297, 502-525, 558, 597-609, 852-864): what an
\* Unproject takes from ServiceSetFields is there, and the member of every
\* service-set field the generator knows is written with qualifyType of the
\* field's type: its own type, or the type of that name in v1alpha1 when the
\* name is listed, whatever package the field's type is of.  Not so if another
\* field of that name has another type, or is registered under a path of its
\* own and "string", the type of a path nobody looked up, is as long as
\* theirs: ServiceSetFields has one member for all of them.
EnrichmentTyped ==
  generated =>
    /\ \A t \in DOMAIN enrich : \A f \in enrich[t] : f.name \in DOMAIN ssf
    /\ \A t \in Types(source) : \A f \in parseTypes(source, t) :
         (/\ IsServiceSet(registry, t, f)
          /\ \A u \in Types(source) : \A g \in parseTypes(source, u) :
               g.name = f.name => g.type = f.type
          /\ \/ Length[f.type] > Length[GoString]
             \/ Cardinality(ServiceSetPaths(registry, f.name)) = 1)
         => f.name \in DOMAIN ssf /\ ssf[f.name] = {qualifyType(f.type)}

\* Safety (verify-configuration/main.go:43-96 against scanner.go:162-210): a
\* source that passes verify-configuration has every field of the
\* configuration types, marked above it and reached from a root type,
\* registered with a write mode, so that the validator does not take it for
\* an unregistered one: all but those with nothing but a mistyped mode, which
\* verify-configuration accepts and the scanner does not see.  Nor does it
\* see a marker behind the field.  ClusterAuthentication is no such type by
\* its name.
VerifiedIsRegistered ==
  (Done /\ VerifyConfiguration(source)) =>
    \A d \in Declarations[source] :
      (/\ source.file[d.type] = ConfigurationFile
       /\ d.type \notin SupportTypes /\ Suffix(d.type) \in {"Configuration", "Config", "Spec"}
       /\ d.field.above /\ ~d.field.embedded /\ Alone(d)) =>
        (d.path \in DOMAIN registry /\ registry[d.path].writeMode # NoMode
           <=> ~(d.field.mistyped /\ d.field.policy.writeMode = NoMode))

\* Liveness (scanner.go:121-160): a scan ends, with a registry when no type
\* contains itself, and with a stack overflow when one below a root does.
ScanEnds == <>(IF Done THEN source \notin Cyclic ELSE crashed /\ source \in Cyclic)

=============================================================================
