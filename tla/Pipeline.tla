------------------------------ MODULE Pipeline ------------------------------
(***************************************************************************)
(* The generation pipeline: a developer who bumps HyperShift, edits        *)
(* markers and runs make targets, and the files each generator reads and   *)
(* writes.  A make goal is a list of steps; a step is one file written,    *)
(* and make can be interrupted between two of them.                        *)
(*                                                                         *)
(* bin/conversion-gen has the field registry compiled in.  The Makefile    *)
(* builds it only when the file is missing, so it can be older than        *)
(* pkg/registry/field_metadata.go.  The other tools have no such data in   *)
(* them and are not modelled as files.                                     *)
(***************************************************************************)
EXTENDS PassthroughGen, OutputGen

CONSTANTS
  Upstreams,      \* the HyperShift versions, each the set of its fields
  Policies,       \* the policies developers write
  Committed,      \* the sources a developer may start from
  NoBin,          \* bin/conversion-gen is not there
  MaxEdits, MaxBumps, MaxInterrupts   \* bounds

ASSUME PipelineAssumption ==
  /\ \A u \in Upstreams : u \subseteq TypeNames \X STRING
  /\ Policies \subseteq Policy
  /\ \A s \in Committed : /\ DOMAIN s \in Upstreams
                          /\ s \in [DOMAIN s -> Policies \cup {SafeDefault}]
                          /\ Validate(Scan(s))
  /\ {MaxEdits, MaxBumps, MaxInterrupts} \subseteq Nat

VARIABLES
  upstream,    \* the HyperShift version in go.mod
  src,         \* api/v1alpha1/hostedclusterspec.passthrough.go
  regGo,       \* pkg/registry/field_metadata.go
  regJson,     \* pkg/registry/field_metadata.json
  openapi,     \* openapi/openapi.json
  rest,        \* pkg/conversion/v1alpha1/rest
  ssf,         \* pkg/conversion/types.go
  convBin,     \* the registry in bin/conversion-gen, or NoBin
  goal, todo,  \* the make goal, and the steps still to run
  reviewed,    \* history: the fields whose markers a developer wrote
  edits, bumps, interrupts   \* counters for the bounds

repo == <<upstream, src, regGo, regJson, openapi, rest, ssf, convBin>>
counters == <<edits, bumps, interrupts>>
vars == <<repo, goal, todo, reviewed, counters>>

NoGoal == "none"

registrySteps == <<"registry.go", "registry.json">>
conversionSteps == <<"conversion.rest", "conversion.types">>

\* Mutant: the passthrough file is regenerated before the scan.
generateSteps_PassthroughFirst ==
  <<"passthrough">> \o registrySteps \o <<"manifests", "openapi", "conversion-gen">>
    \o conversionSteps

\* Prerequisites first and each at most once per run of make, so generate
\* does not scan again after it has written the passthrough file.
generateSteps ==
  registrySteps \o <<"passthrough", "manifests", "openapi", "conversion-gen">>
    \o conversionSteps

Steps(g) ==
  CASE g = "generate-registry"    -> registrySteps
    [] g = "generate-passthrough" -> <<"passthrough">>
    [] g = "generate-openapi"     -> <<"openapi">>
    [] g = "generate-conversion"  -> <<"conversion-gen">> \o registrySteps \o conversionSteps
    [] g = "generate"             -> generateSteps

Goals == {"generate-registry", "generate-passthrough", "generate-openapi",
          "generate-conversion", "generate"}

Fields == UNION Upstreams

\* What one of the files made from a set of fields can hold.
Table(policies) == UNION {[S -> policies] : S \in SUBSET Fields}
SourcePolicies ==
  Policies \cup {SafeDefault}
    \cup {Doc(p) : p \in Policies} \cup {[Doc(p) EXCEPT !.overrides = FALSE] : p \in Policies}

ASSUME NoBinAssumption == NoBin \notin Table(SourcePolicies)

TypeOK ==
  /\ upstream \in Upstreams
  /\ DOMAIN src \in Upstreams
  /\ {src, regGo, regJson, openapi, rest} \subseteq Table(SourcePolicies)
  /\ ssf \subseteq {f[2] : f \in Fields}
  /\ convBin \in Table(SourcePolicies) \cup {NoBin}
  /\ goal \in Goals \cup {NoGoal}
  /\ \E g \in Goals : \E i \in 1 .. Len(Steps(g)) + 1 : todo = SubSeq(Steps(g), i, Len(Steps(g)))
  /\ reviewed \subseteq Fields
  /\ edits \in 0 .. MaxEdits /\ bumps \in 0 .. MaxBumps /\ interrupts \in 0 .. MaxInterrupts

-----------------------------------------------------------------------------

\* A fresh clone (bin/ is not committed) of a commit whose files agree and
\* whose fields are curated or still as they were generated.
Init ==
  /\ src \in Committed
  /\ upstream = DOMAIN src
  /\ regGo = Scan(src) /\ regJson = Scan(src)
  /\ openapi = OpenApi(src)
  /\ rest = RestTypes(src, regGo)
  /\ ssf = ServiceSetFields(regGo)
  /\ convBin = NoBin
  /\ goal = NoGoal /\ todo = <<>>
  /\ reviewed = {f \in upstream : src[f] # SafeDefault}
  /\ edits = 0 /\ bumps = 0 /\ interrupts = 0

Idle == todo = <<>>

\* make bump-hypershift: only go.mod changes.
BumpHypershift(u) ==
  /\ Idle /\ bumps < MaxBumps
  /\ u # upstream
  /\ upstream' = u
  /\ bumps' = bumps + 1
  /\ goal' = NoGoal
  /\ UNCHANGED <<src, regGo, regJson, openapi, rest, ssf, convBin, todo, reviewed, edits, interrupts>>

\* The developer curates the markers of one field of the passthrough file.
EditMarkers(f, policy) ==
  /\ Idle /\ edits < MaxEdits
  /\ f \in DOMAIN src /\ policy # src[f]
  /\ src' = [src EXCEPT ![f] = policy]
  /\ reviewed' = reviewed \cup {f}
  /\ edits' = edits + 1
  /\ goal' = NoGoal
  /\ UNCHANGED <<upstream, regGo, regJson, openapi, rest, ssf, convBin, todo, bumps, interrupts>>

\* Mutant: build-tools builds only what is missing.
BuildTools_IfMissing ==
  /\ Idle
  /\ convBin' = IF convBin = NoBin THEN regGo ELSE convBin
  /\ UNCHANGED <<upstream, src, regGo, regJson, openapi, rest, ssf, goal, todo, reviewed, counters>>

\* make build-tools, which always builds.
BuildTools ==
  /\ Idle
  /\ convBin' = regGo
  /\ UNCHANGED <<upstream, src, regGo, regJson, openapi, rest, ssf, goal, todo, reviewed, counters>>

\* make clean
Clean ==
  /\ Idle
  /\ convBin' = NoBin
  /\ UNCHANGED <<upstream, src, regGo, regJson, openapi, rest, ssf, goal, todo, reviewed, counters>>

Start(g) ==
  /\ Idle
  /\ goal' = g
  /\ todo' = Steps(g)
  /\ UNCHANGED <<repo, reviewed, counters>>

\* make is stopped, or a tool fails: the steps left are not run.
Interrupt ==
  /\ ~Idle /\ interrupts < MaxInterrupts
  /\ todo' = <<>>
  /\ goal' = NoGoal
  /\ interrupts' = interrupts + 1
  /\ UNCHANGED <<repo, reviewed, edits, bumps>>

Run(step) ==
  /\ todo # <<>> /\ Head(todo) = step
  /\ todo' = Tail(todo)
  /\ UNCHANGED <<goal, upstream, reviewed, counters>>

\* marker-scanner validates before it writes anything; make stops with it.
ValidationFails ==
  /\ todo # <<>> /\ Head(todo) = "registry.go"
  /\ ~Validate(Scan(src))
  /\ todo' = <<>>
  /\ goal' = NoGoal
  /\ UNCHANGED <<repo, reviewed, counters>>

GenerateRegistryGo ==
  /\ Validate(Scan(src))
  /\ Run("registry.go")
  /\ regGo' = Scan(src)
  /\ UNCHANGED <<src, regJson, openapi, rest, ssf, convBin>>

GenerateRegistryJson ==
  /\ Run("registry.json")
  /\ regJson' = Scan(src)
  /\ UNCHANGED <<src, regGo, openapi, rest, ssf, convBin>>

GeneratePassthroughFile ==
  /\ Run("passthrough")
  /\ src' = GeneratePassthrough(upstream, regJson)
  /\ UNCHANGED <<regGo, regJson, openapi, rest, ssf, convBin>>

\* The CRD bases (module CrdVariant); none of the files above.
Manifests ==
  /\ Run("manifests")
  /\ UNCHANGED <<src, regGo, regJson, openapi, rest, ssf, convBin>>

(* There is no bin/controller-gen unless somebody put it there: the go get *)
(* of its rule installs no program.  make stops, and only the registry and *)
(* the passthrough file have been written.                                 *)
ManifestsFail ==
  /\ todo # <<>> /\ Head(todo) = "manifests"
  /\ todo' = <<>>
  /\ goal' = NoGoal
  /\ UNCHANGED <<repo, reviewed, counters>>

GenerateOpenApi ==
  /\ Run("openapi")
  /\ openapi' = OpenApi(src)
  /\ UNCHANGED <<src, regGo, regJson, rest, ssf, convBin>>

\* A file target without prerequisites: built only when it is missing.
BuildConversionGen ==
  /\ Run("conversion-gen")
  /\ convBin' = IF convBin = NoBin THEN regGo ELSE convBin
  /\ UNCHANGED <<src, regGo, regJson, openapi, rest, ssf>>

GenerateRest ==
  /\ Run("conversion.rest")
  /\ rest' = RestTypes(src, convBin)
  /\ UNCHANGED <<src, regGo, regJson, openapi, ssf, convBin>>

GenerateServiceSetFields ==
  /\ Run("conversion.types")
  /\ ssf' = ServiceSetFields(convBin)
  /\ UNCHANGED <<src, regGo, regJson, openapi, rest, convBin>>

Step ==
  \/ ValidationFails \/ GenerateRegistryGo \/ GenerateRegistryJson
  \/ GeneratePassthroughFile \/ Manifests \/ ManifestsFail \/ GenerateOpenApi
  \/ BuildConversionGen \/ GenerateRest \/ GenerateServiceSetFields

Next ==
  \/ \E u \in Upstreams : BumpHypershift(u)
  \/ \E f \in Fields, policy \in Policies : EditMarkers(f, policy)
  \/ BuildTools \/ Clean
  \/ \E g \in Goals : Start(g)
  \/ Interrupt
  \/ Step

Spec == Init /\ [][Next]_vars

(* make runs the steps of a goal it has started.  After a change of the    *)
(* markers the developer guide asks for generate-registry,                 *)
(* generate-openapi and generate-conversion, and before a commit for make  *)
(* all, which builds the tools.  A developer does each again and again,    *)
(* whatever else they run: that includes make generate and                 *)
(* generate-passthrough, which nothing here asks for.                      *)
DeveloperSpec ==
  /\ Spec /\ WF_vars(Step)
  /\ SF_vars(Start("generate-registry")) /\ SF_vars(Start("generate-openapi"))
  /\ SF_vars(Start("generate-conversion")) /\ SF_vars(BuildTools)

\* The developer who does what CI's error message says.
AdviceSpec ==
  Spec /\ WF_vars(Step) /\ SF_vars(Start("generate-conversion"))

-----------------------------------------------------------------------------

\* The verify job of CI, with tools built from the commit.  It does not
\* look at field_metadata.json.
RegistryUpToDate == Validate(Scan(src)) /\ regGo = Scan(src)
ConversionUpToDate == rest = RestTypes(src, regGo) /\ ssf = ServiceSetFields(regGo)
CIGreen == RegistryUpToDate /\ openapi = OpenApi(src) /\ ConversionUpToDate

FirstTypeField == {f \in Fields : f[1] = SourceTypes[1]}

(* A field of the first source type that no developer has marked is hidden *)
(* in the source, whatever bumps, interrupted and stale regenerations came *)
(* before (getMarkersForField: "safe defaults for new fields not in the    *)
(* registry").                                                             *)
NewFieldsStayHidden ==
  \A f \in (DOMAIN src \cap FirstTypeField) \ reviewed : src[f].hidden

(* What a commit CI accepts shows its customers, although one tool reads   *)
(* the markers and the other a compiled registry that shows what it does   *)
(* not know: every field of the OpenAPI schema is in the REST types, no    *)
(* field hidden by a marker above it is in either, and a REST field is     *)
(* missing from the schema exactly when it is hidden by a marker BEHIND    *)
(* it, which only openapi-gen reads.                                       *)
GreenMeansSameFields ==
  CIGreen =>
    /\ DOMAIN openapi \subseteq DOMAIN rest
    /\ \A f \in DOMAIN rest :
         ~src[f].hidden /\ (f \notin DOMAIN openapi <=> src[f].trailing)

(* A customer can be asked to set only fields whose owner is known: in a   *)
(* commit CI accepts a REST field that is service-set has its place in     *)
(* ServiceSetFields, however it came to be visible.                        *)
GreenMeansOwned ==
  CIGreen => \A f \in DOMAIN rest : rest[f].writeMode = "service-set" => f[2] \in ssf

(* make generate scans before it regenerates, so it does not lose what the *)
(* developer just wrote: a field of the first type that keeps its name     *)
(* keeps the visibility and write mode the markers above it give it.       *)
(* (generate-passthrough on its own does lose it: its registry file can be *)
(* older than the source.)                                                 *)
GenerateKeepsMarkers ==
  [][GeneratePassthroughFile /\ goal = "generate"
     => \A f \in DOMAIN src \cap DOMAIN src' \cap FirstTypeField :
          HasMarker(src[f]) =>
            /\ src'[f].hidden = src[f].hidden
            /\ src'[f].writeMode = src[f].writeMode]_vars

(* A developer who keeps running make all and the three generators the     *)
(* guide names ends with a commit CI accepts, unless a visible field is    *)
(* left without write mode: stale registries, a stale conversion-gen,      *)
(* interrupted runs and a make generate that stops for lack of             *)
(* controller-gen are all repaired.                                        *)
EventuallyGreen == <>[](Validate(Scan(src)) => CIGreen)

-----------------------------------------------------------------------------
\* What the documentation promises and the code does not keep.

(* "New fields default to hidden + service-set until explicitly reviewed": *)
(* a field that no developer has marked is hidden, of whatever type.       *)
HiddenUntilReviewed ==
  \A f \in DOMAIN src \ reviewed : src[f].hidden

(* "Preserves existing marker annotations on regeneration using the field  *)
(* metadata registry": regenerating with a registry that is up to date     *)
(* changes no marker above a field.                                        *)
MarkersPreserved ==
  [][GeneratePassthroughFile /\ regJson = Scan(src)
     => \A f \in MarkedFields(src) \cap DOMAIN src' : Doc(src'[f]) = Doc(src[f])]_vars

(* CI on conversion code that is out of date: "Run: make                   *)
(* generate-conversion".  A developer who runs it again and again ends     *)
(* with conversion code that CI accepts.                                   *)
AdviceFixesConversion == <>[](RegistryUpToDate => ConversionUpToDate)

=============================================================================
