# Verification of hyperfleet-api-codegen

TLA+ models of the HyperFleet API code generator and of the library code it
generates, checked with TLC on small instances and proved with TLAPS for every
registry, set of sources, schema, set of gates and number of steps: every safety
invariant and every action property that a passing run checks is a theorem.

The repository turns one set of annotated Go types into four artefacts (a field
registry, an OpenAPI schema, REST types, conversion code) and ships the run-time
packages that use them: a request validator and CRD <-> REST conversions. What
can go wrong is of two kinds:

* **At run time**: a customer's value ends where only the platform may write, an
  immutable field changes over a sequence of legal requests, a gate that changes
  between requests excuses a write it should not.
* **In the pipeline**: the artefacts are derived from one another, the order
  matters, and each one can be older than what it was derived from. A field is
  then hidden in one artefact and visible in another.

`ClusterApi` and, on top of it, `HyperShiftBoundary` are about the first kind.
`Pipeline`, `CrdVariant` and `Codegen` are about the second: what happens when
tools are run again and again (the first two), and what one run of the scanner and
the generator makes of a set of Go types (the third).

## 1. Inventory

| Component | State it keeps | Operations | Talks to | What is hard |
|---|---|---|---|---|
| Feature gates, `pkg/featuregate/{types,registry}.go` | none (a table of gates) | `MaxStage`, `Includes`, `IsGateEnabled`, `GatesForFeatureSet` | called by the validator and the CRD tooling | unknown gates; stages against sets |
| Validator, `pkg/validation` | none; reads `FieldRegistry` | `Validate`, `validateWriteMode`, `ValidateFieldAccess` | gates, registry; called by the API server | overrides and their priority; unregistered paths; what `ExistingFields` says |
| Generated conversions, `pkg/conversion/v1alpha1` | the CRD (in the caller) | `ProjectX`, `UnprojectX`, JSON round trip of mirror types | REST types, `ServiceSetFields` | only part of a struct is enriched; a round trip drops fields |
| API server (not in the repository) | clusters, feature set and entitlements per account | create, update, read | validator, conversions | what changes between two requests |
| Marker scanner, `pkg/markers`, `cmd/marker-scanner` | type cache during a scan | `Scan`, `Validate`, `Generate`, `GenerateJSON` | writes `field_metadata.go`, `.json` | two files, one after the other; map order; imported types |
| Passthrough generator, `pkg/passthrough` | `FieldPrefix`, registry loaded from JSON | `GenerateTypeDef`, `getMarkersForField` | reads HyperShift and the JSON registry, writes the source file | a stale registry; a prefix kept from one type to the next |
| OpenAPI generator, `pkg/openapi` | known types | `Generate` | reads the markers themselves | its own reading of what is hidden |
| Conversion generator, `pkg/conversion/generator.go` | the registry **compiled into the binary** | `Generate` in three phases | reads the source, writes REST types, `types.go`, conversions | an old binary; fields it does not know are visible |
| `Makefile`, `ci.yml` | `bin/`, the generated files | the generate goals, `build-tools`, `clean`, `bump-hypershift`; the verify job | every generator | order, one run per prerequisite, interruption, what is rebuilt when |
| CRD variants, `pkg/featuregate/crd_*.go`, `cmd/crd-variants` | three YAML files | `GenerateAllVariants`, filters | CRD base file, registry | partial writes, what the filter looks at |
| HyperShift boundary, `pkg/conversion/hypershift` | none (the controller that calls it has a copy) | `ToHyperShiftHostedCluster`, `FromHyperShiftHostedCluster`, node pools | CRDs of HyperShift | what is copied, states outside the enum, old copies |
| `verify-configuration` | none | one predicate of one source file | reads the source the scanner reads | it accepts what the scanner does not see |
| `featuregate-info`, bump workflow, Swagger UI | none | - | - | no state of their own |

Components and their status, with the reasons for what is left out, are in
`PROJECT.json` under "components"; the hazards are listed there line by line.

## 2. Modules

```
FeatureGate <- Validation <- ClusterApi <- HyperShiftBoundary    (run time)
                   ^             ^  |             ^
     ValidationProofs <- ClusterApiProofs <- HyperShiftBoundaryProofs
                                    |
                                    +- implements FieldOwnership

Markers <- PassthroughGen \
        <- OutputGen      -- Pipeline <- PipelineProofs          (generation)
        <- MarkerScanner <- ConversionGen <- Codegen <- CodegenProofs   (one run)

FeatureGate (instance) -- CrdVariant <- CrdVariantProofs        (CRD variants)

NatSets (induction and recursive functions) <- CodegenProofs, CrdVariantProofs
```

### FeatureGate, Validation (operators)

An MC module per state machine (`MCClusterApi`, `MCBoundary`, `MCPipeline`,
`MCCodegen`, `MCCrdVariant`) gives the constants their values.

`FeatureGate` is `pkg/featuregate` without state; the gate table and the
generated registry are the constants `HyperFleetFeatureGates` and
`FieldRegistry`. A field path is an opaque name.

`Validation!Validate(req)` is the set of errors `Validator.Validate` returns, in
the code's order of checks: unregistered paths pass, then the gate, then the
write mode. `EffectiveMode` is the mode `validateWriteMode` enforces,
`PriorityMode` the one the documentation describes. The two differ because the
code has no flag for "a specific gate matched": it consults the default override
whenever the mode still equals the base mode (validator.go:141).
`RegularOverrides` is the condition under which that makes no difference.

### ClusterApi (state machine)

| Variable | Code |
|---|---|
| `exists`, `crd` | the stored cluster and its `ClusterSpec` |
| `featureSet`, `entitlements` | `Request.FeatureSet`, and with it `Request.EnabledGates`, of the next request |
| `first` | history only: the first value a customer gave to each field |

`CreateCluster` and `UpdateCluster` are the whole handler: validate, decode onto
the REST type (paths the type lacks are dropped, as `encoding/json` does),
`UnprojectCluster` with the platform's fields or with none (`Enrichments`: each
request has its own, or the nil pointer of cluster.go:65), store. `AssignFeatureSet`,
`Entitle` and `Revoke` are the environment. The server is not in the repository;
the order of its calls follows `docs/api-management.md` and the validator's own
examples (`pkg/validation/example_test.go`), and the two kinds of update (merge,
replace) are the constant `Replace`.

Values are opaque. Those of customers and of the platform are disjoint, so a
stored value tells who supplied it, and "a customer's value reached the field" is
a statement about the state.

A field of the model is a leaf path. `Holder` names the struct field it is or lies
below: a path such as `autoNode.x` can be in a request although the registry has
only `autoNode`, is then accepted by the validator, and is in the REST type exactly
if its struct is. As in the examples of `docs/configuration-types-pattern.md` a
request lists the leaves of a struct it sets and not the struct itself.

### FieldOwnership (abstract specification)

What the write path promises, in two actions and without requests, gates or
conversions: a creation gives platform fields no customer's value; an update
changes a field only to a customer's value, only if its owner is the customer, and
only once if it is write-once, and takes no value away; only the fields the platform
injects (`Injected`) may it also fill or empty. `ClusterApi!Owned` instantiates it:
`spec <- crd`, the platform's fields are those in a hidden field or struct and those
service-set under every gate, the injected ones the service-set fields of the
envelope, the write-once ones those immutable under every gate.
`ImplementsOwnership` is the refinement, for merging updates.

### HyperShiftBoundary (state machine, composed with ClusterApi)

The write path goes on while a controller reconciles the resource. The controller
is not in the repository; `docs/boundary1-conversions.md` gives its two paths
(convert and apply; read back, convert, update the status).

| Variable | Code |
|---|---|
| `kind` | which pair of conversions, cluster or node pool |
| `hosted` | the spec `ToHyperShift...` made, as HyperShift has it |
| `conditions` | HyperShift's conditions, as far as a state is computed from them |
| `state` | the `State` of the stored status; the Kubernetes API server enforces its Enum |
| `step`, `copy`, `computed` | the controller: where it is, the spec it read, the state it computed |
| `cleared` | history only: fields an update removed |

`ReadResource`, `Apply`, `ReadStatus` and `UpdateStatus` are separate steps, with
requests, condition changes and a restart possible between any two. `UpdateStatus`
stores the computed state only if the Enum has it, since the API server refuses the
status otherwise: `computeNodePoolState` can return `"updating"` (nodepool.go:129),
which `nodepool_types.go` does not list. `Unmapped` are the passthrough fields that
`toHyperShiftHostedClusterSpec` leaves out.

### MarkerScanner, ConversionGen (operators and scanner actions), Codegen (state machine)

`MarkerScanner` is `pkg/markers/scanner.go` as it runs. A source gives each struct
type its file and its list of fields; a type is a pair of stem and suffix, because
suffixes decide what the tools do with it. One action is one file parsed
(`ScanFile`), one root type begun (`processRoot`), one field handled
(`processField`), one `processStruct` call ended (`return`). Files, cached types
and roots come from Go maps, so each of those choices is open. `stack` is the Go
call stack; `MaxDepth` stands for its limit.

`ConversionGen` is `pkg/conversion/generator.go` by what its output copies: the
fields of each REST type, the members of `ServiceSetFields` with the Go types each
may get, the fields each project/unproject function copies, and those set from the
enrichment. `buildFieldPath` is the path the generator *guesses* from a type's
name; nothing in the code ties it to the path the scanner found. `qualifyType` is
how a type is written into `ServiceSetFields`: `BareName` gives a type's name without
its package, and a name that is in the generator's list becomes the `v1alpha1` type
of that name, whatever package it came from.

| Variable (Codegen) | Code |
|---|---|
| `source`, `filesLeft`, `cache`, `rootsLeft`, `stack`, `registry`, `crashed` | the scan: `typeCache`, the loops, the recursion, `Registry` |
| `rest`, `ssf`, `project`, `unproject`, `enrich` | the three phases of `Generator.Generate` |

`VerifyConfiguration` is the predicate `cmd/verify-configuration` decides. It looks
for the text `+hyperfleet:write-mode=` with anything behind it, above or behind the
field; a field of a source may have such a text with a mode the scanner does not know
(`mistyped`).

### Markers, PassthroughGen, OutputGen (operators), Pipeline (state machine)

A field is a pair of type and name; its *policy* is what its markers say: hidden,
write mode, whether it has gate-aware overrides, and whether there is a
`+k8s:openapi-gen=false` in the comment *behind* it (`trailing`), which
`openapi-gen` reads (`isHidden`) and the scanner does not (`Doc`). Each generated file is a
function from fields to policies, so that "the file is out of date" is
inequality with what the generator would write now.

| Variable | Code |
|---|---|
| `upstream` | the HyperShift version in `go.mod`, by the fields of its types |
| `src` | `api/v1alpha1/hostedclusterspec.passthrough.go` |
| `regGo`, `regJson` | `pkg/registry/field_metadata.go` and `.json` |
| `openapi`, `rest`, `ssf` | `openapi.json`, the REST types, `pkg/conversion/types.go` |
| `convBin` | the registry compiled into `bin/conversion-gen`, or `NoBin` |
| `goal`, `todo` | the running make goal and the steps left of it |
| `reviewed` | history only: fields whose markers a developer wrote |

One action is one file written. `Start(g)` puts the steps of a goal into `todo`
in make's order (prerequisites first, each once), `Interrupt` drops the rest,
`ValidationFails` is marker-scanner refusing a visible entry without write mode.
`make generate` runs `manifests` between the passthrough file and the schema; it
writes none of these files (`CrdVariant` has what it writes), and may fail and end
the run (`ManifestsFail`): its prerequisite `bin/controller-gen` is "installed" with
`go get`, which with the Go version of `go.mod` installs no program (Makefile:298-301).
`BuildConversionGen` is the Makefile's file target without prerequisites: it
builds only when the file is missing. `CIGreen` is the verify job of `ci.yml`,
which builds its tools from the commit and does not look at the JSON registry.

### CrdVariant (state machine)

The variants of the CRD, one file per feature set. A field is a path of JSON
names (its name in the registry) and has a *key path* in the CRD: the YAML keys on
the way to it, with `properties` between two fields and `items` below a list.
`KeyPath` adds the keys name by name; `fieldPath(key, i)` is what the filter's walk
has made of a key path after `i` keys, key by key as `filterCRDNode` does, and
`inSchema(key, i)` whether it has passed `properties` by then. The model keeps the
two paths apart because the code does. `tool` is the registry and the gate table
compiled into `bin/crd-variants`. `FeatureGate` is instantiated with the table
that was compiled in, or with the current one (`Gates(table)`), as gates are
promoted while files and binaries stay behind.

| Variable | Code |
|---|---|
| `types`, `gates` | the API types (gate of each field, which are lists), the gate table |
| `reg`, `base` | `field_metadata.go`; the CRD in `config/crd/bases`, not committed |
| `variants` | the three files, each a set of key paths, or truncated |
| `tool`, `goal`, `todo`, `created` | the binary, what ran last, variants left, is the next file open |
| `uncovered` | history only: was a variant made from a base with fields its tool did not know |

`CreateFile` and `Encode` are two steps because `os.Create` empties the file
before the encoder writes it. `RunForOne` is the README's second command, which
does not rebuild the tool.

## 3. Runs

| Run | Expect | Question |
|---|---|---|
| `api` | pass | Over every order of creates, merged updates, changes of feature set and entitlement: who can own the value in each field, and was each customer write allowed by the gates of its moment? |
| `priority` | violation | Is the enforced mode always the documented one? |
| `injected` | violation | Does `UnprojectX` inject every service-set field the platform filled in? |
| `nested` | violation | Is what is inside a service-set struct the platform's? |
| `pipeline` | pass | After a bump, an edit, an interrupted make and any order of goals, builds and cleans: what does a green CI guarantee, what does `make generate` preserve, and do the goals the developer guide lists always end green? |
| `reviewed` | violation | Is every field hidden until a developer has reviewed it? |
| `preserved` | violation | Does regeneration with an up-to-date registry preserve all markers? |
| `variants` | pass | After changes to types and gates, in every order of registry, manifests, whole and single runs, cleans and one interruption: which fields can a variant of any age have, and does the routine end with the right ones? |
| `tier` | violation | Does an up-to-date, complete run leave every gated field out of the variants below its stage? |
| `advice` | violation | Does the command CI advises repair what CI complains of? |
| `codegen` | pass | In whatever order the scanner takes files, types and roots: what is in the registry, what does the generator make of it with the paths it guesses, and what does verify-configuration guarantee? |
| `boundary` | pass | With requests, old copies, restarts and condition changes in every order: what is HyperShift told of each field, does it arrive, and what is the customer shown? |

### Properties of `api`

* `PlatformOwnedStaysPlatform`: a registered path that is service-set under every
  gate never holds a customer's value. The registry in the run has such a field that
  is *visible*, where only the validator stands in the way. A path below a visible
  service-set struct with no entry of its own is not covered: the run `nested` shows
  that it does get a customer's value.
* `HiddenNeverCustomer`: a hidden field, or anything in a hidden struct, never holds
  a customer's value. The run has a hidden field and a path below a hidden struct the
  validator would accept; here only the REST type stands in the way.
* `ImmutableKeepsFirstValue`: over any sequence of requests an immutable field
  keeps the first value a customer gave it. Every step is legal; the property
  relates the state to the first write.
* `WritesAreEntitled` (action property): a step that gives a registered path a new
  customer value is allowed by the gates of that moment under the documented priority.

* `ImplementsOwnership` (refinement): every step of the write path is a step of
  `FieldOwnership` or none. What the platform injects is part of it: a request
  without enrichment may empty the envelope's service-set fields and nothing else.

### Properties of `boundary`

* `ImmutableReachesHyperShiftOnce` (action property): HyperShift never gets a
  second value of an immutable field, although the controller may apply an old
  copy after a newer request. The run has *replacing* updates: one that leaves the
  field out clears it, and only then (`cleared`) can a second value arrive. Without
  that condition TLC finds it.
* `SpecArrives` (liveness): a value that stays in a mapped field is in the end
  HyperShift's, across updates and restarts. For an unmapped field it is false.
* `ReadinessIsTold` (liveness): lasting readiness is told, lasting absence of it is
  not shown as `"ready"`. Left out is a healthy node pool that is updating: its
  state is refused by the Enum and an old `"ready"` may stay. Without that
  exception TLC finds it.
* `BoundaryTypeOK`: the stored state is one of the Enum, and a *cluster's* computed
  state always is.

### Properties of `codegen`

* `ScanIsOrderFree`: whatever the order, a finished scan has exactly the marked
  fields below root types, and the policy of a path is that of a field with that
  path. Roots of earlier files are scanned again with every file (scanner.go:82),
  and it is that repetition that makes the result complete.
* `HiddenStaysInside`: a field its markers hide is in no REST type and copied in
  neither direction, for every type the generator handles except
  `ClusterReference`, whose path it guesses wrong, and except where two fields of
  different policy share a path (`Alone`). Each exception is needed. It is about the
  resource and passthrough types; the fields *inside* configuration types have no REST
  types or converters of their own and are not covered.
* `EnrichmentTyped`: a member of `ServiceSetFields` that an unproject function reads
  exists, and the member of any service-set field the generator knows has the field's
  type as `qualifyType` writes it: the type itself, or the `v1alpha1` type of its name
  if the name is in the list. The run has a passthrough field of the upstream type
  `ClusterConfiguration`, which is written as the mirror type (the repository has it so:
  `pkg/conversion/types.go:46`). Excepted is where the rule "keep the longer type"
  decides between different fields of one name, or prefers the default `string` to a
  shorter type such as `*bool`.
* `VerifiedIsRegistered`: of the fields of a source that passes verify-configuration,
  those with their markers above them are registered with a write mode, except those
  whose only mode is mistyped, and these are not. The run has such a field.
* `ScanEnds` (liveness): a scan ends, or overflows the stack exactly when a type
  below a root contains itself.

### Properties of `pipeline`

* `NewFieldsStayHidden`: no sequence of bumps, stale regenerations and
  interruptions makes an unreviewed field of the first source type visible.
* `GreenMeansSameFields`: a commit CI accepts has every field of the schema in the
  REST types and none there that a marker *above* it hides; a REST field is missing
  from the schema exactly if a marker *behind* it hides it. Not obvious because one
  generator reads markers and the other a registry that shows what it does not know,
  and because a visible field without markers is in no registry.
* `GreenMeansOwned`: in such a commit every visible service-set field has its place
  in `ServiceSetFields`.
* `GenerateKeepsMarkers` (action property): the regeneration inside `make
  generate` keeps what developers wrote, since the scan comes first.
  `make generate-passthrough` on its own does not: its JSON registry may be older
  than the source.
* `EventuallyGreen` (liveness): whoever keeps running the goals the developer guide
  lists repairs stale registries, a stale `bin/conversion-gen`, interrupted runs and
  runs of `make generate` that stopped for lack of `controller-gen`.

### Properties of `variants`

* `StaleIsNeverWider`: a variant shows no feature set a field the validator
  refuses it today, however old file, tool and base are, since gates only open.
  The condition `~uncovered` is needed: without it TLC finds the new gated field
  that is in the base, not in the compiled registry, and therefore in the Default
  variant (edit, `make manifests`, `make generate-crd-variants`).
* `VariantsNest`: as long as the last run was a complete one, each variant has the
  fields of the one below it. Runs cut short and single runs break this, and the
  model has both.
* `CompleteRunIsRight` (action property): the step that writes the third file of a
  run for all sets, with binary, registry and CRD of today, leaves in all three files
  exactly the plain fields that the validator accepts from their sets together with
  their parents. The first two files were written steps before, after changes, single
  runs and interruptions of every kind, and each from a tree of its own (the mutant
  lets the filters share one). Fields below a list are excepted: see `tier`.
* `EventuallyRight` (liveness): the routine ends with exactly the plain fields
  the validator accepts, after truncated files, partial runs, stale tools and a
  missing base.

"Plain" fields are those whose path in the CRD is their path in the registry; the
run `tier` shows what happens to the others.

### Bounds, and why they are enough

`MCClusterApi`: one cluster (clusters do not interact: validator and conversion
are functions of one request and one resource). One field of each kind the code
distinguishes: envelope service-set, visible service-set, hidden mutable,
immutable with a gate, gate-aware overrides, and paths without an entry below a
visible service-set struct (`autoNode.x`), below one whose upstream type lacks them
(`kubelet.maxPods`, mirror-only) and below a hidden struct (`aws.region`). Two
customer values (to see a change), one platform value (ownership is what matters),
bodies of at most two fields (`MaxBody`: the validator decides per field, so a
pair is enough for one accepted and one refused field in a body, and for two
fields written together), one entitlement gate.

`MCPipeline`: the two source types of the Makefile; two HyperShift versions, the
second with a new field in each type, the NodePool one with the name of a
HostedCluster one (as `release` and `platform` have upstream). `MaxBumps`,
`MaxEdits` and `MaxInterrupts` are 1: a stale file is a file one change behind,
and what a second change could add is a different policy for the same field,
which the initial sources (`MCCommitted`: as generated, or curated once) already
provide. The policies an edit may give (`MCPolicies`) are visible with overrides, no
marker at all, overrides alone (which the scanner refuses), and hidden by a marker
behind the field only. make goals, builds and cleans are unbounded. The violation runs set
`MaxInterrupts` to 0, so their traces are of runs nothing disturbed.

`MCCrdVariant`: a gate of each stage above GA, three versions of the types (a
gated field with an ungated child, a list with a gated element field, a gate taken
off), two changes (`MaxEdits`), so that registry, base, tool and files can each be
of a generation of their own, and one interruption. Developers add fields and
remove gates; they do not gate a GA field, which `docs/feature-gates.md` rules
out. All goals and cleans are unbounded.

`MCCodegen`: the types of `api/v1alpha1` with a few fields each, spread over four
files, and changes to them in all combinations that interact: a path
shared by two fields with equal and with different policies, a hidden name in
`ClusterReference` together with a marker behind its field, a write mode left out or
mistyped, one JSON name for service-set fields of different types, a type that contains
itself. `MaxDepth` (14) is above the number of struct types, which the assumption
demands, so that only a recursive type reaches it. Thirteen struct types (the list
type `ClusterList` among them, which is no root) in four files give every relative order of a type, the types below it and another root.

`MCBoundary`: a mutable field that both conversions map (`channel`), an immutable one
that the cluster conversion leaves out and the node pool's does not (`capabilities`),
and an envelope field; two customer values; bodies of one field, since what
a request combines is the question of `api`; one restart, after which the
controller's state is the initial one. Gates do not change, which cannot influence
the conversions. Requests and reconciles are unbounded. With one field of each, TLC
tests `ImmutableReachesHyperShiftOnce` on node pools and `SpecArrives` of a changing
value on both kinds; the theorem of the former is of both kinds and all fields.

### Fairness

* `Codegen!Spec` has `WF_vars(Next)`: the tools are sequential programs that keep
  running. `CHECK_DEADLOCK` is off, as they end.
* `BoundarySpec` has `WF(Reconcile)`: the controller keeps reconciling
  (`docs/boundary1-conversions.md` calls it a reconciliation loop). Weak fairness is
  enough, because from the creation on one of its steps is always possible. A
  controller that is restarted for ever before it is done does nothing, so restarts
  are bounded by `MaxRestarts`; customers and HyperShift owe nothing.

* `WF_vars(Step)`: make runs the next step of a goal it has started.
* `DeveloperSpec` adds strong fairness of `Start("generate-registry")`,
  `Start("generate-openapi")`, `Start("generate-conversion")` and `BuildTools`:
  `docs/DEVELOPER_GUIDE.md` lists these three goals after every change of markers
  (:225-227, :319-321, :453-455) and `make all`, whose first prerequisite is
  `build-tools`, before a commit (:140-143). *Strong* fairness, because they are
  possible only while no goal runs, and that comes and goes. It is fairness of people,
  so `EventuallyGreen` reads "if developers keep running these, whatever else they run
  in between". `make generate` may be run and is not relied on: `README.md:229` and
  `CONTRIBUTING.md:112` ask for it, the developer guide does not (its `make
  generate-all`, :234, does not exist), and on a fresh clone it stops at `manifests`.
* `RoutineSpec` (CrdVariant): `WF_vars(Step)`, the tool runs to its end; strong
  fairness of `GenerateRegistry`, `Manifests` and of `GenerateAllVariants` while
  the base is there: the commands `docs/feature-gates.md` lists after a change,
  `manifests` being part of `make generate` (:201), and a developer who repeats a run
  that failed for want of the base. That `Manifests` succeeds means that somebody has
  put a `controller-gen` into `bin/`; the Makefile does not.
* `AdviceSpec` has `SF_vars(Start("generate-conversion"))` only: the developer who
  does what the CI message says. The counterexample never builds tools again,
  which no document asks for at that point.

## 4. Proofs

All theorems hold for every value of the constants that meets the named
assumptions; TLC evaluates those in every run of the module. None bounds the number
of steps: the counters of `Pipeline`, `CrdVariant` and the boundary are bounded by
arbitrary naturals. What the assumptions say:

| Assumption | What it asks, and why the code has it |
|---|---|
| `GatesAssumption`, `RegistryAssumption` | the tables are well formed; one of them is generated, the other a Go literal |
| `ClusterApiAssumption`, `BoundaryAssumption` | field sets and values are what the structs declare |
| `SourceTypesAssumption`, `PipelineAssumption`, `NoBinAssumption` | the fields and policies of the sources; a missing tool is not a registry |
| `ScannerAssumption` | each source has finitely many struct types, and the Go stack has room for one call of each and one more |
| `LengthAssumption` | a Go type's text has a length and a bare name |
| `NilAssumption` | the nil pointer is neither a spec nor an enrichment |
| `CrdVariantAssumption`, `TruncatedAssumption` | a field's parents are fields; an empty file is not a set of keys |

`ValidationProofs` and `ClusterApiProofs`:

* `RegularIsDocumented`: where the overrides are regular, `EffectiveMode` and
  `PriorityMode` agree for every set of gates. Together with the run `priority`
  this delimits the finding: irregularity is exactly what the counterexample has.
  It rests on `FirstModeIsFirst`, that the `CHOOSE` in `FirstMode` really is the
  first match (a least element of a non-empty set of naturals).
* `TypeCorrect`, `Spec => []TypeOK`: inductive as it stands.
* `PlatformOwned`, `HiddenKept`: proved together, as the conjunction `Ownership`,
  inductive relative to `TypeOK` (an update writes
  `UnprojectCluster(... ProjectCluster(crd) ..., enrichment)`, so what is stored next
  depends on the old value and on the enrichment, whose type rules out customers'
  values). `WriteKeepsOwnership` is the part create and update share. It rests on
  `AcceptedMode` (what acceptance says of the mode of a body's path) and `StoredValue`
  (what `UnprojectCluster` puts in a field, with an enrichment and without). A path
  below a service-set struct is platform-owned only if it has an entry of its own:
  without one, acceptance says nothing of it, and the run `nested` is what happens.
* `OnlyEntitledWrites`: a step lemma (`AcceptedWrite`) and no invariant: a field
  that changes to a customer's value was in an accepted body, or it held the
  value before.
* `ImmutableKept`: with `Replace = FALSE`. The strengthening `Fresh` says that a
  stored field is zero as long as nobody has written it, so the update that may
  still set an immutable field is the first one. The hypothesis is needed: with
  replacing updates the property is false (section 6).

* `WritePathImplementsOwnership`: the refinement, with `Replace = FALSE`. A creation
  maps to `Create`, an update to `Update`, everything else to a stutter.
  `MergedField` is the case distinction for one field of an update. Besides
  `Ownership` it needs `UnreachedStaysZero`: what neither a request nor the
  enrichment reaches (a hidden field, one only the mirror type has) is zero for
  ever, so that unprojecting it to zero again changes nothing.

`HyperShiftBoundaryProofs`:

* `BoundaryIsClusterApi`: the composition implements `ClusterApi!Spec`, as the
  controller changes nothing of it. All theorems above hold for the composition.
* `ImmutableToldOnce`, for both kinds of update. The invariant is `ImmutableAgrees`:
  of an immutable field that was never cleared, HyperShift's value, the
  controller's copy and the stored value agree wherever the older one has a value.
  The property alone is not inductive: `Apply` writes what `ReadResource` read some
  requests ago, and what protects the field in between is the validator
  (`UpdatedImmutable`).
* `BoundaryTypeCorrect`: with `TypeCorrect` and the range of the two `compute...`
  functions (`ComputedState`).

`PipelineProofs`:

* `NewFieldsHidden`: the property is not inductive, because the generator takes the
  markers from the *saved* registry, which may be any generation old. `Hiding` says
  of source and saved registry alike that they hide what nobody reviewed; `reviewed`
  only grows, so an old file stays within it. `FirstPrefix` shows that the first
  source type is looked up under its own prefix or under none, which is where the
  restriction to the first type comes from.
* `GenerateKeeps`: `InOrder` says where in its list of steps a running `make
  generate` is and that, when it is about to write the passthrough file, the saved
  registry is a scan of the present source. Hypothesis: the first source type ends
  in `Spec` (otherwise it has no prefix and its markers are not found).
* `GreenSameFields`, `GreenOwned`: what CI's comparisons imply, for every source.
  The argument is that a field the registry does not have has no marker above it that
  hides it or gives it a write mode. The only invariant they need is that each field of
  the source has a policy (`Typed`, a part of `Hiding`).

* `PipelineTypeCorrect`: the only part that is not inductive at once is that the REST
  types are made with a registry, never with `NoBin`. `Types` therefore says where in
  its steps a running goal is: as long as the tool is missing, the step that builds
  it has not been passed (`BuildsFirst`, for each goal; `StepLeft`).

`NatSets` has what the two modules below need of the natural numbers. The library's
induction theorem takes the property as an operator, which the provers cannot
instantiate. `SetInduction` says it of a *set* of naturals instead, and
`BoundedInduction` up to a bound; they follow from the pigeonhole principle for
finite sets (`FS_PigeonHole`). `RecursiveFunction` and `RecursiveFromZero` follow:
the function that a recursive definition `f[n \in 1 .. N] == ...` describes exists, so
that what the definition unfolds to can be used.

`CodegenProofs`, with two invariants for the scan and one for the generator:

* `WalkInvariant`: every frame on the call stack is a struct that is reached from a
  root at the depth of the frame (`StructsAt`), its remaining fields are an end of the
  type's field list, and every registered path is that of a marked field with the
  registered policy. This is soundness: the scanner registers nothing else.
* `CompleteInvariant`: completeness. Once the last file is parsed there is a set of
  structs that have been called (`Covers`), and each named field of each of them is
  registered with its type called, or it waits in a frame; each root has been called or
  waits in `rootsLeft`. The set is not a variable of the model: the invariant says that
  one exists, and each step names the next one. Before the last file nothing is
  claimed, as types that are not yet parsed are skipped; what makes the end result
  complete is that `scanFile` starts again from *all* roots.
* `OrderFree`: with an empty stack and no roots left, induction over the depth
  (`SetInduction`) shows that every struct below a root has been called, and with it
  `ScanIsOrderFree`.
* `CodegenTypeCorrect`, from `WalkInvariant` and `OutputsInvariant` (the outputs are
  those of the finished registry). `Verified` is a consequence of `OrderFree`, in both
  directions: what the scanner registers with a mode has one above it that it knows.
* `CrashMeansCycle`: a chain of calls longer than the number of types has a type
  twice (pigeonhole), so an overflow needs a type that contains itself.
* `Hidden`: with the hypothesis `ReachedAsNamed(src)` for every source: the types whose
  path `buildFieldPath` guesses are reached through the field it thinks of. The Go types
  of the repository meet it (TLC evaluates it for the sources of `MCCodegen`), and
  without it a hidden field may be looked up where it is not registered. The induction
  over the nesting (`AllGuessed`) shows that the guess is then the path the scanner
  found, and `OrderFree` that the registry has it.
* `Enrichment`: every path of `ServiceSetFields` with the name of the field infers the
  field's type or the default, and one of them, the guessed path, infers the field's;
  what is written is `qualifyType` of it, so the step from the inferred type to the
  written one is the same for every type. `EnrichedPath` shows that the guessed path is
  among those of the name, which gives the first part for the enriched fields.

`CrdVariantProofs`:

* `CrdVariantTypeCorrect`: the invariant `Typed` adds what a half-finished run looks
  like: the sets left are an end of the list, and a file is open only while one is left.
* `Nesting`: `Progress` follows a run for all feature sets file by file; each one that is
  written is what the filter makes of the *same* base and tool, since nothing else runs
  meanwhile, and the filter is monotone in the feature set (`FilterNests`, from the
  gates' stages).
* `NeverWider`: two invariants. `Ages`: registry, tool and base were made from versions
  of the types and gates that the present ones extend, a relation that edits keep
  (`ExtendsFurther`) because gates only open. `AllClosed`: no file has a key below a
  plain field that is closed today, unless a base had fields its tool did not know.
  `FilterCloses` is the core: an old tool that knows the field asks for it under its own
  name. That is a fact about the two recursive walks: `fieldPath` of the key path of a
  plain field is the field (`PlainFieldPath`), and a key that continues it passes through
  it (`KeysEnter`).
* `CompleteRun`: `Progress` gives what the three files are, `FilterIsRight` that the
  filter is exact with the tool of today. One half of it is `FilterCloses`; the other,
  `FilterKeeps`, that it removes nothing else: every name on the key path of a plain
  field is asked for as the field itself or one above it.

Each leaf proof was also examined for hypotheses that exclude one another, and
recursive functions over `0 .. n` are kept out of leaves that reason about the length
of sequences: version 1.4.5 gives every value to which `Len` is applied a domain
`1 .. n`, so that a leaf with both could be proved for the wrong reason.

Model-checked only: liveness (`EventuallyGreen`, `EventuallyRight`, `ScanEnds`,
`SpecArrives`, `ReadinessIsTold`), which needs fairness and `ENABLED` and is out of the
prover's reach, and the seven violations, which are single behaviours.

## 5. Findings (violation runs)

1. `priority` - the default override beats a specific one that restates the base
   mode (validator.go:141 against docs/api-management.md:189).
2. `injected` - service-set fields of the passthrough struct are listed in
   `ServiceSetFields` and never injected.
3. `reviewed` - a new NodePool field inherits the markers of the HostedCluster
   field with its name and may be visible unreviewed (`FieldPrefix` is kept).
4. `preserved` - regeneration drops gate-aware overrides.
5. `nested` - a path without an entry below a visible service-set struct is accepted
   (validator.go:96-99) and stored (cluster.go:90-92), where
   docs/configuration-types-pattern.md answers 400.
6. `tier` - a gated field of a list's elements is in every variant: the scanner's
   path has no `items`, the filter's has.
7. `advice` - `make generate-conversion` with an old binary reproduces the code CI
   rejects.

## 6. Known to differ, without a run of its own

* With updates that replace the spec (`Replace = TRUE`), leaving an immutable
  field out clears it and the next update may set another value: the validator
  looks at the fields in the body only.
* The gate check looks at the feature set only, never at `EnabledGates`: an
  entitlement changes write modes but opens no gated field.
* A visible field without any marker is not registered; CI accepts it and the
  validator lets customers write it.
* An update whose handler has no enrichment at hand (`nil`, cluster.go:65) empties the
  envelope's service-set fields, which the REST type does not have: nothing keeps the
  account and the ids of the stored resource. The model has such updates.
* A `+k8s:openapi-gen=false` behind a field hides it in the schema only
  (openapi/generator.go:324): the REST types have it, and regeneration drops it.
* After a bump one `make generate` leaves a new hidden field in the REST types, since
  it scans before it regenerates (Makefile:194); CI is then red until a second run.
* On a fresh clone `make generate` stops at `manifests` (Makefile:298-301), with the
  registry and the passthrough file written and the rest not.
* `ServiceSetFields` has `*v1alpha1.ClusterConfiguration` (types.go:46) where the CRD's
  field is the upstream `ClusterConfiguration`: `qualifyType` rewrites by name. A type
  that is not in its list is written as it is, unqualified if the source has it so.
* Mirror types: `Configuration` has the upstream type, so the scanner does not
  reach the mirror type's markers through it. The nested entries of
  `docs/configuration-types-pattern.md:109-122` are never registered; the
  configuration types are roots of their own with bare paths instead.
* `toHyperShiftHostedClusterSpec` is called a "1:1 mapping" (cluster.go:47) and
  leaves out labels and capabilities, which are stored and never arrive.
* `computeNodePoolState` returns `"updating"`, which is not in the Enum of
  `nodepool_types.go:71`: the status of an updating node pool is refused.
* verify-configuration takes any text after `write-mode=`, anywhere at the field, for
  a mode; the scanner knows three and reads only the comment above. And a type without one of the three suffixes
  (`ClusterAuthentication`) is not checked at all.
* A hidden field of `ClusterReference` would be visible in REST (generator.go:213);
  it has none today.
* `len(goType)` lets the default `string` win over `*bool` (generator.go:507, 613).

## 7. Not modelled, and why

* Text: formatting, imports, comments, log output, schema details of field types.
  Only which fields a file has, and their policy, matters to the properties.
* In `Pipeline`, what `manifests` writes (no generator reads the CRD; `CrdVariant` has
  it), and that `go get` may touch `go.mod`. In `CrdVariant`, schema keywords and lists of required fields: a gated field
  called `type` or `items`, or one that is required, would be treated wrongly, and
  the repository has none.
* Copied parts of the status (condition texts, versions, replica counters) and the
  errors of the JSON round trip, which end as `nil` and so as a dropped field
  (`MirrorOnly`).
* The text of generated Go code, and struct types written inline (none exist). Field
  types in `MarkerScanner` are seen through pointers, slices and maps.
* `FilterCRDFields` (`crd_filter.go`): counts for a summary, used by no generator.
* The controller and the API server themselves: external, only the calls they make.
* `make -j`: the model runs prerequisites in make's default order.
* Gates in `Pipeline`: every generator treats a field's gate as it treats its
  write mode, so it would add states and no behaviour.
* `featuregate-info`, workflows, examples and the Swagger page have no state that
  another part reads.

## 8. Plan

Modules, in order:

1. `FeatureGate`, `Validation`, `ClusterApi` and their proofs - done.
2. `Markers`, `PassthroughGen`, `OutputGen`, `Pipeline` - done.
3. `MarkerScanner`, `ConversionGen`, `Codegen` - done.
4. `CrdVariant` - done.
5. `HyperShiftBoundary`, composed with `ClusterApi` - done and proved.
6. `FieldOwnership` and the refinement; the pipeline's safety theorems - done.
7. `PipelineTypeCorrect`; `NatSets`, `CodegenProofs`, `CrdVariantProofs`: every
   invariant of the passing runs as a theorem - done.

Left: the safety half of `ScanEnds` (a scan that ends had no type that contains
itself) as a theorem; hidden fields inside configuration types; a `make -j` variant of `Pipeline`, whose steps overlap; the
entitlement that opens no gate (section 6) as a run of its own.
