----------------------------- MODULE CrdVariant -----------------------------
(***************************************************************************)
(* pkg/featuregate/crd_variant.go and cmd/crd-variants: one CRD per        *)
(* feature set, made from the base CRD by leaving out the fields whose     *)
(* gate is off.  bin/crd-variants has the field registry and the gate      *)
(* table compiled in; make generate-crd-variants rebuilds it, running it   *)
(* by hand for one feature set (README) does not.                          *)
(*                                                                         *)
(* A field of the API types is a path, a sequence of JSON names.  In the   *)
(* CRD it is a key path: the keys of the YAML mappings on the way to it.   *)
(* Sequences in the YAML add no key.  The keys that are no fields (type,   *)
(* description) are left out, and so is the mark of hidden fields, which   *)
(* the filter does not look at.                                            *)
(***************************************************************************)
EXTENDS Naturals, Sequences, FiniteSets, SequencesExt

CONSTANTS
  TypeVersions,   \* versions of the API types: path |-> [gate, list]
  GateTable,      \* the gate table at the start: gate |-> stage
  NoFile, Truncated,
  MaxEdits, MaxInterrupts   \* bounds

Gates(table) == INSTANCE FeatureGate WITH HyperFleetFeatureGates <- table, FieldRegistry <- <<>>

NoGate == ""
FeatureSets == <<"Default", "TechPreviewNoUpgrade", "DevPreviewNoUpgrade">>
FeatureSet == {FeatureSets[i] : i \in DOMAIN FeatureSets}

Above(path) == {SubSeq(path, 1, i) : i \in DOMAIN path}

ASSUME CrdVariantAssumption ==
  /\ \A t \in TypeVersions : \A p \in DOMAIN t :
       /\ p \in Seq(STRING) /\ p # <<>>
       /\ Above(p) \subseteq DOMAIN t   \* a field is reached through its parents
       /\ t[p].gate \in DOMAIN GateTable \cup {NoGate}
       /\ t[p].list \in BOOLEAN
  /\ GateTable \in [DOMAIN GateTable -> 0 .. 2]
  /\ {MaxEdits, MaxInterrupts} \subseteq Nat

VARIABLES
  types,      \* api/v1alpha1: the fields, their gates, which are lists
  gates,      \* HyperFleetFeatureGates in pkg/featuregate/registry.go
  reg,        \* pkg/registry/field_metadata.go: the gate of each path
  base,       \* config/crd/bases: a set of key paths, not committed
  variants,   \* config/crd/variants: one file per feature set
  tool,       \* what is compiled into bin/crd-variants, or NoFile
  goal,       \* what was run last: "all", "one", or "none" if it failed
  todo,       \* the variants still to write
  created,    \* is the file of Head(todo) created and not yet written?
  uncovered,  \* history: was a variant made from a base with fields the tool did not know?
  edits, interrupts

vars == <<types, gates, reg, base, variants, tool, goal, todo, created, uncovered, edits, interrupts>>

-----------------------------------------------------------------------------

\* Below a list the fields of its elements are under the key items.
KeyPath(t, path) ==
  LET items(i) == IF i > 0 /\ t[SubSeq(path, 1, i)].list THEN <<"items">> ELSE <<>>
      keys[i \in 0 .. Len(path)] ==
        IF i = 0 THEN <<"openAPIV3Schema">>
        ELSE keys[i - 1] \o items(i - 1) \o <<"properties", path[i]>>
  IN  keys[Len(path)]

\* controller-gen, whatever the registry says.
Crd(t) == {KeyPath(t, p) : p \in DOMAIN t}

\* marker-scanner goes through lists without adding to the path.
Scan(t) == [p \in DOMAIN t |-> t[p].gate]

\* filterContext at the i-th key: the first "properties" enters the schema,
\* and every other key inside it extends the field path.
inSchema(key, i) == \E j \in 1 .. i : key[j] = "properties"

fieldPath(key, i) ==
  LET path[j \in 0 .. i] ==
        IF j = 0 THEN <<>>
        ELSE path[j - 1] \o IF inSchema(key, j) /\ key[j] # "properties" THEN <<key[j]>> ELSE <<>>
  IN  path[i]

\* Mutant: the last key alone is looked up.
shouldIncludeField_ByName(t, path, fs) ==
  LET name == <<path[Len(path)]>>
  IN  name \in DOMAIN t.reg /\ t.reg[name] # NoGate
        => Gates(t.gates)!IsGateEnabled(t.reg[name], fs)

\* A path the registry does not have is included.
shouldIncludeField(t, path, fs) ==
  path \in DOMAIN t.reg /\ t.reg[path] # NoGate
    => Gates(t.gates)!IsGateEnabled(t.reg[path], fs)

\* A key stays if it and every key above it pass; "properties" is not asked.
filterCRDNode(schema, t, fs) ==
  {key \in schema :
     \A i \in DOMAIN key :
       inSchema(key, i) /\ key[i] # "properties"
         => shouldIncludeField(t, fieldPath(key, i), fs)}

Compiled == [reg |-> reg, gates |-> gates]

AllKeys == UNION {Crd(t) : t \in TypeVersions}

ASSUME TruncatedAssumption == \A keys \in SUBSET AllKeys : keys # Truncated

TypeOK ==
  /\ types \in TypeVersions
  /\ gates \in [DOMAIN GateTable -> 0 .. 2]
  /\ \E t \in TypeVersions : reg = Scan(t)
  /\ base \in (SUBSET AllKeys) \cup {NoFile}
  /\ variants \in [FeatureSet -> (SUBSET AllKeys) \cup {Truncated}]
  /\ tool = NoFile \/ \E t \in TypeVersions : tool.reg = Scan(t)
  /\ goal \in {"all", "one", "none"}
  /\ IsSuffix(todo, FeatureSets) \/ \E fs \in FeatureSet : todo = <<fs>>
  /\ created \in BOOLEAN /\ (created => todo # <<>> /\ variants[Head(todo)] = Truncated)
  /\ uncovered \in BOOLEAN
  /\ edits \in 0 .. MaxEdits /\ interrupts \in 0 .. MaxInterrupts

-----------------------------------------------------------------------------

\* A fresh clone: config/crd/bases and bin are not committed.
Init ==
  /\ types \in TypeVersions
  /\ gates = GateTable
  /\ reg = Scan(types)
  /\ base = NoFile
  /\ variants = [fs \in FeatureSet |-> filterCRDNode(Crd(types), Compiled, fs)]
  /\ tool = NoFile
  /\ goal = "none" /\ todo = <<>> /\ created = FALSE
  /\ uncovered = FALSE
  /\ edits = 0 /\ interrupts = 0

Idle == todo = <<>>

\* Fields are added and gates removed; a field is never gated afterwards.
Extends(new, old) ==
  /\ DOMAIN old \subseteq DOMAIN new
  /\ \A p \in DOMAIN old : new[p].list = old[p].list /\ new[p].gate \in {old[p].gate, NoGate}

EditTypes(t) ==
  /\ Idle /\ edits < MaxEdits
  /\ t # types /\ Extends(t, types)
  /\ types' = t
  /\ edits' = edits + 1
  /\ UNCHANGED <<gates, reg, base, variants, tool, goal, todo, created, uncovered, interrupts>>

\* The one-line change of the promotion of a gate.
PromoteGate(g) ==
  /\ Idle /\ edits < MaxEdits
  /\ gates[g] > 0
  /\ gates' = [gates EXCEPT ![g] = @ - 1]
  /\ edits' = edits + 1
  /\ UNCHANGED <<types, reg, base, variants, tool, goal, todo, created, uncovered, interrupts>>

GenerateRegistry ==
  /\ Idle
  /\ reg' = Scan(types)
  /\ UNCHANGED <<types, gates, base, variants, tool, goal, todo, created, uncovered, edits, interrupts>>

Manifests ==
  /\ Idle
  /\ base' = Crd(types)
  /\ UNCHANGED <<types, gates, reg, variants, tool, goal, todo, created, uncovered, edits, interrupts>>

\* make clean, make clean-generated
Clean ==
  /\ Idle
  /\ tool' = NoFile
  /\ UNCHANGED <<types, gates, reg, base, variants, goal, todo, created, uncovered, edits, interrupts>>

CleanGenerated ==
  /\ Idle
  /\ base' = NoFile
  /\ UNCHANGED <<types, gates, reg, variants, tool, goal, todo, created, uncovered, edits, interrupts>>

\* Mutant: the tool is built only when it is missing.
GenerateAllVariants_IfMissing ==
  /\ Idle
  /\ tool' = IF tool = NoFile THEN Compiled ELSE tool
  /\ goal' = "all"
  /\ todo' = FeatureSets
  /\ UNCHANGED <<types, gates, reg, base, variants, created, uncovered, edits, interrupts>>

\* make generate-crd-variants builds the tool and runs it for all sets.
GenerateAllVariants ==
  /\ Idle
  /\ tool' = Compiled
  /\ goal' = "all"
  /\ todo' = FeatureSets
  /\ UNCHANGED <<types, gates, reg, base, variants, created, uncovered, edits, interrupts>>

\* bin/crd-variants --feature-set=fs runs whatever is in bin.
RunForOne(fs) ==
  /\ Idle /\ tool # NoFile
  /\ goal' = "one"
  /\ todo' = <<fs>>
  /\ UNCHANGED <<types, gates, reg, base, variants, tool, created, uncovered, edits, interrupts>>

\* The base is read for each variant; without it the tool stops, and the
\* files of the other feature sets stay as they are.
ReadFails ==
  /\ ~Idle /\ ~created
  /\ base = NoFile
  /\ todo' = <<>>
  /\ goal' = "none"
  /\ UNCHANGED <<types, gates, reg, base, variants, tool, created, uncovered, edits, interrupts>>

\* Mutant: the old content is left in the file.
CreateFile_NoTruncate ==
  /\ ~Idle /\ ~created
  /\ base # NoFile
  /\ created' = TRUE
  /\ UNCHANGED <<types, gates, reg, base, variants, tool, goal, todo, uncovered, edits, interrupts>>

\* Read, parse and filter come first, then os.Create empties the file.
CreateFile ==
  /\ ~Idle /\ ~created
  /\ base # NoFile
  /\ created' = TRUE
  /\ variants' = [variants EXCEPT ![Head(todo)] = Truncated]
  /\ UNCHANGED <<types, gates, reg, base, tool, goal, todo, uncovered, edits, interrupts>>

\* Mutant: the file is read once, and each filter takes from what the one
\* before left of the tree.
Encode_Shared ==
  /\ created
  /\ created' = FALSE
  /\ variants' = [variants EXCEPT ![Head(todo)] =
       filterCRDNode(IF goal = "all" /\ Head(todo) # "Default" THEN variants["Default"] ELSE base,
                     tool, Head(todo))]
  /\ uncovered' = (uncovered \/ ~(base \subseteq {KeyPath(types, p) : p \in DOMAIN tool.reg}))
  /\ todo' = Tail(todo)
  /\ UNCHANGED <<types, gates, reg, base, tool, goal, edits, interrupts>>

Encode ==
  /\ created
  /\ created' = FALSE
  /\ variants' = [variants EXCEPT ![Head(todo)] = filterCRDNode(base, tool, Head(todo))]
  /\ uncovered' = (uncovered \/ ~(base \subseteq {KeyPath(types, p) : p \in DOMAIN tool.reg}))
  /\ todo' = Tail(todo)
  /\ UNCHANGED <<types, gates, reg, base, tool, goal, edits, interrupts>>

\* The run is stopped, or writing fails.
Interrupt ==
  /\ ~Idle /\ interrupts < MaxInterrupts
  /\ todo' = <<>> /\ created' = FALSE
  /\ goal' = "none"
  /\ interrupts' = interrupts + 1
  /\ UNCHANGED <<types, gates, reg, base, variants, tool, uncovered, edits>>

Step == ReadFails \/ CreateFile \/ Encode

Next ==
  \/ \E t \in TypeVersions : EditTypes(t)
  \/ \E g \in DOMAIN GateTable : PromoteGate(g)
  \/ GenerateRegistry \/ Manifests \/ Clean \/ CleanGenerated
  \/ GenerateAllVariants
  \/ \E fs \in FeatureSet : RunForOne(fs)
  \/ Step
  \/ Interrupt

Spec == Init /\ [][Next]_vars

(* The tool runs to its end.  The guide lists generate-registry and        *)
(* generate-crd-variants as the steps after a change, and generate has     *)
(* manifests; a developer whose run failed for want of the base runs it    *)
(* again when the base is there.                                           *)
RoutineSpec ==
  /\ Spec
  /\ WF_vars(Step)
  /\ SF_vars(GenerateRegistry) /\ SF_vars(Manifests)
  /\ SF_vars(base # NoFile /\ GenerateAllVariants)

-----------------------------------------------------------------------------

Allowed(path, fs) ==
  \/ types[path].gate = NoGate
  \/ Gates(gates)!IsGateEnabled(types[path].gate, fs)

\* The fields whose path in the CRD is the path in the registry: not below
\* a list, and none on the way is called "properties" or is a schema keyword.
Plain(path) ==
  /\ \A q \in Above(path) \ {path} : ~types[q].list
  /\ \A i \in DOMAIN path : path[i] # "properties"

(* A variant that was made of fields its tool knew never has a field that  *)
(* the validator refuses to that feature set today, however old the file,  *)
(* the tool and the base are, and whichever runs were cut short: gates     *)
(* only ever open (feature-gates.md: a GA field cannot be gated later).    *)
StaleIsNeverWider ==
  ~uncovered =>
    \A fs \in FeatureSet, p \in DOMAIN types :
      Plain(p) /\ ~Allowed(p, fs) /\ variants[fs] # Truncated
        => \A key \in variants[fs] : ~IsPrefix(KeyPath(types, p), key)

(* A customer who moves up a feature set loses no field: as long as the    *)
(* last run is one for all feature sets that ended well, the three files   *)
(* are whole and each has the fields of the one before.                    *)
VariantsNest ==
  Idle /\ goal = "all" =>
    /\ Truncated \notin {variants[fs] : fs \in FeatureSet}
    /\ variants["Default"] \subseteq variants["TechPreviewNoUpgrade"]
    /\ variants["TechPreviewNoUpgrade"] \subseteq variants["DevPreviewNoUpgrade"]

(* A developer who keeps to the routine ends with variants that have       *)
(* exactly the plain fields the validator accepts from each feature set    *)
(* (and whose parents it accepts): truncated files, partial runs, stale    *)
(* tools and a missing base are repaired, and later runs, which empty each *)
(* file before they write it, leave them so.                               *)
EventuallyRight ==
  <>[](Idle => \A fs \in FeatureSet :
         /\ variants[fs] # Truncated
         /\ \A p \in {q \in DOMAIN types : Plain(q)} :
              KeyPath(types, p) \in variants[fs] <=> \A q \in Above(p) : Allowed(q, fs))

(* The run that writes the third file with nothing out of date leaves the  *)
(* right fields in all three: of the plain ones each set has those that    *)
(* the validator accepts from it together with their parents, no less and  *)
(* no more, whatever was in the files before (crd_variant.go:170-194).     *)
CompleteRunIsRight ==
  [][ /\ Encode /\ goal = "all" /\ todo' = <<>>
      /\ tool = Compiled /\ reg = Scan(types) /\ base = Crd(types)
      => \A fs \in FeatureSet, p \in {q \in DOMAIN types : Plain(q)} :
           /\ variants'[fs] # Truncated
           /\ KeyPath(types, p) \in variants'[fs] <=> \A q \in Above(p) : Allowed(q, fs) ]_vars

(* "Each variant only includes fields accessible to that tier": after a    *)
(* complete run with nothing out of date no field whose gate is off is in  *)
(* the variant.                                                            *)
EachTierOnly ==
  Idle /\ goal = "all" /\ tool = Compiled /\ reg = Scan(types) /\ base = Crd(types) =>
    \A fs \in FeatureSet, p \in DOMAIN types :
      ~Allowed(p, fs) => KeyPath(types, p) \notin variants[fs]

=============================================================================
