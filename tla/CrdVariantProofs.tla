-------------------------- MODULE CrdVariantProofs --------------------------
(***************************************************************************)
(* Proofs about CrdVariant.                                                *)
(***************************************************************************)
EXTENDS CrdVariant, NatSets, SequenceTheorems, TLAPS

-----------------------------------------------------------------------------
(* The feature sets in the order they are written.                         *)

AfterDefault == <<"TechPreviewNoUpgrade", "DevPreviewNoUpgrade">>
AfterTechPreview == <<"DevPreviewNoUpgrade">>

Todos == {FeatureSets, AfterDefault, AfterTechPreview, <<>>} \cup {<<fs>> : fs \in FeatureSet}

\* The feature sets are the three that have a variant.
LEMMA ThreeSets ==
  FeatureSet = {"Default", "TechPreviewNoUpgrade", "DevPreviewNoUpgrade"}
  <1>1. DOMAIN FeatureSets = 1 .. 3
    BY DEF FeatureSets
  <1>2. 1 .. 3 = {1, 2, 3}
    OBVIOUS
  <1>3. FeatureSets[1] = "Default" /\ FeatureSets[2] = "TechPreviewNoUpgrade"
        /\ FeatureSets[3] = "DevPreviewNoUpgrade"
    BY DEF FeatureSets
  <1> HIDE DEF FeatureSets
  <1> QED
    BY <1>1, <1>2, <1>3 DEF FeatureSet

\* What is written first, and what is left then.
LEMMA TodoParts ==
  /\ Head(FeatureSets) = "Default" /\ Tail(FeatureSets) = AfterDefault
  /\ Head(AfterDefault) = "TechPreviewNoUpgrade" /\ Tail(AfterDefault) = AfterTechPreview
  /\ Head(AfterTechPreview) = "DevPreviewNoUpgrade" /\ Tail(AfterTechPreview) = <<>>
  /\ \A fs \in FeatureSet : Head(<<fs>>) = fs /\ Tail(<<fs>>) = <<>>
  /\ \A s \in Todos : s # <<>> => Head(s) \in FeatureSet /\ Tail(s) \in Todos
  <1>1. Head(FeatureSets) = "Default" /\ Tail(FeatureSets) = AfterDefault
    BY DEF FeatureSets, AfterDefault
  <1>2. Head(AfterDefault) = "TechPreviewNoUpgrade" /\ Tail(AfterDefault) = AfterTechPreview
    BY DEF AfterDefault, AfterTechPreview
  <1>3. Head(AfterTechPreview) = "DevPreviewNoUpgrade" /\ Tail(AfterTechPreview) = <<>>
    BY DEF AfterTechPreview
  <1>4. \A fs \in FeatureSet : Head(<<fs>>) = fs /\ Tail(<<fs>>) = <<>>
    OBVIOUS
  <1> QED
    BY <1>1, <1>2, <1>3, <1>4, ThreeSets, Zenon DEF Todos

\* What is left to do is an end of the list of all sets, or one set.
LEMMA TodoTyped ==
  ASSUME NEW s \in Todos
  PROVE  IsSuffix(s, FeatureSets) \/ \E fs \in FeatureSet : s = <<fs>>
  <1>1. IsSuffix(FeatureSets, FeatureSets)
    BY DEF FeatureSets, IsSuffix, IsPrefix, Reverse
  <1>2. IsSuffix(AfterDefault, FeatureSets)
    BY DEF FeatureSets, AfterDefault, IsSuffix, IsPrefix, Reverse
  <1>3. IsSuffix(<<>>, FeatureSets)
    BY DEF FeatureSets, IsSuffix, IsPrefix, Reverse
  <1>4. AfterTechPreview = <<"DevPreviewNoUpgrade">> /\ "DevPreviewNoUpgrade" \in FeatureSet
    BY ThreeSets DEF AfterTechPreview
  <1> QED
    BY <1>1, <1>2, <1>3, <1>4, Zenon DEF Todos

-----------------------------------------------------------------------------
(* What the filter keeps.                                                  *)

\* A gate that is on for a feature set is on for the sets above it.
LEMMA GatesNest ==
  ASSUME NEW table \in [DOMAIN GateTable -> 0 .. 2], NEW g
  PROVE  /\ Gates(table)!IsGateEnabled(g, "Default")
              => Gates(table)!IsGateEnabled(g, "TechPreviewNoUpgrade")
         /\ Gates(table)!IsGateEnabled(g, "TechPreviewNoUpgrade")
              => Gates(table)!IsGateEnabled(g, "DevPreviewNoUpgrade")
  BY DEF Gates!IsGateEnabled, Gates!DeclaredGates, Gates!Includes, Gates!MaxStage,
         Gates!GA, Gates!TechPreview, Gates!DevPreview

\* A gate that is promoted stays on where it was on.
LEMMA GatesOpen ==
  ASSUME NEW new \in [DOMAIN GateTable -> 0 .. 2], NEW old \in [DOMAIN GateTable -> 0 .. 2],
         \A g \in DOMAIN GateTable : new[g] <= old[g],
         NEW g, NEW fs, Gates(old)!IsGateEnabled(g, fs)
  PROVE  Gates(new)!IsGateEnabled(g, fs)
  BY DEF Gates!IsGateEnabled, Gates!DeclaredGates, Gates!Includes, Gates!MaxStage,
         Gates!GA, Gates!TechPreview, Gates!DevPreview

\* The filter only takes keys away.
LEMMA FilterPart ==
  ASSUME NEW schema, NEW t, NEW fs
  PROVE  filterCRDNode(schema, t, fs) \subseteq schema
  BY DEF filterCRDNode

\* A higher set keeps what a lower one keeps, with the same tool and base.
LEMMA FilterNests ==
  ASSUME NEW schema, NEW t, t.gates \in [DOMAIN GateTable -> 0 .. 2]
  PROVE  /\ filterCRDNode(schema, t, "Default")
              \subseteq filterCRDNode(schema, t, "TechPreviewNoUpgrade")
         /\ filterCRDNode(schema, t, "TechPreviewNoUpgrade")
              \subseteq filterCRDNode(schema, t, "DevPreviewNoUpgrade")
  <1>1. ASSUME NEW path
        PROVE  /\ shouldIncludeField(t, path, "Default")
                    => shouldIncludeField(t, path, "TechPreviewNoUpgrade")
               /\ shouldIncludeField(t, path, "TechPreviewNoUpgrade")
                    => shouldIncludeField(t, path, "DevPreviewNoUpgrade")
    BY GatesNest, Zenon DEF shouldIncludeField
  <1> QED
    BY <1>1, Zenon DEF filterCRDNode

-----------------------------------------------------------------------------
(* The types, and what is on the way while a run is on.                    *)

IsTool(x) ==
  /\ \E t \in TypeVersions : x.reg = Scan(t)
  /\ x.gates \in [DOMAIN GateTable -> 0 .. 2]

Sources ==
  /\ types \in TypeVersions
  /\ gates \in [DOMAIN GateTable -> 0 .. 2]
  /\ \E t \in TypeVersions : reg = Scan(t)

Outputs ==
  /\ base \in (SUBSET AllKeys) \cup {NoFile}
  /\ variants \in [FeatureSet -> (SUBSET AllKeys) \cup {Truncated}]
  /\ tool = NoFile \/ IsTool(tool)

\* A run has its tool, and a file that is created has its base.
Place ==
  /\ goal \in {"all", "one", "none"}
  /\ todo \in Todos
  /\ todo # <<>> => IsTool(tool)
  /\ created \in BOOLEAN
  /\ created => todo # <<>> /\ base # NoFile /\ variants[Head(todo)] = Truncated

Counted ==
  /\ uncovered \in BOOLEAN
  /\ edits \in 0 .. MaxEdits /\ interrupts \in 0 .. MaxInterrupts

Typed == Sources /\ Outputs /\ Place /\ Counted

\* What is compiled in is a registry and a gate table.
LEMMA CompiledIsTool ==
  ASSUME Sources
  PROVE  IsTool(Compiled)
  BY DEF Sources, IsTool, Compiled

\* A CRD has key paths of declared fields only.
LEMMA CrdKeys ==
  ASSUME NEW t \in TypeVersions
  PROVE  Crd(t) \subseteq AllKeys
  BY DEF AllKeys

\* Writing a variant keeps the types.
LEMMA EncodeTyped ==
  ASSUME Typed, Encode
  PROVE  Typed'
  <1>1. todo \in Todos /\ todo # <<>> /\ created /\ base # NoFile /\ IsTool(tool)
    BY DEF Typed, Place, Encode
  <1>2. Head(todo) \in FeatureSet /\ Tail(todo) \in Todos
    BY <1>1, TodoParts
  <1>3. base \in SUBSET AllKeys
    BY <1>1 DEF Typed, Outputs
  <1>4. filterCRDNode(base, tool, Head(todo)) \in SUBSET AllKeys
    BY <1>3, FilterPart
  <1>5. Outputs'
    <2>1. variants' = [variants EXCEPT ![Head(todo)] = filterCRDNode(base, tool, Head(todo))]
          /\ base' = base /\ tool' = tool
      BY DEF Encode
    <2> QED
      BY <1>2, <1>4, <2>1 DEF Typed, Outputs, IsTool
  <1>6. Place'
    BY <1>1, <1>2 DEF Typed, Place, Encode, IsTool
  <1>7. Sources' /\ Counted'
    BY DEF Typed, Sources, Counted, Encode
  <1> QED
    BY <1>5, <1>6, <1>7 DEF Typed

\* Opening the file, which empties it, keeps the types.
LEMMA CreateTyped ==
  ASSUME Typed, CreateFile
  PROVE  Typed'
  <1>1. todo \in Todos /\ todo # <<>> /\ base # NoFile /\ IsTool(tool)
    BY DEF Typed, Place, CreateFile, Idle
  <1>2. Head(todo) \in FeatureSet
    BY <1>1, TodoParts
  <1>3. Outputs' /\ variants'[Head(todo)] = Truncated
    BY <1>2 DEF Typed, Outputs, CreateFile, IsTool
  <1>4. Place'
    BY <1>1, <1>3 DEF Typed, Place, CreateFile, IsTool
  <1>5. Sources' /\ Counted'
    BY DEF Typed, Sources, Counted, CreateFile
  <1> QED
    BY <1>3, <1>4, <1>5 DEF Typed

\* A fresh clone is well typed.
LEMMA TypesInit ==
  ASSUME Init
  PROVE  Typed
  <1>1. Sources
    BY CrdVariantAssumption DEF Init, Sources
  <1>2. Crd(types) \subseteq AllKeys
    BY CrdKeys DEF Init
  <1>3. \A fs \in FeatureSet : filterCRDNode(Crd(types), Compiled, fs) \in SUBSET AllKeys
    BY <1>2, FilterPart
  <1>4. Outputs
    BY <1>3 DEF Init, Outputs
  <1>5. Place
    <2>1. <<>> \in Todos
      BY Zenon DEF Todos
    <2> QED
      BY <2>1 DEF Init, Place
  <1>6. Counted
    <2>1. MaxEdits \in Nat /\ MaxInterrupts \in Nat
      BY CrdVariantAssumption
    <2>2. uncovered \in BOOLEAN
      BY Zenon DEF Init
    <2> QED
      BY <2>1, <2>2 DEF Init, Counted
  <1> QED
    BY <1>1, <1>4, <1>5, <1>6 DEF Typed

\* Every step keeps the types.
LEMMA TypesNext ==
  ASSUME Typed, [Next]_vars
  PROVE  Typed'
  <1>1. Sources /\ Outputs /\ Place /\ Counted
    BY DEF Typed
  <1>2. ASSUME NEW t \in TypeVersions, EditTypes(t) PROVE Typed'
    BY <1>1, <1>2, CrdVariantAssumption DEF EditTypes, Typed, Sources, Outputs, Place, Counted, IsTool
  <1>3. ASSUME NEW g \in DOMAIN GateTable, PromoteGate(g) PROVE Typed'
    <2>1. gates' \in [DOMAIN GateTable -> 0 .. 2]
      BY <1>1, <1>3 DEF PromoteGate, Sources
    <2>2. edits' \in 0 .. MaxEdits
      BY <1>1, <1>3, CrdVariantAssumption DEF PromoteGate, Counted
    <2> QED
      BY <1>1, <1>3, <2>1, <2>2 DEF PromoteGate, Typed, Sources, Outputs, Place, Counted, IsTool
  <1>4. CASE GenerateRegistry
    BY <1>1, <1>4 DEF GenerateRegistry, Typed, Sources, Outputs, Place, Counted, IsTool
  <1>5. CASE Manifests
    BY <1>1, <1>5, CrdKeys DEF Manifests, Idle, Typed, Sources, Outputs, Place, Counted, IsTool
  <1>6. CASE Clean \/ CleanGenerated
    BY <1>1, <1>6 DEF Clean, CleanGenerated, Idle, Typed, Sources, Outputs, Place, Counted, IsTool
  <1>7. CASE GenerateAllVariants
    <2>1. IsTool(tool')
      BY <1>1, <1>7, CompiledIsTool DEF GenerateAllVariants
    <2>2. Outputs' /\ Place'
      BY <1>1, <1>7, <2>1 DEF GenerateAllVariants, Idle, Outputs, Place, Todos
    <2> QED
      BY <1>1, <1>7, <2>2 DEF GenerateAllVariants, Typed, Sources, Counted
  <1>8. ASSUME NEW fs \in FeatureSet, RunForOne(fs) PROVE Typed'
    <2>1. <<fs>> \in Todos
      BY DEF Todos
    <2> QED
      BY <1>1, <1>8, <2>1 DEF RunForOne, Idle, Typed, Sources, Outputs, Place, Counted, IsTool
  <1>9. CASE ReadFails
    <2>1. <<>> \in Todos
      BY DEF Todos
    <2> QED
      BY <1>1, <1>9, <2>1 DEF ReadFails, Typed, Sources, Outputs, Place, Counted, IsTool
  <1>10. CASE Interrupt
    <2>1. <<>> \in Todos
      BY DEF Todos
    <2>2. interrupts' \in 0 .. MaxInterrupts
      BY <1>1, <1>10, CrdVariantAssumption DEF Interrupt, Counted
    <2> QED
      BY <1>1, <1>10, <2>1, <2>2 DEF Interrupt, Typed, Sources, Outputs, Place, Counted, IsTool
  <1>11. CASE UNCHANGED vars
    BY <1>1, <1>11 DEF vars, Typed, Sources, Outputs, Place, Counted, IsTool
  <1> QED
    BY <1>2, <1>3, <1>4, <1>5, <1>6, <1>7, <1>8, <1>9, <1>10, <1>11, EncodeTyped, CreateTyped
       DEF Next, Step

\* The type invariant, with the end of the list that todo always is.
LEMMA TypesInvariant == Spec => []Typed
  <1> QED
    BY TypesInit, TypesNext, PTL DEF Spec

(* Every reachable state is well typed, for every set of versions of the   *)
(* types and every gate table: in particular the file that a run has       *)
(* created and not yet written is the one it is at.                        *)
THEOREM CrdVariantTypeCorrect == Spec => []TypeOK
  <1>1. Typed => TypeOK
    BY TodoTyped DEF Typed, Sources, Outputs, Place, Counted, TypeOK, IsTool
  <1> QED
    BY <1>1, TypesInvariant, PTL

-----------------------------------------------------------------------------
(* The variants of a run for all feature sets.                             *)

Written(fs) == variants[fs] = filterCRDNode(base, tool, fs)

(* Each file that is written is what the filter makes of the base and the  *)
(* tool of the run; at the end of it that is forgotten, as the base may    *)
(* change, and what is left is that the files are whole and nest.          *)
Progress ==
  goal = "all" =>
    \/ todo = FeatureSets
    \/ todo = AfterDefault /\ Written("Default")
    \/ todo = AfterTechPreview /\ Written("Default") /\ Written("TechPreviewNoUpgrade")
    \/ /\ todo = <<>>
       /\ Truncated \notin {variants[fs] : fs \in FeatureSet}
       /\ variants["Default"] \subseteq variants["TechPreviewNoUpgrade"]
       /\ variants["TechPreviewNoUpgrade"] \subseteq variants["DevPreviewNoUpgrade"]

\* The four are different.
LEMMA FourDiffer ==
  /\ FeatureSets # AfterDefault /\ FeatureSets # AfterTechPreview /\ FeatureSets # <<>>
  /\ AfterDefault # AfterTechPreview /\ AfterDefault # <<>>
  /\ AfterTechPreview # <<>>
  <1>1. Len(FeatureSets) = 3 /\ Len(AfterDefault) = 2 /\ Len(AfterTechPreview) = 1
    BY DEF FeatureSets, AfterDefault, AfterTechPreview
  <1> DEFINE empty == <<>>
  <1>2. Len(empty) = 0
    OBVIOUS
  <1> HIDE DEF empty
  <1>3. /\ FeatureSets # AfterDefault /\ FeatureSets # AfterTechPreview /\ FeatureSets # empty
        /\ AfterDefault # AfterTechPreview /\ AfterDefault # empty
        /\ AfterTechPreview # empty
    BY <1>1, <1>2
  <1> QED
    BY <1>3 DEF empty

\* Each variant that is written nests with the one before it.
LEMMA EncodeProgress ==
  ASSUME Typed, Progress, Encode
  PROVE  Progress'
  <1> SUFFICES ASSUME goal = "all" PROVE Progress'
    BY DEF Encode, Progress
  <1>1. todo # <<>> /\ IsTool(tool) /\ base \in SUBSET AllKeys
    BY DEF Typed, Place, Outputs, Encode
  <1>2. /\ variants' = [variants EXCEPT ![Head(todo)] = filterCRDNode(base, tool, Head(todo))]
        /\ todo' = Tail(todo) /\ base' = base /\ tool' = tool
    BY DEF Encode
  <1>3. variants \in [FeatureSet -> (SUBSET AllKeys) \cup {Truncated}]
    BY DEF Typed, Outputs
  <1>4. ASSUME NEW fs \in FeatureSet, Head(todo) = fs
        PROVE  Written(fs)' /\ \A other \in FeatureSet \ {fs} : Written(other) => Written(other)'
    BY <1>2, <1>3, <1>4 DEF Written
  <1>5. CASE todo = FeatureSets
    <2>1. Head(todo) = "Default" /\ Tail(todo) = AfterDefault
      BY <1>5, TodoParts
    <2> QED
      BY <1>2, <1>4, <2>1, ThreeSets DEF Progress
  <1>6. CASE todo = AfterDefault /\ Written("Default")
    <2>1. Head(todo) = "TechPreviewNoUpgrade" /\ Tail(todo) = AfterTechPreview
      BY <1>6, TodoParts
    <2> QED
      BY <1>2, <1>4, <1>6, <2>1, ThreeSets DEF Progress
  <1>7. CASE todo = AfterTechPreview /\ Written("Default") /\ Written("TechPreviewNoUpgrade")
    <2>1. Head(todo) = "DevPreviewNoUpgrade" /\ Tail(todo) = <<>>
      BY <1>7, TodoParts
    <2>2. Written("Default")' /\ Written("TechPreviewNoUpgrade")' /\ Written("DevPreviewNoUpgrade")'
      BY <1>4, <1>7, <2>1, ThreeSets
    <2>3. \A fs \in FeatureSet : variants'[fs] = filterCRDNode(base, tool, fs)
      BY <1>2, <2>2, ThreeSets DEF Written
    <2>4. \A fs \in FeatureSet : variants'[fs] # Truncated
      BY <1>1, <2>3, FilterPart, TruncatedAssumption
    <2>5. tool.gates \in [DOMAIN GateTable -> 0 .. 2]
      BY <1>1 DEF IsTool
    <2>6. /\ variants'["Default"] \subseteq variants'["TechPreviewNoUpgrade"]
          /\ variants'["TechPreviewNoUpgrade"] \subseteq variants'["DevPreviewNoUpgrade"]
      BY <2>3, <2>5, FilterNests, ThreeSets
    <2> QED
      BY <1>2, <2>1, <2>4, <2>6 DEF Progress
  <1> QED
    BY <1>1, <1>5, <1>6, <1>7 DEF Progress

\* The file that is emptied is not one of those already written.
LEMMA CreateProgress ==
  ASSUME Typed, Progress, CreateFile
  PROVE  Progress'
  <1> SUFFICES ASSUME goal = "all" PROVE Progress'
    BY DEF CreateFile, Progress
  <1>1. variants' = [variants EXCEPT ![Head(todo)] = Truncated]
        /\ todo' = todo /\ base' = base /\ tool' = tool /\ todo # <<>>
    BY DEF CreateFile, Idle
  <1>2. variants \in [FeatureSet -> (SUBSET AllKeys) \cup {Truncated}]
    BY DEF Typed, Outputs
  <1>3. \A fs \in FeatureSet \ {Head(todo)} : Written(fs) => Written(fs)'
    BY <1>1, <1>2 DEF Written
  <1>4. CASE todo = FeatureSets
    BY <1>1, <1>4 DEF Progress
  <1>5. CASE todo = AfterDefault /\ Written("Default")
    BY <1>1, <1>3, <1>5, TodoParts, ThreeSets DEF Progress
  <1>6. CASE todo = AfterTechPreview /\ Written("Default") /\ Written("TechPreviewNoUpgrade")
    BY <1>1, <1>3, <1>6, TodoParts, ThreeSets DEF Progress
  <1> QED
    BY <1>1, <1>4, <1>5, <1>6 DEF Progress

\* A step of a run for all sets, or of anything else, keeps the progress.
LEMMA ProgressNext ==
  ASSUME Typed, Progress, [Next]_vars
  PROVE  Progress'
  <1>1. ASSUME todo = <<>>, todo' = <<>>, goal' = goal, variants' = variants PROVE Progress'
    BY <1>1, FourDiffer DEF Progress
  <1>2. ASSUME NEW t \in TypeVersions, EditTypes(t) PROVE Progress'
    BY <1>1, <1>2 DEF EditTypes, Idle
  <1>3. ASSUME NEW g \in DOMAIN GateTable, PromoteGate(g) PROVE Progress'
    BY <1>1, <1>3 DEF PromoteGate, Idle
  <1>4. CASE GenerateRegistry \/ Manifests \/ Clean \/ CleanGenerated
    BY <1>1, <1>4 DEF GenerateRegistry, Manifests, Clean, CleanGenerated, Idle
  <1>5. CASE GenerateAllVariants
    BY <1>5 DEF GenerateAllVariants, Progress
  <1>6. ASSUME NEW fs \in FeatureSet, RunForOne(fs) PROVE Progress'
    BY <1>6 DEF RunForOne, Progress
  <1>7. CASE ReadFails \/ Interrupt
    BY <1>7 DEF ReadFails, Interrupt, Progress
  <1>8. CASE UNCHANGED vars
    BY <1>8 DEF vars, Progress, Written
  <1> QED
    BY <1>2, <1>3, <1>4, <1>5, <1>6, <1>7, <1>8, EncodeProgress, CreateProgress DEF Next, Step

(* A customer who moves up a feature set loses no field: whatever was      *)
(* edited, cleaned, cut short or run with an old tool before, as long as   *)
(* the last run is one for all feature sets that ended well, the three     *)
(* files are whole and nest.                                               *)
THEOREM Nesting == Spec => []VariantsNest
  <1>1. Init => Progress
    BY DEF Init, Progress
  <1>2. Progress => VariantsNest
    BY FourDiffer DEF Progress, VariantsNest, Idle
  <1> QED
    BY <1>1, <1>2, TypesInvariant, ProgressNext, PTL DEF Spec

-----------------------------------------------------------------------------
(* Key paths.                                                              *)

\* The provers do not know that a literal is a string.
Word == STRING \cup {"openAPIV3Schema", "properties", "items"}

Key == Seq(Word)

Pre(s, u) == Len(s) <= Len(u) /\ \A x \in 1 .. Len(s) : s[x] = u[x]

\* A prefix is the same key at each place.
LEMMA PrePrefix ==
  ASSUME NEW s \in Key, NEW u \in Key
  PROVE  IsPrefix(s, u) <=> Pre(s, u)
  <1>1. Len(s) \in Nat /\ Len(u) \in Nat
    BY LenProperties DEF Key
  <1>2. SubSeq(s, 1, Len(s)) = s
    BY SubSeqFull DEF Key
  <1>3. ASSUME Len(s) <= Len(u)
        PROVE  SubSeq(u, 1, Len(s)) = [x \in 1 .. Len(s) |-> u[x]]
    BY <1>1, <1>3 DEF Key
  <1>4. s = [x \in 1 .. Len(s) |-> s[x]]
    BY DEF Key
  <1> QED
    BY <1>1, <1>2, <1>3, <1>4 DEF IsPrefix, Pre

\* Prefixes are transitive.
LEMMA PreTransitive ==
  ASSUME NEW s \in Key, NEW u \in Key, NEW v \in Key, Pre(s, u), Pre(u, v)
  PROVE  Pre(s, v)
  <1>1. Len(s) \in Nat /\ Len(u) \in Nat /\ Len(v) \in Nat
    BY LenProperties DEF Key
  <1> QED
    BY <1>1 DEF Pre

\* What is put in front is a prefix.
LEMMA PreConcat ==
  ASSUME NEW s \in Key, NEW u \in Key
  PROVE  s \o u \in Key /\ Pre(s, s \o u)
  <1>1. /\ s \o u \in Seq(Word) /\ Len(s \o u) = Len(s) + Len(u)
        /\ \A i \in 1 .. Len(s) + Len(u) :
             (s \o u)[i] = IF i <= Len(s) THEN s[i] ELSE u[i - Len(s)]
    BY ConcatProperties DEF Key
  <1>2. Len(s) \in Nat /\ Len(u) \in Nat
    BY LenProperties DEF Key
  <1> DEFINE v == s \o u
  <1> HIDE DEF v
  <1> QED
    BY <1>1, <1>2 DEF Pre, Key, v

\* Two keys more.
TwoMore(v, s, x, y) ==
  v \in Key /\ Len(v) = Len(s) + 2 /\ v[Len(s) + 1] = x /\ v[Len(s) + 2] = y

\* Two more keys behind a key path.
LEMMA TwoKeys ==
  ASSUME NEW s \in Key, NEW x \in Word, NEW y \in Word
  PROVE  TwoMore(s \o <<x, y>>, s, x, y)
  <1> DEFINE u == <<x, y>>
  <1>1. u \in Seq(Word) /\ Len(u) = 2 /\ u[1] = x /\ u[2] = y
    OBVIOUS
  <1> HIDE DEF u
  <1>2. /\ s \o u \in Seq(Word) /\ Len(s \o u) = Len(s) + Len(u)
        /\ \A i \in 1 .. Len(s) + Len(u) :
             (s \o u)[i] = IF i <= Len(s) THEN s[i] ELSE u[i - Len(s)]
    BY <1>1, ConcatProperties, Zenon DEF Key
  <1>3. Len(s) \in Nat
    BY LenProperties DEF Key
  <1> DEFINE v == s \o u
  <1> HIDE DEF v
  <1>4. TwoMore(v, s, x, y)
    BY <1>1, <1>2, <1>3 DEF v, Key, TwoMore
  <1> QED
    BY <1>4 DEF v, u

\* One key.
LEMMA OneKey ==
  ASSUME NEW x \in Word
  PROVE  <<x>> \in Key
  BY DEF Key

\* The keywords of a schema are words.
LEMMA KeyWords ==
  /\ "properties" \in Word /\ "items" \in Word /\ "openAPIV3Schema" \in Word
  BY Zenon DEF Word

Items(t, path, i) == IF i > 0 /\ t[SubSeq(path, 1, i)].list THEN <<"items">> ELSE <<>>

\* What stands between a list and its elements is a key path.
LEMMA ItemsKey ==
  ASSUME NEW t, NEW path, NEW i
  PROVE  Items(t, path, i) \in Key
  <1>1. <<>> \in Key /\ <<"items">> \in Key
    BY EmptySeq, OneKey, KeyWords, Zenon DEF Key
  <1> QED
    BY <1>1, Zenon DEF Items

\* The keys on the way to each field above the path.
IsKeys(k, t, path) ==
  /\ \A i \in 0 .. Len(path) : k[i] \in Key
  /\ k[0] = <<"openAPIV3Schema">>
  /\ \A i \in 1 .. Len(path) :
       k[i] = k[i - 1] \o Items(t, path, i - 1) \o <<"properties", path[i]>>

\* The function of KeyPath exists: one entry for each part of the path.
LEMMA KeyPathKeys ==
  ASSUME NEW t, NEW path \in Key
  PROVE  \E k : IsKeys(k, t, path) /\ KeyPath(t, path) = k[Len(path)]
  <1> DEFINE N == Len(path)
             first == <<"openAPIV3Schema">>
             body(i, s) == s \o Items(t, path, i - 1) \o <<"properties", path[i]>>
             step == [p \in Nat \X Key |-> IF p[1] \in 1 .. N THEN body(p[1], p[2]) ELSE first]
  <1>1. N \in Nat /\ first \in Key
    <2>1. N \in Nat
      BY LenProperties DEF Key
    <2>2. first \in Key
      BY OneKey, KeyWords, Zenon
    <2> QED
      BY <2>1, <2>2
  <1> HIDE DEF N
  <1>2. ASSUME NEW i \in 1 .. N, NEW s \in Key PROVE body(i, s) \in Key
    <2>1. path[i] \in Word
      BY <1>1, ElementOfSeq DEF Key, N
    <2> DEFINE u == s \o Items(t, path, i - 1)
    <2>2. u \in Key
      BY ItemsKey, PreConcat
    <2> HIDE DEF u
    <2>3. u \o <<"properties", path[i]>> \in Key
      BY <2>1, <2>2, TwoKeys, KeyWords, Zenon DEF TwoMore
    <2> QED
      BY <2>3 DEF u
  <1>3. step \in [Nat \X Key -> Key]
    <2> HIDE DEF body, first
    <2>1. \A p \in Nat \X Key : (IF p[1] \in 1 .. N THEN body(p[1], p[2]) ELSE first) \in Key
      BY <1>1, <1>2
    <2> QED
      BY <2>1
  <1>4. PICK g : IteratesFromZero(g, Key, first, step, N)
    <2> HIDE DEF step, first
    <2> QED
      BY <1>1, <1>3, RecursiveFromZero, Zenon
  <1>5. g \in [0 .. N -> Key] /\ g[0] = first
    BY <1>4 DEF IteratesFromZero
  <1>6. ASSUME NEW i \in 1 .. N PROVE g[i] = body(i, g[i - 1])
    <2> HIDE DEF body, first
    <2>1. i \in Nat /\ g[i - 1] \in Key
      BY <1>1, <1>5
    <2>2. step[<<i, g[i - 1]>>] = body(i, g[i - 1])
      BY <2>1
    <2>3. g[i] = step[<<i, g[i - 1]>>]
      BY <1>4 DEF IteratesFromZero
    <2> QED
      BY <2>2, <2>3
  <1> DEFINE Def(f) == [i \in 0 .. N |-> IF i = 0 THEN first ELSE body(i, f[i - 1])]
  <1>7. g = Def(g)
    <2> HIDE DEF body, first, step
    <2>1. g = [i \in 0 .. N |-> g[i]]
      BY <1>5
    <2>2. \A i \in 0 .. N : g[i] = IF i = 0 THEN first ELSE body(i, g[i - 1])
      <3> TAKE i \in 0 .. N
      <3>1. i = 0 \/ i \in 1 .. N
        BY <1>1
      <3> QED
        BY <1>5, <1>6, <3>1
    <2> QED
      BY <2>1, <2>2
  <1> DEFINE c == CHOOSE f : f = Def(f)
  <1>8. c = Def(c)
    <2> HIDE DEF Def
    <2> QED
      BY <1>7
  <1>9. KeyPath(t, path) = c[N]
    BY DEF KeyPath, Items, N
  <1> HIDE DEF c
  <1>10. c[0] = first /\ \A i \in 1 .. N : c[i] = body(i, c[i - 1])
    <2> HIDE DEF body, first, step
    <2>1. 0 \in 0 .. N /\ \A i \in 1 .. N : i \in 0 .. N /\ i # 0
      BY <1>1
    <2> QED
      BY <1>8, <2>1
  <1>11. ASSUME NEW i \in 0 .. N PROVE c[i] \in Key
    <2> DEFINE S == {m \in Nat : m <= N => c[m] \in Key}
    <2> HIDE DEF body, first, step, Def
    <2>1. 0 \in S
      BY <1>1, <1>10
    <2>2. \A m \in Nat : m \in S => m + 1 \in S
      <3> TAKE m \in Nat
      <3> SUFFICES ASSUME m \in S, m + 1 <= N PROVE c[m + 1] \in Key
        OBVIOUS
      <3>1. m + 1 \in 1 .. N /\ (m + 1) - 1 = m /\ c[m] \in Key
        BY <1>1
      <3>2. body(m + 1, c[m]) \in Key
        BY <1>2, <3>1
      <3>3. c[m + 1] = body(m + 1, c[m])
        BY <1>10, <3>1
      <3> QED
        BY <3>2, <3>3
    <2>3. i \in Nat /\ i <= N
      BY <1>1
    <2>4. i \in S
      <3> HIDE DEF S
      <3> QED
        BY <2>1, <2>2, <2>3, SetInduction
    <2> QED
      BY <2>3, <2>4
  <1>12. IsKeys(c, t, path)
    BY <1>10, <1>11 DEF IsKeys, N
  <1> QED
    BY <1>9, <1>12 DEF N

\* The place of a field in the CRD is a key path.
LEMMA KeyPathTyped ==
  ASSUME NEW t, NEW p \in Key
  PROVE  KeyPath(t, p) \in Key
  <1>1. PICK k : IsKeys(k, t, p) /\ KeyPath(t, p) = k[Len(p)]
    BY KeyPathKeys
  <1>2. Len(p) \in 0 .. Len(p)
    <2>1. Len(p) \in Nat
      BY LenProperties DEF Key
    <2> QED
      BY <2>1
  <1> QED
    BY <1>1, <1>2 DEF IsKeys

\* One key path more, without a list on the way.
LEMMA KeysStep ==
  ASSUME NEW t, NEW path \in Key, NEW k, IsKeys(k, t, path), NEW i \in 1 .. Len(path)
  PROVE  /\ k[i - 1] \in Key /\ k[i] \in Key
         /\ Pre(k[i - 1], k[i])
         /\ Items(t, path, i - 1) = <<>> => TwoMore(k[i], k[i - 1], "properties", path[i])
  <1>1. Len(path) \in Nat /\ path[i] \in Word
    <2>1. Len(path) \in Nat
      BY LenProperties DEF Key
    <2> QED
      BY <2>1, ElementOfSeq DEF Key
  <1>2. k[i - 1] \in Key /\ k[i] \in Key
    BY <1>1 DEF IsKeys
  <1> DEFINE below == k[i - 1]
             u == below \o Items(t, path, i - 1)
  <1>3. k[i] = u \o <<"properties", path[i]>>
    BY DEF IsKeys
  <1>4. u \in Key /\ Pre(below, u)
    <2>1. below \in Key
      BY <1>2
    <2> HIDE DEF below
    <2> QED
      BY <2>1, ItemsKey, PreConcat
  <1>5. Items(t, path, i - 1) = <<>> => u = below
    <2>1. below \in Seq(Word)
      BY <1>2 DEF Key
    <2> HIDE DEF below
    <2> QED
      BY <2>1, ConcatEmptySeq
  <1> HIDE DEF u
  <1>6. <<"properties", path[i]>> \in Key
    <2> DEFINE w == path[i]
               q == "properties"
    <2>1. w \in Word /\ q \in Word
      BY <1>1, KeyWords
    <2> HIDE DEF w, q
    <2>2. <<q, w>> \in Seq(Word)
      BY <2>1
    <2> QED
      BY <2>2 DEF w, q, Key
  <1>7. Pre(u, k[i])
    BY <1>3, <1>4, <1>6, PreConcat
  <1>8. Pre(below, k[i])
    BY <1>2, <1>4, <1>7, PreTransitive
  <1>9. TwoMore(k[i], u, "properties", path[i])
    BY <1>1, <1>3, <1>4, KeyWords, TwoKeys, Zenon
  <1> QED
    BY <1>2, <1>5, <1>8, <1>9

\* What is above a field is above all that is below it.
LEMMA KeysBelow ==
  ASSUME NEW t, NEW path \in Key, NEW k, IsKeys(k, t, path), NEW i \in 0 .. Len(path)
  PROVE  Pre(k[i], k[Len(path)])
  <1> DEFINE N == Len(path)
             S == {d \in Nat : i + d <= N => Pre(k[i], k[i + d])}
  <1>1. N \in Nat /\ i \in Nat /\ i <= N
    BY LenProperties DEF Key
  <1>2. \A j \in 0 .. N : k[j] \in Key
    BY DEF IsKeys
  <1>3. 0 \in S
    BY <1>1 DEF Pre
  <1>4. \A d \in Nat : d \in S => d + 1 \in S
    <2> TAKE d \in Nat
    <2> SUFFICES ASSUME d \in S, i + (d + 1) <= N PROVE Pre(k[i], k[i + (d + 1)])
      OBVIOUS
    <2> DEFINE j == i + d + 1
    <2>1. j \in 1 .. N /\ j - 1 = i + d /\ i + (d + 1) = j /\ i + d <= N
      BY <1>1
    <2>2. Pre(k[i], k[i + d])
      BY <2>1
    <2> HIDE DEF j, N, S
    <2>3. Pre(k[j - 1], k[j])
      BY <2>1, KeysStep DEF N
    <2>4. k[i] \in Key /\ k[j - 1] \in Key /\ k[j] \in Key
      BY <1>1, <1>2, <2>1
    <2>5. Pre(k[i], k[j])
      BY <2>1, <2>2, <2>3, <2>4, PreTransitive
    <2> QED
      BY <2>1, <2>5
  <1>5. N - i \in S
    <2>1. N - i \in Nat
      BY <1>1
    <2> HIDE DEF S, N
    <2> QED
      BY <1>3, <1>4, <2>1, SetInduction
  <1>6. i + (N - i) = N /\ i + (N - i) <= N /\ N - i \in Nat
    <2> HIDE DEF S, N
    <2> QED
      BY <1>1
  <1> QED
    BY <1>5, <1>6

\* The path does not go through a list.
Unlisted(t, path) == \A i \in 1 .. Len(path) - 1 : ~t[SubSeq(path, 1, i)].list

\* Without lists, each part of a path is two keys.
LEMMA UnlistedLength ==
  ASSUME NEW t, NEW path \in Key, NEW k, IsKeys(k, t, path), Unlisted(t, path),
         NEW i \in 0 .. Len(path)
  PROVE  Len(k[i]) = 2 * i + 1
  <1> DEFINE N == Len(path)
             S == {j \in Nat : j <= N => Len(k[j]) = 2 * j + 1}
  <1>1. N \in Nat /\ i \in Nat
    BY LenProperties DEF Key
  <1>2. 0 \in S
    <2>1. Len(k[0]) = 1
      BY DEF IsKeys
    <2> QED
      BY <2>1
  <1>3. \A j \in Nat : j \in S => j + 1 \in S
    <2> TAKE j \in Nat
    <2> SUFFICES ASSUME j \in S, j + 1 <= N PROVE Len(k[j + 1]) = 2 * (j + 1) + 1
      OBVIOUS
    <2> DEFINE m == j + 1
    <2>1. m \in 1 .. N /\ m - 1 = j /\ Len(k[j]) = 2 * j + 1
      BY <1>1
    <2>2. Items(t, path, j) = <<>>
      BY <1>1, <2>1 DEF Items, Unlisted
    <2> HIDE DEF m, N, S
    <2>3. Len(k[m]) = Len(k[j]) + 2
      <3>1. m \in 1 .. Len(path) /\ Items(t, path, m - 1) = <<>>
        BY <2>1, <2>2 DEF N
      <3>2. TwoMore(k[m], k[m - 1], "properties", path[m])
        BY <3>1, KeysStep, Zenon
      <3> QED
        BY <2>1, <3>2 DEF TwoMore
    <2> QED
      BY <2>1, <2>3 DEF m
  <1>4. i \in S
    <2> HIDE DEF S
    <2> QED
      BY <1>1, <1>2, <1>3, SetInduction
  <1> QED
    BY <1>1, <1>4

\* The keys of such a path: "properties" and a name in turn.
LEMMA UnlistedKeys ==
  ASSUME NEW t, NEW path \in Key, NEW k, IsKeys(k, t, path), Unlisted(t, path),
         NEW i \in 1 .. Len(path)
  PROVE  LET key == k[Len(path)]
         IN  key[1] = "openAPIV3Schema" /\ key[2 * i] = "properties" /\ key[2 * i + 1] = path[i]
  <1> DEFINE N == Len(path)
             key == k[N]
  <1>1. N \in Nat /\ i \in Nat /\ i \in 0 .. N /\ 0 \in 0 .. N /\ i - 1 \in 0 .. N
    BY LenProperties DEF Key
  <1>2. Len(k[i]) = 2 * i + 1 /\ Len(k[i - 1]) = 2 * (i - 1) + 1
    BY <1>1, UnlistedLength
  <1>3. Items(t, path, i - 1) = <<>>
    BY <1>1 DEF Items, Unlisted
  <1>4. k[i][2 * i] = "properties" /\ k[i][2 * i + 1] = path[i]
    <2>1. TwoMore(k[i], k[i - 1], "properties", path[i])
      BY <1>3, KeysStep, Zenon
    <2>2. Len(k[i - 1]) + 1 = 2 * i /\ Len(k[i - 1]) + 2 = 2 * i + 1
      BY <1>1, <1>2
    <2> QED
      BY <2>1, <2>2 DEF TwoMore
  <1>5. Pre(k[i], key) /\ Pre(k[0], key)
    BY <1>1, KeysBelow
  <1>6. Len(k[0]) = 1 /\ k[0][1] = "openAPIV3Schema"
    BY DEF IsKeys
  <1> HIDE DEF key, N
  <1>7. key[2 * i] = "properties" /\ key[2 * i + 1] = path[i]
    <2>1. 2 * i \in 1 .. Len(k[i]) /\ 2 * i + 1 \in 1 .. Len(k[i])
      BY <1>1, <1>2
    <2> QED
      BY <1>4, <1>5, <2>1 DEF Pre
  <1>8. key[1] = "openAPIV3Schema"
    BY <1>5, <1>6 DEF Pre
  <1> QED
    BY <1>7, <1>8 DEF key, N

\* Only the fields below it have the keys of such a path on their way.
LEMMA KeysEnter ==
  ASSUME NEW t, NEW p \in Key, NEW q \in Key, NEW kp, NEW kq,
         IsKeys(kp, t, p), IsKeys(kq, t, q), Unlisted(t, p),
         Pre(kp[Len(p)], kq[Len(q)])
  PROVE  Len(p) <= Len(q) /\ \A i \in 1 .. Len(p) : q[i] = p[i]
  <1> DEFINE N == Len(p)
             M == Len(q)
             Same(i) == i <= M /\ kq[i] = kp[i] /\ \A j \in 1 .. i : q[j] = p[j]
             S == {i \in Nat : i <= N => Same(i)}
  <1>1. N \in Nat /\ M \in Nat
    BY LenProperties DEF Key
  <1>2. 0 \in S
    BY <1>1 DEF IsKeys
  <1>3. \A i \in Nat : i \in S => i + 1 \in S
    <2> TAKE i \in Nat
    <2> SUFFICES ASSUME i \in S, i + 1 <= N PROVE Same(i + 1)
      OBVIOUS
    <2>1. Same(i) /\ i \in 0 .. N /\ i + 1 \in 0 .. N /\ i + 1 \in 1 .. N /\ N \in 0 .. N
      BY <1>1
    <2>2. Len(kp[i]) = 2 * i + 1 /\ Len(kp[i + 1]) = 2 * (i + 1) + 1 /\ Len(kp[N]) = 2 * N + 1
      <3>1. \A j \in 0 .. Len(p) : Len(kp[j]) = 2 * j + 1
        BY UnlistedLength
      <3> HIDE DEF S, Same
      <3> QED
        BY <2>1, <3>1
    <2>3. i + 1 \in 1 .. M
      <3>1. Len(kp[N]) <= Len(kq[M])
        BY DEF Pre
      <3>2. i <= M
        BY <2>1
      <3>3. i # M
        <4> SUFFICES ASSUME i = M PROVE FALSE
          OBVIOUS
        <4>1. Len(kq[M]) = 2 * i + 1
          BY <2>1, <2>2
        <4> QED
          BY <1>1, <2>1, <2>2, <3>1, <4>1
      <3> HIDE DEF N, M, S, Same
      <3> QED
        BY <1>1, <3>2, <3>3
    <2>4. SubSeq(q, 1, i) = SubSeq(p, 1, i)
      <3>1. \A j \in 1 .. i : q[j] = p[j]
        BY <2>1
      <3>2. SubSeq(q, 1, i) = [j \in 1 .. i |-> q[j]] /\ SubSeq(p, 1, i) = [j \in 1 .. i |-> p[j]]
        BY <1>1, <2>1, <2>3 DEF Key
      <3> QED
        BY <3>1, <3>2
    <2>5. Items(t, p, i) = <<>> /\ Items(t, q, i) = <<>>
      <3>1. CASE i = 0
        BY <3>1 DEF Items
      <3>2. CASE i # 0
        <4>1. i \in 1 .. Len(p) - 1
          BY <1>1, <2>1, <3>2
        <4>2. ~t[SubSeq(p, 1, i)].list
          BY <4>1 DEF Unlisted
        <4> QED
          BY <2>4, <4>2, Zenon DEF Items
      <3> QED
        BY <3>1, <3>2
    <2> DEFINE m == i + 1
    <2>6. m - 1 = i /\ m \in 1 .. N /\ m \in 1 .. M
      BY <2>1, <2>3
    <2> HIDE DEF m, N, M, S, Same
    <2>7. /\ Len(kp[m]) = Len(kp[i]) + 2 /\ kp[m][Len(kp[i]) + 2] = p[m]
          /\ kp[m] = kp[i] \o Items(t, p, i) \o <<"properties", p[m]>>
      <3>1. m \in 1 .. Len(p) /\ Items(t, p, m - 1) = <<>>
        BY <2>5, <2>6 DEF N
      <3>2. TwoMore(kp[m], kp[m - 1], "properties", p[m])
        BY <3>1, KeysStep, Zenon
      <3>3. kp[m] = kp[m - 1] \o Items(t, p, m - 1) \o <<"properties", p[m]>>
        BY <3>1 DEF IsKeys
      <3> QED
        BY <2>6, <3>2, <3>3 DEF TwoMore
    <2>8. /\ Len(kq[m]) = Len(kq[i]) + 2 /\ kq[m][Len(kq[i]) + 2] = q[m]
          /\ kq[m] = kq[i] \o Items(t, q, i) \o <<"properties", q[m]>>
      <3>1. m \in 1 .. Len(q) /\ Items(t, q, m - 1) = <<>>
        BY <2>5, <2>6 DEF M
      <3>2. TwoMore(kq[m], kq[m - 1], "properties", q[m])
        BY <3>1, KeysStep, Zenon
      <3>3. kq[m] = kq[m - 1] \o Items(t, q, m - 1) \o <<"properties", q[m]>>
        BY <3>1 DEF IsKeys
      <3> QED
        BY <2>6, <3>2, <3>3 DEF TwoMore
    <2>9. kq[i] = kp[i] /\ Len(kp[i]) \in Nat
      BY <2>1, <2>2 DEF Same
    <2>10. Pre(kp[m], kp[N]) /\ Pre(kq[m], kq[M]) /\ Pre(kp[N], kq[M])
      <3>1. m \in 0 .. N /\ m \in 0 .. M
        BY <2>6
      <3> QED
        BY <3>1, KeysBelow DEF N, M
    <2>11. q[m] = p[m]
      <3> DEFINE x == Len(kp[i]) + 2
      <3>1. x \in 1 .. Len(kp[m]) /\ x \in 1 .. Len(kq[m])
        BY <2>7, <2>8, <2>9
      <3>2. kp[m][x] = p[m] /\ kq[m][x] = q[m]
        BY <2>7, <2>8, <2>9
      <3>3. x \in 1 .. Len(kp[N])
        BY <2>10, <3>1 DEF Pre
      <3> HIDE DEF x
      <3> QED
        BY <2>10, <3>1, <3>2, <3>3 DEF Pre
    <2>12. kq[m] = kp[m]
      BY <2>5, <2>7, <2>8, <2>9, <2>11
    <2>13. \A j \in 1 .. m : q[j] = p[j]
      <3>1. \A j \in 1 .. i : q[j] = p[j]
        BY <2>1 DEF Same
      <3>2. \A j \in 1 .. m : j \in 1 .. i \/ j = m
        BY DEF m
      <3> QED
        BY <2>11, <3>1, <3>2
    <2> QED
      BY <2>6, <2>12, <2>13 DEF Same, m
  <1>4. N \in S
    <2> HIDE DEF S
    <2> QED
      BY <1>1, <1>2, <1>3, SetInduction
  <1> QED
    BY <1>1, <1>4

-----------------------------------------------------------------------------
(* The field path the filter looks up.                                     *)

Extension(key, j) == IF inSchema(key, j) /\ key[j] # "properties" THEN <<key[j]>> ELSE <<>>

\* The field path after each key.
IsWalk(f, key, n) ==
  /\ \A j \in 0 .. n : f[j] \in Key
  /\ f[0] = <<>>
  /\ \A j \in 1 .. n : f[j] = f[j - 1] \o Extension(key, j)

\* The function of fieldPath exists: how long the key is plays no part.
LEMMA FieldPathIterates ==
  ASSUME NEW key \in Key, NEW n \in Nat, \A j \in 1 .. n : key[j] \in Word
  PROVE  \E f : IsWalk(f, key, n) /\ fieldPath(key, n) = f[n]
  <1> DEFINE first == <<>>
             body(j, s) == s \o Extension(key, j)
             step == [p \in Nat \X Key |-> IF p[1] \in 1 .. n THEN body(p[1], p[2]) ELSE first]
  <1>1. n \in Nat
    OBVIOUS
  <1>2. first \in Key
    BY EmptySeq, Zenon DEF Key
  <1>3. ASSUME NEW j \in 1 .. n, NEW s \in Key PROVE body(j, s) \in Key
    <2>1. <<key[j]>> \in Key
      BY OneKey
    <2>2. Extension(key, j) \in Key
      BY <1>2, <2>1, Zenon DEF Extension
    <2> QED
      BY <2>2, PreConcat
  <1>4. step \in [Nat \X Key -> Key]
    <2> HIDE DEF body, first
    <2>1. \A p \in Nat \X Key : (IF p[1] \in 1 .. n THEN body(p[1], p[2]) ELSE first) \in Key
      BY <1>2, <1>3
    <2> QED
      BY <2>1
  <1>5. PICK g : IteratesFromZero(g, Key, first, step, n)
    <2> HIDE DEF step, first
    <2> QED
      BY <1>1, <1>2, <1>4, RecursiveFromZero, Zenon
  <1>6. g \in [0 .. n -> Key] /\ g[0] = first
    <2> HIDE DEF step, first
    <2> QED
      BY <1>5 DEF IteratesFromZero
  <1>7. ASSUME NEW j \in 1 .. n PROVE g[j] = body(j, g[j - 1])
    <2> HIDE DEF body, first
    <2>1. j \in Nat /\ g[j - 1] \in Key
      BY <1>1, <1>6
    <2>2. step[<<j, g[j - 1]>>] = body(j, g[j - 1])
      BY <2>1
    <2>3. g[j] = step[<<j, g[j - 1]>>]
      BY <1>5 DEF IteratesFromZero
    <2> QED
      BY <2>2, <2>3
  <1> DEFINE Def(f) == [j \in 0 .. n |-> IF j = 0 THEN first ELSE body(j, f[j - 1])]
  <1>8. g = Def(g)
    <2> HIDE DEF body, first, step
    <2>1. g = [j \in 0 .. n |-> g[j]]
      BY <1>6
    <2>2. \A j \in 0 .. n : g[j] = IF j = 0 THEN first ELSE body(j, g[j - 1])
      <3> TAKE j \in 0 .. n
      <3>1. j = 0 \/ j \in 1 .. n
        BY <1>1
      <3> QED
        BY <1>6, <1>7, <3>1
    <2> QED
      BY <2>1, <2>2
  <1> DEFINE c == CHOOSE f : f = Def(f)
  <1>9. c = Def(c)
    <2> HIDE DEF Def
    <2> QED
      BY <1>8
  <1>10. fieldPath(key, n) = c[n]
    BY DEF fieldPath, Extension
  <1> HIDE DEF c
  <1>11. c[0] = first /\ \A j \in 1 .. n : c[j] = body(j, c[j - 1])
    <2> HIDE DEF body, first, step
    <2>1. 0 \in 0 .. n /\ \A j \in 1 .. n : j \in 0 .. n /\ j # 0
      BY <1>1
    <2> QED
      BY <1>9, <2>1
  <1>12. ASSUME NEW j \in 0 .. n PROVE c[j] \in Key
    <2> DEFINE S == {m \in Nat : m <= n => c[m] \in Key}
    <2> HIDE DEF body, first, step, Def
    <2>1. 0 \in S
      BY <1>2, <1>11
    <2>2. \A m \in Nat : m \in S => m + 1 \in S
      <3> TAKE m \in Nat
      <3> SUFFICES ASSUME m \in S, m + 1 <= n PROVE c[m + 1] \in Key
        OBVIOUS
      <3>1. m + 1 \in 1 .. n /\ (m + 1) - 1 = m /\ c[m] \in Key
        BY <1>1
      <3>2. body(m + 1, c[m]) \in Key
        BY <1>3, <3>1
      <3>3. c[m + 1] = body(m + 1, c[m])
        BY <1>11, <3>1
      <3> QED
        BY <3>2, <3>3
    <2>3. j \in Nat /\ j <= n
      BY <1>1
    <2>4. j \in S
      <3> HIDE DEF S
      <3> QED
        BY <2>1, <2>2, <2>3, SetInduction
    <2> QED
      BY <2>3, <2>4
  <1>13. IsWalk(c, key, n)
    BY <1>11, <1>12 DEF IsWalk
  <1> QED
    BY <1>10, <1>13

\* The same for a place within the key.
LEMMA FieldPathWalk ==
  ASSUME NEW key \in Key, NEW n \in 0 .. Len(key)
  PROVE  \E f : IsWalk(f, key, n) /\ fieldPath(key, n) = f[n]
  <1>1. n \in Nat /\ Len(key) \in Nat
    BY LenProperties DEF Key
  <1>2. ASSUME NEW j \in 1 .. n PROVE key[j] \in Word
    <2>1. j \in 1 .. Len(key)
      BY <1>1
    <2> QED
      BY <2>1, ElementOfSeq DEF Key
  <1> QED
    BY <1>1, <1>2, FieldPathIterates, Zenon

\* One name more of a path.
LEMMA SubSeqNext ==
  ASSUME NEW p \in Key, NEW i \in Nat, i + 1 <= Len(p)
  PROVE  SubSeq(p, 1, i + 1) = SubSeq(p, 1, i) \o <<p[i + 1]>>
  <1>1. Len(p) \in Nat /\ \A j \in 1 .. Len(p) : p[j] \in Word
    <2>1. Len(p) \in Nat
      BY LenProperties DEF Key
    <2> QED
      BY <2>1, ElementOfSeq DEF Key
  <1> DEFINE u == SubSeq(p, 1, i)
             v == SubSeq(p, 1, i + 1)
             w == <<p[i + 1]>>
  <1>2. u \in Seq(Word) /\ Len(u) = i /\ \A j \in 1 .. i : u[j] = p[j]
    BY <1>1
  <1>3. v \in Seq(Word) /\ Len(v) = i + 1 /\ \A j \in 1 .. i + 1 : v[j] = p[j]
    BY <1>1
  <1>4. w \in Seq(Word) /\ Len(w) = 1 /\ w[1] = p[i + 1]
    BY <1>1
  <1> HIDE DEF u, v, w
  <1> DEFINE x == u \o w
  <1>5. /\ x \in Seq(Word) /\ Len(x) = Len(u) + Len(w)
        /\ \A j \in 1 .. Len(u) + Len(w) : x[j] = IF j <= Len(u) THEN u[j] ELSE w[j - Len(u)]
    <2>1. u \in Seq(Word)
      BY <1>2
    <2>2. w \in Seq(Word)
      BY <1>4
    <2> QED
      BY <2>1, <2>2, ConcatProperties, Zenon
  <1> HIDE DEF x
  <1>6. Len(v) = Len(x) /\ \A j \in 1 .. Len(v) : v[j] = x[j]
    BY <1>2, <1>3, <1>4, <1>5
  <1>7. v = x
    BY <1>3, <1>5, <1>6, SeqEqual
  <1> QED
    BY <1>7 DEF u, v, w, x

\* A plain field is looked up by its path in the types.
LEMMA PlainFieldPath ==
  ASSUME NEW t, NEW p \in Key, p # <<>>, NEW k, IsKeys(k, t, p), Unlisted(t, p),
         \A i \in 1 .. Len(p) : p[i] # "properties",
         NEW key \in Key, Pre(k[Len(p)], key)
  PROVE  LET n == 2 * Len(p) + 1
         IN  /\ n \in 1 .. Len(key)
             /\ inSchema(key, n) /\ key[n] # "properties" /\ fieldPath(key, n) = p
  <1> DEFINE N == Len(p)
             n == 2 * N + 1
             way == k[N]
  <1>1. N \in Nat /\ N # 0
    <2>1. N \in Nat
      BY LenProperties DEF Key
    <2>2. Len(p) # 0
      BY EmptySeq DEF Key
    <2> QED
      BY <2>1, <2>2
  <1>2. Len(way) = n
    BY <1>1, UnlistedLength
  <1>3. \A i \in 1 .. N : key[1] = "openAPIV3Schema" /\ key[2 * i] = "properties" /\ key[2 * i + 1] = p[i]
    <2> TAKE i \in 1 .. N
    <2>1. way[1] = "openAPIV3Schema" /\ way[2 * i] = "properties" /\ way[2 * i + 1] = p[i]
      BY UnlistedKeys
    <2> HIDE DEF way, N
    <2>2. 1 \in 1 .. Len(way) /\ 2 * i \in 1 .. Len(way) /\ 2 * i + 1 \in 1 .. Len(way)
      BY <1>1, <1>2
    <2>3. Pre(way, key)
      BY DEF way, N
    <2> QED
      BY <2>1, <2>2, <2>3 DEF Pre
  <1>4. n \in 1 .. Len(key) /\ n \in 0 .. Len(key)
    <2>1. Len(way) <= Len(key) /\ Len(key) \in Nat
      BY LenProperties DEF Pre, Key
    <2> HIDE DEF way, N
    <2> QED
      BY <1>1, <1>2, <2>1
  <1>5. PICK f : IsWalk(f, key, n) /\ fieldPath(key, n) = f[n]
    <2> HIDE DEF n
    <2> QED
      BY <1>4, FieldPathWalk
  <1> HIDE DEF way, N
  <1>6. \A j \in 2 .. n : inSchema(key, j)
    <2> TAKE j \in 2 .. n
    <2>1. key[2] = "properties"
      BY <1>1, <1>3
    <2>2. 2 \in 1 .. j
      BY <1>1
    <2> QED
      BY <2>1, <2>2 DEF inSchema
  <1>7. Extension(key, 1) = <<>>
    <2>1. key[1] # "properties"
      BY <1>1, <1>3
    <2>2. ~inSchema(key, 1)
      BY <2>1 DEF inSchema
    <2> QED
      BY <2>2, Zenon DEF Extension
  <1>8. \A i \in 1 .. N : Extension(key, 2 * i) = <<>> /\ Extension(key, 2 * i + 1) = <<p[i]>>
    <2> TAKE i \in 1 .. N
    <2>1. key[2 * i] = "properties" /\ key[2 * i + 1] = p[i] /\ p[i] # "properties"
      BY <1>3 DEF N
    <2>2. inSchema(key, 2 * i + 1)
      BY <1>1, <1>6
    <2> QED
      BY <2>1, <2>2, Zenon DEF Extension
  <1> DEFINE S == {i \in Nat : i <= N => f[2 * i + 1] = SubSeq(p, 1, i)}
  <1>9. 0 \in S
    <2>1. f[1] = f[0] \o Extension(key, 1) /\ f[0] = <<>>
      <3>1. 1 \in 1 .. n /\ 1 - 1 = 0
        BY <1>1
      <3> QED
        BY <1>5, <3>1 DEF IsWalk
    <2>2. f[1] = <<>>
      BY <1>7, <2>1, EmptySeq, ConcatEmptySeq
    <2>3. SubSeq(p, 1, 0) = <<>>
      BY SubSeqEmpty
    <2>4. 2 * 0 + 1 = 1
      OBVIOUS
    <2> QED
      BY <2>2, <2>3, <2>4
  <1>10. \A i \in Nat : i \in S => i + 1 \in S
    <2> TAKE i \in Nat
    <2> SUFFICES ASSUME i \in S, i + 1 <= N PROVE f[2 * (i + 1) + 1] = SubSeq(p, 1, i + 1)
      OBVIOUS
    <2>1. f[2 * i + 1] = SubSeq(p, 1, i)
      BY <1>1
    <2> HIDE DEF S
    <2> DEFINE a == 2 * i + 1
               m == i + 1
               b == 2 * m
               c == 2 * m + 1
    <2>2. m \in 1 .. N /\ b \in 1 .. n /\ c \in 1 .. n /\ b - 1 = a /\ c - 1 = b /\ a \in 0 .. n
      BY <1>1
    <2>3. Extension(key, b) = <<>> /\ Extension(key, c) = <<p[m]>>
      BY <1>8, <2>2
    <2>4. f[a] = SubSeq(p, 1, i)
      BY <2>1
    <2>5. SubSeq(p, 1, m) = SubSeq(p, 1, i) \o <<p[m]>>
      BY SubSeqNext DEF N
    <2> HIDE DEF a, b, c, m, n
    <2>6. f[b] = f[a] \o Extension(key, b) /\ f[c] = f[b] \o Extension(key, c) /\ f[a] \in Key
      BY <1>5, <2>2 DEF IsWalk
    <2>7. f[b] = f[a]
      BY <2>3, <2>6, ConcatEmptySeq DEF Key
    <2>8. f[c] = SubSeq(p, 1, m)
      BY <2>3, <2>4, <2>5, <2>6, <2>7
    <2> QED
      BY <2>8 DEF c, m
  <1>11. N \in S
    <2> HIDE DEF S
    <2> QED
      BY <1>1, <1>9, <1>10, SetInduction
  <1>12. fieldPath(key, n) = p
    <2>1. f[n] = SubSeq(p, 1, N)
      BY <1>1, <1>11
    <2>2. SubSeq(p, 1, N) = p
      BY SubSeqFull DEF Key, N
    <2> QED
      BY <1>5, <2>1, <2>2
  <1>13. inSchema(key, n) /\ key[n] # "properties"
    <2>1. n \in 2 .. n /\ N \in 1 .. N
      BY <1>1
    <2>2. key[n] = p[N] /\ p[N] # "properties"
      BY <1>3, <2>1 DEF N
    <2> QED
      BY <1>6, <2>1, <2>2
  <1> QED
    BY <1>4, <1>12, <1>13, Zenon DEF N

-----------------------------------------------------------------------------
(* The versions of the types.                                              *)

\* What the types of a version are.
LEMMA VersionParts ==
  ASSUME NEW t \in TypeVersions, NEW p \in DOMAIN t
  PROVE  p \in Key /\ p # <<>> /\ Above(p) \subseteq DOMAIN t
  <1>1. p \in Seq(STRING) /\ p # <<>> /\ Above(p) \subseteq DOMAIN t
    BY CrdVariantAssumption
  <1>2. p \in Seq(Word)
    BY <1>1 DEF Word
  <1> QED
    BY <1>1, <1>2 DEF Key

\* A version has no field less than itself.
LEMMA ExtendsItself ==
  ASSUME NEW t
  PROVE  Extends(t, t)
  BY DEF Extends

\* Versions extend one another across several edits.
LEMMA ExtendsFurther ==
  ASSUME NEW new, NEW mid, NEW old, Extends(new, mid), Extends(mid, old)
  PROVE  Extends(new, old)
  BY DEF Extends

\* A path has one place in the CRD.
LEMMA KeysUnique ==
  ASSUME NEW t, NEW p \in Key, NEW k, NEW l, IsKeys(k, t, p), IsKeys(l, t, p)
  PROVE  k[Len(p)] = l[Len(p)]
  <1> DEFINE N == Len(p)
             S == {i \in Nat : i <= N => k[i] = l[i]}
  <1>1. N \in Nat
    BY LenProperties DEF Key
  <1>2. 0 \in S
    BY DEF IsKeys
  <1>3. \A i \in Nat : i \in S => i + 1 \in S
    <2> TAKE i \in Nat
    <2> SUFFICES ASSUME i \in S, i + 1 <= N PROVE k[i + 1] = l[i + 1]
      OBVIOUS
    <2> DEFINE m == i + 1
    <2>1. m \in 1 .. N /\ m - 1 = i /\ k[i] = l[i]
      BY <1>1
    <2> HIDE DEF m, N, S
    <2> DEFINE more == <<"properties", p[m]>>
    <2>2. k[m] = k[m - 1] \o Items(t, p, m - 1) \o more /\ l[m] = l[m - 1] \o Items(t, p, m - 1) \o more
      BY <2>1 DEF IsKeys, N
    <2> HIDE DEF more
    <2> QED
      BY <2>1, <2>2 DEF m
  <1>4. N \in S
    <2> HIDE DEF S
    <2> QED
      BY <1>1, <1>2, <1>3, SetInduction
  <1> QED
    BY <1>1, <1>4

\* The key path of a field does not change with the types.
LEMMA SameKeyPath ==
  ASSUME NEW new \in TypeVersions, NEW old \in TypeVersions, Extends(new, old), NEW p \in DOMAIN old
  PROVE  KeyPath(new, p) = KeyPath(old, p)
  <1>1. p \in Key /\ Above(p) \subseteq DOMAIN old
    BY VersionParts
  <1>2. PICK k : IsKeys(k, old, p) /\ KeyPath(old, p) = k[Len(p)]
    BY <1>1, KeyPathKeys
  <1>3. PICK l : IsKeys(l, new, p) /\ KeyPath(new, p) = l[Len(p)]
    BY <1>1, KeyPathKeys
  <1>4. \A i \in 1 .. Len(p) : Items(new, p, i - 1) = Items(old, p, i - 1)
    <2> TAKE i \in 1 .. Len(p)
    <2> DEFINE j == i - 1
    <2>1. Len(p) \in Nat /\ DOMAIN p = 1 .. Len(p)
      BY <1>1, LenProperties DEF Key
    <2>2. CASE j > 0
      <3>1. j \in DOMAIN p
        BY <2>1, <2>2
      <3>2. SubSeq(p, 1, j) \in DOMAIN old
        BY <1>1, <3>1 DEF Above
      <3>3. new[SubSeq(p, 1, j)].list = old[SubSeq(p, 1, j)].list
        BY <3>2 DEF Extends
      <3> HIDE DEF j
      <3>4. Items(new, p, j) = Items(old, p, j)
        BY <3>3 DEF Items
      <3> QED
        BY <3>4 DEF j
    <2>3. CASE ~(j > 0)
      <3> HIDE DEF j
      <3>1. Items(new, p, j) = Items(old, p, j)
        BY <2>3, Zenon DEF Items
      <3> QED
        BY <3>1 DEF j
    <2> QED
      BY <2>2, <2>3
  <1>5. IsKeys(k, new, p)
    BY <1>2, <1>4 DEF IsKeys
  <1> QED
    BY <1>1, <1>2, <1>3, <1>5, KeysUnique

\* A later version of the types has every key of the earlier CRD.
LEMMA CrdGrows ==
  ASSUME NEW new \in TypeVersions, NEW old \in TypeVersions, Extends(new, old)
  PROVE  Crd(old) \subseteq Crd(new)
  <1> SUFFICES ASSUME NEW p \in DOMAIN old PROVE KeyPath(old, p) \in Crd(new)
    BY DEF Crd
  <1>1. p \in DOMAIN new
    BY DEF Extends
  <1>2. KeyPath(new, p) = KeyPath(old, p)
    BY SameKeyPath
  <1> QED
    BY <1>1, <1>2 DEF Crd

\* What is below a field in the CRD is below it in the types.
LEMMA BelowPlain ==
  ASSUME NEW t \in TypeVersions, NEW p \in Key, NEW q \in DOMAIN t, p # <<>>, Unlisted(t, p),
         IsPrefix(KeyPath(t, p), KeyPath(t, q))
  PROVE  p \in Above(q)
  <1>1. q \in Key
    BY VersionParts
  <1>2. PICK kp : IsKeys(kp, t, p) /\ KeyPath(t, p) = kp[Len(p)]
    BY KeyPathKeys
  <1>3. PICK kq : IsKeys(kq, t, q) /\ KeyPath(t, q) = kq[Len(q)]
    BY <1>1, KeyPathKeys
  <1>4. /\ Len(p) \in Nat /\ Len(q) \in Nat /\ Len(p) # 0 /\ DOMAIN q = 1 .. Len(q)
    BY <1>1, LenProperties, EmptySeq DEF Key
  <1>5. kp[Len(p)] \in Key /\ kq[Len(q)] \in Key
    BY <1>2, <1>3, <1>4 DEF IsKeys
  <1>6. Pre(kp[Len(p)], kq[Len(q)])
    BY <1>2, <1>3, <1>5, PrePrefix
  <1>7. Len(p) <= Len(q) /\ \A i \in 1 .. Len(p) : q[i] = p[i]
    BY <1>1, <1>2, <1>3, <1>6, KeysEnter
  <1>8. SubSeq(q, 1, Len(p)) = p
    <2>1. SubSeq(q, 1, Len(p)) = [i \in 1 .. Len(p) |-> q[i]]
      BY <1>1, <1>4, <1>7 DEF Key
    <2>2. p = [i \in 1 .. Len(p) |-> p[i]]
      BY DEF Key
    <2> QED
      BY <1>7, <2>1, <2>2
  <1>9. Len(p) \in DOMAIN q
    BY <1>4, <1>7
  <1> QED
    BY <1>8, <1>9 DEF Above

\* A plain field is below no list.
LEMMA PlainUnlisted ==
  ASSUME NEW t, NEW p \in Key, \A q \in Above(p) \ {p} : ~t[q].list
  PROVE  Unlisted(t, p)
  <1>1. Len(p) \in Nat /\ DOMAIN p = 1 .. Len(p)
    BY LenProperties DEF Key
  <1> SUFFICES ASSUME NEW i \in 1 .. Len(p) - 1 PROVE ~t[SubSeq(p, 1, i)].list
    BY DEF Unlisted
  <1>2. i \in Nat /\ i \in DOMAIN p /\ i < Len(p)
    BY <1>1
  <1>3. SubSeq(p, 1, i) \in Above(p)
    BY <1>2, Zenon DEF Above
  <1>4. SubSeq(p, 1, i) # p
    <2>1. Len(SubSeq(p, 1, i)) = i
      BY <1>1, <1>2 DEF Key
    <2> QED
      BY <1>2, <2>1
  <1> QED
    BY <1>3, <1>4

-----------------------------------------------------------------------------
(* Old files are never wider than the types and gates of today.            *)

\* A registry made from these types or from earlier ones.
Older(r) == \E t \in TypeVersions : r = Scan(t) /\ Extends(types, t)

\* A tool of today or of some earlier day: gates only ever open.
OlderTool(x) ==
  /\ Older(x.reg)
  /\ x.gates \in [DOMAIN GateTable -> 0 .. 2]
  /\ \A g \in DOMAIN GateTable : gates[g] <= x.gates[g]

Ages ==
  /\ Older(reg)
  /\ tool = NoFile \/ OlderTool(tool)
  /\ todo # <<>> => OlderTool(tool)
  /\ base = NoFile \/ base \subseteq Crd(types)
  /\ \A fs \in FeatureSet : variants[fs] = Truncated \/ variants[fs] \subseteq Crd(types)

\* The fields that are closed to the feature set are not in the keys.
Closed(keys, fs) ==
  \A p \in DOMAIN types :
    Plain(p) /\ ~Allowed(p, fs) => \A key \in keys : ~IsPrefix(KeyPath(types, p), key)

\* The heart of it: an old tool leaves out what is closed today.
LEMMA FilterCloses ==
  ASSUME Typed, NEW x, OlderTool(x), NEW fs,
         NEW schema, schema \subseteq {KeyPath(types, q) : q \in DOMAIN x.reg}
  PROVE  Closed(filterCRDNode(schema, x, fs), fs)
  <1> SUFFICES ASSUME NEW p \in DOMAIN types, Plain(p), ~Allowed(p, fs),
                      NEW key \in filterCRDNode(schema, x, fs),
                      IsPrefix(KeyPath(types, p), key)
               PROVE  FALSE
    BY DEF Closed
  <1>1. types \in TypeVersions /\ gates \in [DOMAIN GateTable -> 0 .. 2]
    BY DEF Typed, Sources
  <1>2. PICK t \in TypeVersions : x.reg = Scan(t) /\ Extends(types, t)
    BY DEF OlderTool, Older
  <1>3. DOMAIN x.reg = DOMAIN t /\ DOMAIN t \subseteq DOMAIN types
        /\ \A q \in DOMAIN t : x.reg[q] = t[q].gate
    BY <1>2 DEF Scan, Extends
  <1>4. key \in schema
    BY FilterPart
  <1>5. PICK q \in DOMAIN t : key = KeyPath(types, q)
    BY <1>3, <1>4
  <1>6. p \in Key /\ p # <<>> /\ q \in Key /\ q \in DOMAIN types
    BY <1>1, <1>2, <1>3, <1>5, VersionParts
  <1>7. Unlisted(types, p)
    BY <1>6, PlainUnlisted DEF Plain
  <1>8. p \in DOMAIN t
    <2>1. p \in Above(q)
      BY <1>1, <1>5, <1>6, <1>7, BelowPlain
    <2>2. Above(q) \subseteq DOMAIN t
      BY <1>2, <1>5, VersionParts
    <2> QED
      BY <2>1, <2>2
  <1>9. types[p].gate # NoGate /\ ~Gates(gates)!IsGateEnabled(types[p].gate, fs)
    BY DEF Allowed
  <1>10. x.reg[p] = types[p].gate
    BY <1>2, <1>3, <1>8, <1>9 DEF Extends
  <1>11. ~shouldIncludeField(x, p, fs)
    <2>1. ~Gates(x.gates)!IsGateEnabled(x.reg[p], fs)
      <3>1. \A g \in DOMAIN GateTable : gates[g] <= x.gates[g]
        BY DEF OlderTool
      <3>2. x.gates \in [DOMAIN GateTable -> 0 .. 2]
        BY DEF OlderTool
      <3> QED
        BY <1>1, <1>9, <1>10, <3>1, <3>2, GatesOpen
    <2>2. p \in DOMAIN x.reg /\ x.reg[p] # NoGate
      BY <1>3, <1>8, <1>9, <1>10
    <2> QED
      BY <2>1, <2>2, Zenon DEF shouldIncludeField
  <1>12. PICK k : IsKeys(k, types, p) /\ KeyPath(types, p) = k[Len(p)]
    BY <1>6, KeyPathKeys
  <1>13. key \in Key /\ KeyPath(types, p) \in Key
    BY <1>1, <1>5, <1>6, KeyPathTyped
  <1>14. Pre(k[Len(p)], key)
    BY <1>12, <1>13, PrePrefix
  <1>15. \A i \in 1 .. Len(p) : p[i] # "properties"
    BY <1>6 DEF Plain, Key
  <1>16. PICK n \in 1 .. Len(key) :
           inSchema(key, n) /\ key[n] # "properties" /\ fieldPath(key, n) = p
    BY <1>6, <1>7, <1>12, <1>13, <1>14, <1>15, PlainFieldPath
  <1>17. n \in DOMAIN key
    BY <1>13, <1>16 DEF Key
  <1> QED
    BY <1>11, <1>16, <1>17, Zenon DEF filterCRDNode

AllClosed ==
  ~uncovered => \A fs \in FeatureSet : variants[fs] = Truncated \/ Closed(variants[fs], fs)

\* What is compiled in is no newer than the types.
LEMMA CompiledIsOlder ==
  ASSUME Typed, Older(reg)
  PROVE  OlderTool(Compiled)
  <1>1. gates \in [DOMAIN GateTable -> 0 .. 2]
    BY DEF Typed, Sources
  <1>2. Compiled.reg = reg /\ Compiled.gates = gates
    BY DEF Compiled
  <1>3. \A g \in DOMAIN GateTable : gates[g] <= gates[g]
    BY <1>1
  <1> QED
    BY <1>1, <1>2, <1>3 DEF OlderTool

\* In a fresh clone nothing is newer than the types.
LEMMA AgesInit ==
  ASSUME Init
  PROVE  Ages /\ AllClosed
  <1>1. Typed
    BY TypesInit
  <1>2. types \in TypeVersions /\ reg = Scan(types)
    BY DEF Init
  <1>3. Older(reg)
    BY <1>2, ExtendsItself DEF Older
  <1>4. ASSUME NEW fs \in FeatureSet
        PROVE  variants[fs] \subseteq Crd(types) /\ Closed(variants[fs], fs)
    <2>1. variants[fs] = filterCRDNode(Crd(types), Compiled, fs)
      BY DEF Init
    <2>2. Compiled.reg = Scan(types) /\ DOMAIN Scan(types) = DOMAIN types
      BY <1>2 DEF Compiled, Scan
    <2>3. Crd(types) \subseteq {KeyPath(types, q) : q \in DOMAIN Compiled.reg}
      BY <2>2 DEF Crd
    <2>4. OlderTool(Compiled)
      BY <1>1, <1>3, CompiledIsOlder
    <2> QED
      BY <1>1, <2>1, <2>3, <2>4, FilterPart, FilterCloses
  <1>5. tool = NoFile /\ todo = <<>> /\ base = NoFile
    BY DEF Init
  <1> QED
    BY <1>3, <1>4, <1>5 DEF Ages, AllClosed

\* New fields are in no old file, and an old field keeps its gate or loses it.
LEMMA EditKeepsClosed ==
  ASSUME Typed, NEW t \in TypeVersions, EditTypes(t),
         NEW keys, keys \subseteq Crd(types), NEW fs, Closed(keys, fs)
  PROVE  \A p \in DOMAIN types' :
           Plain(p)' /\ ~Allowed(p, fs)' => \A key \in keys : ~IsPrefix(KeyPath(types', p), key)
  <1> SUFFICES ASSUME NEW p \in DOMAIN types', Plain(p)', ~Allowed(p, fs)', NEW key \in keys,
                      IsPrefix(KeyPath(types', p), key)
               PROVE  FALSE
    OBVIOUS
  <1>1. types \in TypeVersions /\ types' \in TypeVersions /\ Extends(types', types) /\ gates' = gates
    BY DEF Typed, Sources, EditTypes
  <1>2. PICK q \in DOMAIN types : key = KeyPath(types, q)
    BY DEF Crd
  <1>3. key = KeyPath(types', q) /\ q \in DOMAIN types'
    BY <1>1, <1>2, SameKeyPath DEF Extends
  <1>4. p \in Key /\ p # <<>> /\ Above(p) \subseteq DOMAIN types'
    BY <1>1, VersionParts
  <1>5. Unlisted(types', p)
    BY <1>4, PlainUnlisted DEF Plain
  <1>6. p \in DOMAIN types
    <2>1. p \in Above(q)
      BY <1>1, <1>3, <1>4, <1>5, BelowPlain
    <2>2. Above(q) \subseteq DOMAIN types
      BY <1>1, <1>2, VersionParts
    <2> QED
      BY <2>1, <2>2
  <1>7. KeyPath(types', p) = KeyPath(types, p)
    BY <1>1, <1>6, SameKeyPath
  <1>8. Plain(p)
    <2>1. Above(p) \subseteq DOMAIN types
      BY <1>1, <1>6, VersionParts
    <2>2. \A r \in Above(p) : types'[r].list = types[r].list
      BY <1>1, <2>1 DEF Extends
    <2>3. \A r \in Above(p) \ {p} : ~types'[r].list
      BY DEF Plain
    <2>4. \A i \in DOMAIN p : p[i] # "properties"
      BY DEF Plain
    <2> QED
      BY <2>2, <2>3, <2>4, Zenon DEF Plain
  <1>9. ~Allowed(p, fs)
    <2>1. types'[p].gate # NoGate /\ ~Gates(gates)!IsGateEnabled(types'[p].gate, fs)
      BY <1>1 DEF Allowed
    <2>2. types'[p].gate = types[p].gate
      BY <1>1, <1>6, <2>1 DEF Extends
    <2> QED
      BY <2>1, <2>2 DEF Allowed
  <1> QED
    BY <1>6, <1>7, <1>8, <1>9 DEF Closed

\* After an edit everything is as old as before or one version older.
LEMMA EditAges ==
  ASSUME Typed, Ages, AllClosed, NEW t \in TypeVersions, EditTypes(t)
  PROVE  Ages' /\ AllClosed'
  <1>1. /\ types \in TypeVersions /\ types' = t /\ Extends(types', types)
        /\ UNCHANGED <<gates, reg, base, variants, tool, todo, uncovered>>
    BY DEF Typed, Sources, EditTypes
  <1>2. ASSUME NEW r, Older(r) PROVE \E u \in TypeVersions : r = Scan(u) /\ Extends(types', u)
    <2>1. PICK u \in TypeVersions : r = Scan(u) /\ Extends(types, u)
      BY <1>2 DEF Older
    <2> QED
      BY <1>1, <2>1, ExtendsFurther
  <1>3. Older(reg)'
    BY <1>1, <1>2 DEF Ages, Older
  <1>4. OlderTool(tool) => OlderTool(tool)'
    BY <1>1, <1>2 DEF OlderTool, Older
  <1>5. Crd(types) \subseteq Crd(types')
    BY <1>1, CrdGrows
  <1>6. Ages'
    BY <1>1, <1>3, <1>4, <1>5 DEF Ages
  <1>7. ASSUME ~uncovered, NEW fs \in FeatureSet, variants[fs] # Truncated
        PROVE  Closed(variants[fs], fs)'
    <2>1. variants[fs] \subseteq Crd(types) /\ Closed(variants[fs], fs)
      BY <1>7 DEF Ages, AllClosed
    <2> DEFINE keys == variants[fs]
    <2>2. keys \subseteq Crd(types) /\ Closed(keys, fs) /\ variants'[fs] = keys
      BY <1>1, <2>1
    <2> HIDE DEF keys
    <2>3. \A p \in DOMAIN types' :
            Plain(p)' /\ ~Allowed(p, fs)' => \A key \in keys : ~IsPrefix(KeyPath(types', p), key)
      BY <2>2, EditKeepsClosed
    <2> QED
      BY <2>2, <2>3 DEF Closed
  <1> QED
    BY <1>1, <1>6, <1>7 DEF AllClosed

\* After a promotion every gate that was open still is.
LEMMA PromoteAges ==
  ASSUME Typed, Ages, AllClosed, NEW g \in DOMAIN GateTable, PromoteGate(g)
  PROVE  Ages' /\ AllClosed'
  <1>1. /\ gates \in [DOMAIN GateTable -> 0 .. 2] /\ gates' = [gates EXCEPT ![g] = @ - 1] /\ gates[g] > 0
        /\ UNCHANGED <<types, reg, base, variants, tool, todo, uncovered>>
    BY DEF Typed, Sources, PromoteGate
  <1>2. gates' \in [DOMAIN GateTable -> 0 .. 2] /\ \A h \in DOMAIN GateTable : gates'[h] <= gates[h]
    BY <1>1
  <1>3. OlderTool(tool) => OlderTool(tool)'
    <2> SUFFICES ASSUME OlderTool(tool) PROVE OlderTool(tool)'
      OBVIOUS
    <2>1. \A h \in DOMAIN GateTable : gates'[h] <= tool.gates[h]
      BY <1>1, <1>2 DEF OlderTool
    <2> QED
      BY <1>1, <2>1 DEF OlderTool, Older
  <1>4. Ages'
    BY <1>1, <1>3 DEF Ages, Older
  <1>5. \A p, fs : Allowed(p, fs) => Allowed(p, fs)'
    BY <1>1, <1>2, GatesOpen DEF Allowed
  <1>6. \A p : Plain(p)' => Plain(p)
    BY <1>1 DEF Plain
  <1>7. AllClosed'
    BY <1>1, <1>5, <1>6 DEF AllClosed, Closed
  <1> QED
    BY <1>4, <1>7

\* What the tool leaves out of a covered base is closed to the feature set
\* now, or open to it.
LEMMA EncodeAges ==
  ASSUME Typed, Ages, AllClosed, Encode
  PROVE  Ages' /\ AllClosed'
  <1> DEFINE now == Head(todo)
             made == filterCRDNode(base, tool, now)
             known == {KeyPath(types, p) : p \in DOMAIN tool.reg}
  <1>1. todo \in Todos /\ todo # <<>> /\ base # NoFile /\ OlderTool(tool)
    BY DEF Typed, Place, Encode, Ages
  <1>2. /\ variants' = [variants EXCEPT ![now] = made]
        /\ UNCHANGED <<types, gates, reg, base, tool>>
        /\ uncovered' = (uncovered \/ ~(base \subseteq known))
    BY DEF Encode
  <1>3. variants \in [FeatureSet -> (SUBSET AllKeys) \cup {Truncated}]
    BY DEF Typed, Outputs
  <1>4. made \subseteq Crd(types)
    BY <1>1, FilterPart DEF Ages
  <1>5. base \subseteq known => Closed(made, now)
    BY <1>1, FilterCloses
  <1> HIDE DEF made, known, now
  <1>6. \A fs \in FeatureSet : variants'[fs] = IF fs = now THEN made ELSE variants[fs]
    BY <1>2, <1>3
  <1>7. Ages'
    BY <1>1, <1>2, <1>4, <1>6 DEF Ages, Older, OlderTool
  <1>8. \A keys, fs : Closed(keys, fs) => \A p \in DOMAIN types' :
           Plain(p)' /\ ~Allowed(p, fs)' => \A key \in keys : ~IsPrefix(KeyPath(types', p), key)
    BY <1>2 DEF Closed, Plain, Allowed
  <1>9. ASSUME ~uncovered', NEW fs \in FeatureSet, variants'[fs] # Truncated
        PROVE  Closed(variants[fs], fs)'
    <2>1. ~uncovered /\ base \subseteq known
      BY <1>2, <1>9
    <2>2. Closed(variants'[fs], fs)
      BY <1>5, <1>6, <1>9, <2>1 DEF AllClosed
    <2> QED
      BY <1>8, <2>2 DEF Closed
  <1> QED
    BY <1>7, <1>9 DEF AllClosed

\* Every step keeps the ages.
LEMMA AgesNext ==
  ASSUME Typed, Ages, AllClosed, [Next]_vars
  PROVE  Ages' /\ AllClosed'
  <1>1. types \in TypeVersions /\ gates \in [DOMAIN GateTable -> 0 .. 2]
    BY DEF Typed, Sources
  <1>2. ASSUME UNCHANGED <<types, gates, variants, uncovered>> PROVE AllClosed'
    BY <1>2 DEF AllClosed, Closed, Plain, Allowed
  <1>3. CASE GenerateRegistry
    <2>1. Older(reg)'
      BY <1>1, <1>3, ExtendsItself DEF GenerateRegistry, Older
    <2> QED
      BY <1>2, <1>3, <2>1 DEF GenerateRegistry, Ages, Older, OlderTool
  <1>4. CASE Manifests
    BY <1>2, <1>4 DEF Manifests, Ages, Older, OlderTool
  <1>5. CASE Clean
    BY <1>2, <1>5 DEF Clean, Idle, Ages, Older, OlderTool
  <1>6. CASE CleanGenerated
    BY <1>2, <1>6 DEF CleanGenerated, Idle, Ages, Older, OlderTool
  <1>7. CASE GenerateAllVariants
    <2>1. OlderTool(tool)'
      <3>1. OlderTool(Compiled)
        BY CompiledIsOlder DEF Ages
      <3>2. tool' = Compiled /\ types' = types /\ gates' = gates
        BY <1>7 DEF GenerateAllVariants
      <3> QED
        BY <3>1, <3>2 DEF OlderTool, Older
    <2> QED
      BY <1>2, <1>7, <2>1 DEF GenerateAllVariants, Ages, Older
  <1>8. ASSUME NEW fs \in FeatureSet, RunForOne(fs) PROVE Ages' /\ AllClosed'
    BY <1>2, <1>8 DEF RunForOne, Ages, Older, OlderTool
  <1>9. CASE ReadFails
    BY <1>2, <1>9 DEF ReadFails, Ages, Older, OlderTool
  <1>10. CASE Interrupt
    BY <1>2, <1>10 DEF Interrupt, Ages, Older, OlderTool
  <1>11. CASE UNCHANGED vars
    BY <1>2, <1>11 DEF vars, Ages, Older, OlderTool
  <1>12. CASE CreateFile
    <2>1. variants \in [FeatureSet -> (SUBSET AllKeys) \cup {Truncated}]
      BY DEF Typed, Outputs
    <2>2. /\ variants' = [variants EXCEPT ![Head(todo)] = Truncated]
          /\ UNCHANGED <<types, gates, reg, base, tool, todo, uncovered>>
      BY <1>12 DEF CreateFile
    <2> DEFINE now == Head(todo)
    <2> HIDE DEF now
    <2>3. \A fs \in FeatureSet : variants'[fs] = Truncated \/ variants'[fs] = variants[fs]
      BY <2>1, <2>2
    <2>4. Ages'
      BY <2>2, <2>3 DEF Ages, Older, OlderTool
    <2>5. \A fs \in FeatureSet : Closed(variants[fs], fs) /\ variants'[fs] = variants[fs]
            => Closed(variants[fs], fs)'
      BY <2>2 DEF Closed, Plain, Allowed
    <2>6. AllClosed'
      BY <2>2, <2>3, <2>5 DEF AllClosed
    <2> QED
      BY <2>4, <2>6
  <1> QED
    BY <1>3, <1>4, <1>5, <1>6, <1>7, <1>8, <1>9, <1>10, <1>11, <1>12,
       EditAges, PromoteAges, EncodeAges DEF Next, Step

(* A variant that was made of fields its tool knew never has a field that  *)
(* the validator refuses to that feature set today, however old the file,  *)
(* the tool and the base are: for every history of versions of the types,  *)
(* promotions of gates, partial, failing and cut-off runs of any length.   *)
THEOREM NeverWider == Spec => []StaleIsNeverWider
  <1>1. Init => Ages /\ AllClosed
    BY AgesInit
  <1>2. AllClosed => StaleIsNeverWider
    BY DEF AllClosed, Closed, StaleIsNeverWider
  <1> QED
    BY <1>1, <1>2, TypesInvariant, AgesNext, PTL DEF Spec

-----------------------------------------------------------------------------
(* A complete run.                                                         *)

\* The fields above a field have the keys it has up to theirs.
LEMMA KeysOfAbove ==
  ASSUME NEW t, NEW p \in Key, NEW k, IsKeys(k, t, p), NEW j \in 1 .. Len(p)
  PROVE  LET q == SubSeq(p, 1, j)
         IN  /\ q \in Key /\ Len(q) = j /\ q # <<>> /\ q \in Above(p)
             /\ \A i \in 1 .. j : q[i] = p[i]
             /\ IsKeys(k, t, q)
  <1> DEFINE q == SubSeq(p, 1, j)
  <1>1. Len(p) \in Nat /\ DOMAIN p = 1 .. Len(p) /\ \A i \in 1 .. Len(p) : p[i] \in Word
    <2>1. Len(p) \in Nat /\ DOMAIN p = 1 .. Len(p)
      BY LenProperties DEF Key
    <2> QED
      BY <2>1, ElementOfSeq DEF Key
  <1>2. j \in Nat /\ j # 0 /\ j \in DOMAIN p /\ \A i \in 1 .. j : i \in 1 .. Len(p) /\ p[i] \in Word
    BY <1>1
  <1>3. q \in Seq(Word) /\ Len(q) = j /\ \A i \in 1 .. j : q[i] = p[i]
    BY <1>2, SubSeqProperties
  <1>4. q # <<>>
    BY <1>2, <1>3
  <1>5. q \in Above(p)
    BY <1>2, Zenon DEF Above
  <1>6. \A i \in 1 .. j : Items(t, q, i - 1) = Items(t, p, i - 1)
    <2> TAKE i \in 1 .. j
    <2>1. ASSUME i - 1 > 0 PROVE SubSeq(q, 1, i - 1) = SubSeq(p, 1, i - 1)
      <3> DEFINE h == i - 1
      <3>1. h \in 1 .. j - 1 + 1 /\ h \in Nat /\ 1 \in 1 .. j - 1 + 1
        BY <1>2, <2>1
      <3>2. 1 \in 1 .. Len(p) /\ 1 + 1 - 1 = 1 /\ 1 + h - 1 = h
        BY <1>2, <3>1
      <3> HIDE DEF h
      <3>3. SubSeq(SubSeq(p, 1, j), 1, h) = SubSeq(p, 1 + 1 - 1, 1 + h - 1)
        BY <3>1, <3>2, SubSeqOfSubSeq DEF Key
      <3>4. SubSeq(q, 1, h) = SubSeq(p, 1, h)
        BY <3>2, <3>3
      <3> QED
        BY <3>4 DEF h
    <2> HIDE DEF q
    <2> QED
      BY <2>1, Zenon DEF Items
  <1>7. IsKeys(k, t, q)
    <2>1. \A i \in 0 .. j : i \in 0 .. Len(p)
      BY <1>1
    <2>2. \A i \in 1 .. j : k[i] = k[i - 1] \o Items(t, q, i - 1) \o <<"properties", q[i]>>
      <3> TAKE i \in 1 .. j
      <3>1. k[i] = k[i - 1] \o Items(t, p, i - 1) \o <<"properties", p[i]>>
        BY <1>2 DEF IsKeys
      <3>2. Items(t, q, i - 1) = Items(t, p, i - 1) /\ q[i] = p[i]
        BY <1>3, <1>6
      <3> HIDE DEF q
      <3> QED
        BY <3>1, <3>2
    <2>3. (\A i \in 0 .. j : k[i] \in Key) /\ k[0] = <<"openAPIV3Schema">>
      BY <2>1 DEF IsKeys
    <2> HIDE DEF q
    <2> QED
      BY <1>3, <2>2, <2>3 DEF IsKeys
  <1> QED
    BY <1>3, <1>4, <1>5, <1>7 DEF Key

\* An index is the first, or that of a name or of the keyword before it.
LEMMA OddOrEven ==
  ASSUME NEW N \in Nat, NEW i \in 1 .. 2 * N + 1
  PROVE  i = 1 \/ \E j \in 1 .. N : i = 2 * j \/ i = 2 * j + 1
  <1> DEFINE S == {m \in Nat : \E j \in 0 .. m : m = 2 * j \/ m = 2 * j + 1}
  <1>1. 0 \in S
    OBVIOUS
  <1>2. \A m \in Nat : m \in S => m + 1 \in S
    <2> TAKE m \in Nat
    <2> HAVE m \in S
    <2>1. PICK j \in 0 .. m : m = 2 * j \/ m = 2 * j + 1
      OBVIOUS
    <2>2. CASE m = 2 * j
      <3>1. j \in 0 .. m + 1 /\ m + 1 = 2 * j + 1
        BY <2>2
      <3> QED
        BY <3>1
    <2>3. CASE m = 2 * j + 1
      <3>1. j + 1 \in 0 .. m + 1 /\ m + 1 = 2 * (j + 1)
        BY <2>3
      <3> QED
        BY <3>1
    <2> QED
      BY <2>1, <2>2, <2>3
  <1>3. i \in S
    <2> HIDE DEF S
    <2> QED
      BY <1>1, <1>2, SetInduction
  <1>4. PICK j \in 0 .. i : i = 2 * j \/ i = 2 * j + 1
    BY <1>3
  <1>5. i = 1 \/ j \in 1 .. N
    BY <1>4
  <1> QED
    BY <1>4, <1>5

\* A plain field stays if the tool includes it and the fields above it.
LEMMA FilterKeeps ==
  ASSUME NEW t, NEW p \in Key, Unlisted(t, p),
         \A i \in 1 .. Len(p) : p[i] # "properties",
         NEW x, NEW fs, \A q \in Above(p) : shouldIncludeField(x, q, fs),
         NEW schema, KeyPath(t, p) \in schema
  PROVE  KeyPath(t, p) \in filterCRDNode(schema, x, fs)
  <1> DEFINE key == KeyPath(t, p)
             N == Len(p)
  <1>1. N \in Nat
    BY LenProperties DEF Key
  <1>2. PICK k : IsKeys(k, t, p) /\ key = k[N]
    BY KeyPathKeys
  <1>3. key \in Key
    BY KeyPathTyped
  <1>4. N \in 0 .. N
    BY <1>1
  <1>5. Len(key) = 2 * N + 1
    BY <1>2, <1>4, UnlistedLength
  <1> HIDE DEF key
  <1> SUFFICES ASSUME NEW i \in DOMAIN key, inSchema(key, i), key[i] # "properties"
               PROVE  shouldIncludeField(x, fieldPath(key, i), fs)
    BY Zenon DEF filterCRDNode, key
  <1>6. i \in 1 .. 2 * N + 1
    BY <1>3, <1>5, LenProperties DEF Key
  <1>7. ASSUME i = 1 PROVE FALSE
    <2>1. \E j \in 1 .. 1 : key[j] = "properties"
      BY <1>7 DEF inSchema
    <2>2. key[1] = "properties"
      BY <2>1
    <2> QED
      BY <1>7, <2>2
  <1>8. ASSUME NEW j \in 1 .. N, i = 2 * j PROVE FALSE
    <2>1. key[2 * j] = "properties"
      BY <1>2, UnlistedKeys
    <2> QED
      BY <1>8, <2>1
  <1>9. ASSUME NEW j \in 1 .. N, i = 2 * j + 1 PROVE shouldIncludeField(x, fieldPath(key, i), fs)
    <2> DEFINE q == SubSeq(p, 1, j)
    <2>1. /\ q \in Key /\ Len(q) = j /\ q # <<>> /\ q \in Above(p)
          /\ \A m \in 1 .. j : q[m] = p[m]
          /\ IsKeys(k, t, q)
      BY <1>2, KeysOfAbove
    <2>2. Unlisted(t, q)
      <3> SUFFICES ASSUME NEW m \in 1 .. j - 1 PROVE ~t[SubSeq(q, 1, m)].list
        BY <2>1 DEF Unlisted
      <3>1. m \in 1 .. N - 1 /\ m \in Nat /\ m \in 1 .. j - 1 + 1 /\ 1 \in 1 .. j - 1 + 1
            /\ 1 \in 1 .. N
        BY <1>1
      <3>2. SubSeq(q, 1, m) = SubSeq(p, 1 + 1 - 1, 1 + m - 1)
        BY <3>1, SubSeqOfSubSeq DEF Key
      <3>3. 1 + 1 - 1 = 1 /\ 1 + m - 1 = m
        BY <3>1
      <3>4. ~t[SubSeq(p, 1, m)].list
        BY <3>1 DEF Unlisted
      <3> HIDE DEF q
      <3> QED
        BY <3>2, <3>3, <3>4
    <2>3. \A m \in 1 .. Len(q) : q[m] # "properties"
      <3>1. \A m \in 1 .. j : m \in 1 .. N
        BY <1>1
      <3> HIDE DEF q
      <3> QED
        BY <2>1, <3>1
    <2>4. Pre(k[j], key)
      <3>1. j \in 0 .. N
        BY <1>1
      <3> QED
        BY <1>2, <3>1, KeysBelow
    <2> HIDE DEF q
    <2>5. fieldPath(key, 2 * Len(q) + 1) = q
      BY <1>3, <2>1, <2>2, <2>3, <2>4, PlainFieldPath
    <2> QED
      BY <1>9, <2>1, <2>5
  <1> QED
    BY <1>1, <1>6, <1>7, <1>8, <1>9, OddOrEven

\* With the tool of today, what the filter makes of the CRD of today is right.
LEMMA FilterIsRight ==
  ASSUME Typed, reg = Scan(types), NEW fs \in FeatureSet, NEW p \in DOMAIN types, Plain(p)
  PROVE  LET keys == filterCRDNode(Crd(types), Compiled, fs)
         IN  /\ keys # Truncated
             /\ KeyPath(types, p) \in keys <=> \A q \in Above(p) : Allowed(q, fs)
  <1> DEFINE keys == filterCRDNode(Crd(types), Compiled, fs)
  <1>1. types \in TypeVersions
    BY DEF Typed, Sources
  <1>2. keys # Truncated
    <2>1. keys \subseteq Crd(types) /\ Crd(types) \subseteq AllKeys
      BY <1>1, FilterPart, CrdKeys
    <2> HIDE DEF keys
    <2> QED
      BY <2>1, TruncatedAssumption
  <1>3. Compiled.reg = reg /\ Compiled.gates = gates
    BY DEF Compiled
  <1>4. p \in Key /\ p # <<>> /\ Above(p) \subseteq DOMAIN types /\ KeyPath(types, p) \in Crd(types)
    BY <1>1, VersionParts DEF Crd
  <1>5. DOMAIN reg = DOMAIN types /\ \A q \in DOMAIN types : reg[q] = types[q].gate
    BY DEF Scan
  <1>6. Unlisted(types, p)
    BY <1>4, PlainUnlisted DEF Plain
  <1>7. \A i \in 1 .. Len(p) : p[i] # "properties"
    BY <1>4 DEF Plain, Key
  <1>8. ASSUME \A q \in Above(p) : Allowed(q, fs) PROVE KeyPath(types, p) \in keys
    <2>1. ASSUME NEW q \in Above(p) PROVE shouldIncludeField(Compiled, q, fs)
      <3>1. q \in DOMAIN types /\ Allowed(q, fs)
        BY <1>4, <1>8, <2>1
      <3>2. reg[q] # NoGate => Gates(gates)!IsGateEnabled(reg[q], fs)
        BY <1>5, <3>1, Zenon DEF Allowed
      <3> QED
        BY <1>3, <3>2, Zenon DEF shouldIncludeField
    <2> QED
      BY <1>4, <1>6, <1>7, <2>1, FilterKeeps
  <1>9. ASSUME KeyPath(types, p) \in keys, NEW q \in Above(p), ~Allowed(q, fs) PROVE FALSE
    <2>1. OlderTool(Compiled)
      <3>1. Older(reg)
        BY <1>1, ExtendsItself DEF Older
      <3> QED
        BY <3>1, CompiledIsOlder
    <2>2. Crd(types) \subseteq {KeyPath(types, r) : r \in DOMAIN Compiled.reg}
      BY <1>3, <1>5 DEF Crd
    <2>3. Closed(keys, fs)
      BY <2>1, <2>2, FilterCloses
    <2>4. PICK j \in 1 .. Len(p) : q = SubSeq(p, 1, j)
      BY <1>4, LenProperties DEF Above, Key
    <2>5. PICK k : IsKeys(k, types, p) /\ KeyPath(types, p) = k[Len(p)]
      BY <1>4, KeyPathKeys
    <2>6. /\ q \in Key /\ Len(q) = j /\ \A i \in 1 .. j : q[i] = p[i]
          /\ IsKeys(k, types, q)
      BY <1>4, <2>4, <2>5, KeysOfAbove
    <2>7. Plain(q)
      <3>1. \A i \in DOMAIN q : q[i] # "properties"
        <4>1. Len(p) \in Nat /\ DOMAIN q = 1 .. j
          BY <1>4, <2>6, LenProperties DEF Key
        <4>2. \A i \in 1 .. j : i \in 1 .. Len(p)
          BY <2>4, <4>1
        <4> QED
          BY <1>7, <2>6, <4>1, <4>2
      <3>2. \A r \in Above(q) \ {q} : r \in Above(p) \ {p}
        <4> SUFFICES ASSUME NEW r \in Above(q), r # q PROVE r \in Above(p) /\ r # p
          OBVIOUS
        <4>1. PICK i \in 1 .. j : r = SubSeq(q, 1, i)
          BY <2>6, LenProperties DEF Above, Key
        <4>2. /\ Len(p) \in Nat /\ i \in 1 .. Len(p) /\ i \in Nat /\ j \in Nat /\ i <= j
              /\ i \in 1 .. j - 1 + 1 /\ 1 \in 1 .. j - 1 + 1 /\ 1 \in 1 .. Len(p)
              /\ 1 + 1 - 1 = 1 /\ 1 + i - 1 = i
          <5>1. Len(p) \in Nat
            BY <1>4, LenProperties DEF Key
          <5> QED
            BY <2>4, <4>1, <5>1
        <4>3. r = SubSeq(p, 1, i)
          <5>1. SubSeq(SubSeq(p, 1, j), 1, i) = SubSeq(p, 1 + 1 - 1, 1 + i - 1)
            BY <1>4, <2>4, <4>2, SubSeqOfSubSeq DEF Key
          <5> QED
            BY <2>4, <4>1, <4>2, <5>1
        <4>4. r \in Above(p) /\ Len(r) = i
          BY <1>4, <2>5, <4>2, <4>3, KeysOfAbove
        <4>5. i # j
          BY <2>4, <4>1, <4>3
        <4>6. Len(r) # Len(p)
          BY <2>4, <4>2, <4>4, <4>5
        <4> QED
          BY <4>4, <4>6
      <3> QED
        BY <3>1, <3>2 DEF Plain
    <2>8. Pre(k[j], k[Len(p)])
      <3>1. j \in 0 .. Len(p)
        BY <2>4
      <3> QED
        BY <1>4, <2>5, <3>1, KeysBelow
    <2>9. KeyPath(types, q) = k[j]
      <3>1. PICK l : IsKeys(l, types, q) /\ KeyPath(types, q) = l[Len(q)]
        BY <2>6, KeyPathKeys
      <3> QED
        BY <2>6, <3>1, KeysUnique
    <2>10. IsPrefix(KeyPath(types, q), KeyPath(types, p))
      <3>1. KeyPath(types, q) \in Key /\ KeyPath(types, p) \in Key
        BY <1>4, <2>6, KeyPathTyped
      <3> QED
        BY <2>5, <2>8, <2>9, <3>1, PrePrefix
    <2>11. q \in DOMAIN types
      BY <1>4, <1>9
    <2> HIDE DEF keys
    <2> QED
      BY <1>9, <2>3, <2>7, <2>10, <2>11, Zenon DEF Closed
  <1> HIDE DEF keys
  <1>10. KeyPath(types, p) \in keys <=> \A q \in Above(p) : Allowed(q, fs)
    BY <1>8, <1>9, Zenon
  <1> QED
    BY <1>2, <1>10 DEF keys

(* The run that writes the third file with nothing out of date leaves      *)
(* exactly the right plain fields in all three, for every schema and gate  *)
(* table.                                                                  *)
THEOREM CompleteRun == Spec => CompleteRunIsRight
  <1> DEFINE Ends == /\ Encode /\ goal = "all" /\ todo' = <<>>
                     /\ tool = Compiled /\ reg = Scan(types) /\ base = Crd(types)
             Right == \A fs \in FeatureSet, p \in {q \in DOMAIN types : Plain(q)} :
                        /\ variants'[fs] # Truncated
                        /\ KeyPath(types, p) \in variants'[fs] <=> \A q \in Above(p) : Allowed(q, fs)
  <1>1. Typed /\ Progress => (Ends => Right)
    <2> SUFFICES ASSUME Typed, Progress, Ends PROVE Right
      OBVIOUS
    <2>1. /\ variants' = [variants EXCEPT ![Head(todo)] = filterCRDNode(base, tool, Head(todo))]
          /\ todo' = Tail(todo) /\ created
      BY DEF Encode
    <2>2. variants \in [FeatureSet -> (SUBSET AllKeys) \cup {Truncated}] /\ todo # <<>>
      BY <2>1 DEF Typed, Outputs, Place
    <2>3. todo = AfterTechPreview /\ Written("Default") /\ Written("TechPreviewNoUpgrade")
      <3>1. todo # FeatureSets /\ todo # AfterDefault
        BY <2>1, TodoParts, FourDiffer
      <3> QED
        BY <2>2, <3>1 DEF Progress
    <2>4. \A fs \in FeatureSet : variants'[fs] = filterCRDNode(base, tool, fs)
      <3>1. Head(todo) = "DevPreviewNoUpgrade"
        BY <2>3, TodoParts
      <3> QED
        BY <2>1, <2>2, <2>3, <3>1, ThreeSets DEF Written
    <2>5. \A fs \in FeatureSet : variants'[fs] = filterCRDNode(Crd(types), Compiled, fs)
      BY <2>4
    <2>6. \A fs \in FeatureSet : \A p \in DOMAIN types : Plain(p) =>
            /\ filterCRDNode(Crd(types), Compiled, fs) # Truncated
            /\ KeyPath(types, p) \in filterCRDNode(Crd(types), Compiled, fs)
                 <=> \A q \in Above(p) : Allowed(q, fs)
      BY FilterIsRight
    <2> QED
      BY <2>5, <2>6, Zenon
  <1>2. Init => Progress
    BY DEF Init, Progress
  <1>3. Spec => []Progress
    BY <1>2, TypesInvariant, ProgressNext, PTL DEF Spec
  <1>4. Typed /\ Progress => [Ends => Right]_vars
    BY <1>1
  <1> QED
    BY <1>3, <1>4, TypesInvariant, PTL DEF CompleteRunIsRight

=============================================================================
