---------------------------- MODULE PipelineProofs ----------------------------
(***************************************************************************)
(* The safety of the generation pipeline for every list of source types,   *)
(* every set of HyperShift versions and of policies, and any number of     *)
(* edits, bumps and interruptions.                                         *)
(***************************************************************************)
EXTENDS Pipeline, SequenceTheorems, TLAPS

(* The first source type has its own prefix, or none at all.               *)
LEMMA FirstPrefix ==
  /\ FieldPrefix(SourceTypes[1]) \in {SourceTypes[1], NoPrefix}
  /\ SourceTypes[1] \in SpecSuffixed => FieldPrefix(SourceTypes[1]) = SourceTypes[1]
  <1> DEFINE pos == CHOOSE i \in DOMAIN SourceTypes : SourceTypes[i] = SourceTypes[1]
             set == {i \in 1 .. pos : deriveFieldPrefix(SourceTypes[i]) # NoPrefix}
             least == CHOOSE i \in set : \A j \in set : i <= j
  <1>1. 1 \in DOMAIN SourceTypes
    <2>1. DOMAIN SourceTypes = 1 .. Len(SourceTypes)
      <3>1. SourceTypes \in Seq(STRING)
        BY SourceTypesAssumption
      <3> QED
        BY <3>1, LenProperties, Zenon
    <2>2. Len(SourceTypes) \in Nat \ {0}
      <3>1. \A seq \in Seq(STRING) : seq # <<>> => Len(seq) \in Nat \ {0}
        BY EmptySeq, Zenon
      <3> QED
        BY <3>1, SourceTypesAssumption, Zenon
    <2> QED
      BY <2>1, <2>2, SMT
  <1>2. pos = 1
    BY <1>1, SourceTypesAssumption
  <1>3. 1 .. pos = {1}
    <2> HIDE DEF pos
    <2> QED
      BY <1>2
  <1>4. CASE set = {}
    <2>1. ASSUME SourceTypes[1] \in SpecSuffixed PROVE 1 \in set
      <3>1. deriveFieldPrefix(SourceTypes[1]) # NoPrefix
        BY <1>1, <2>1, SourceTypesAssumption DEF deriveFieldPrefix, NoPrefix
      <3> QED
        BY <3>1, <1>3
    <2> QED
      BY <1>4, <2>1 DEF FieldPrefix
  <1>5. CASE set # {}
    <2>1. set = {1}
      BY <1>3, <1>5
    <2>2. least = 1
      BY <2>1
    <2> QED
      BY <1>5, <2>2 DEF FieldPrefix
  <1> QED
    BY <1>4, <1>5

(* What stands above a field is all of its policy but what stands behind   *)
(* it, and what is regenerated all but its overrides.                      *)
LEMMA DocParts ==
  ASSUME NEW policy \in Policy
  PROVE  /\ Doc(policy) \in Policy
         /\ Doc(policy).hidden = policy.hidden
         /\ Doc(policy).writeMode = policy.writeMode
         /\ [policy EXCEPT !.overrides = FALSE] \in Policy
         /\ [policy EXCEPT !.overrides = FALSE].hidden = policy.hidden
         /\ [policy EXCEPT !.overrides = FALSE].writeMode = policy.writeMode
  BY DEF Policy, Doc

\* The fields of a file, or of the registry, belong to types and have policies.
Typed(table) ==
  /\ DOMAIN table \subseteq TypeNames \X STRING
  /\ \A f \in DOMAIN table : table[f] \in Policy

\* A file shows no field of the first type that nobody has reviewed.
HidesUnreviewed(table, known) ==
  \A f \in (DOMAIN table \cap FirstTypeField) \ known : table[f].hidden

(* The invariant: the markers in the source AND the ones saved in the      *)
(* registry file, from which a later run may take them, hide what nobody   *)
(* has reviewed.                                                           *)
Hiding ==
  /\ Typed(src) /\ Typed(regJson)
  /\ HidesUnreviewed(src, reviewed)
  /\ HidesUnreviewed(regJson, reviewed)
  /\ upstream \in Upstreams

(* What the registry file has of a field of the first type is what the     *)
(* generator finds for it; if it has nothing the field gets the safe       *)
(* default.                                                                *)
LEMMA GeneratedIsHidden ==
  ASSUME Hiding, NEW u \in Upstreams, NEW f \in FirstTypeField \ reviewed, f \in u
  PROVE  GeneratePassthrough(u, regJson)[f].hidden
  <1> DEFINE path == <<FieldPrefix(f[1]), f[2]>>
  <1>1. f \in TypeNames \X STRING
    BY PipelineAssumption
  <1>2. f = <<SourceTypes[1], f[2]>> /\ f[1] = SourceTypes[1]
    BY <1>1 DEF FirstTypeField
  <1>3. GeneratePassthrough(u, regJson)[f] = getMarkersForField(regJson, path)
    BY DEF GeneratePassthrough
  <1>4. CASE path \notin DOMAIN regJson
    BY <1>3, <1>4 DEF getMarkersForField, SafeDefault
  <1>5. CASE path \in DOMAIN regJson
    <2>1. path[1] \in TypeNames
      BY <1>5 DEF Hiding, Typed
    <2>2. path = f
      BY <1>2, <2>1, FirstPrefix, SourceTypesAssumption DEF TypeNames, NoPrefix
    <2>3. regJson[path].hidden
      BY <1>5, <2>2 DEF Hiding, HidesUnreviewed
    <2>4. [regJson[path] EXCEPT !.overrides = FALSE].hidden
      BY <1>5, <2>3, DocParts DEF Hiding, Typed
    <2> QED
      BY <1>3, <1>5, <2>4 DEF getMarkersForField
  <1> QED
    BY <1>4, <1>5

\* A scan drops fields and hides what was hidden.
LEMMA ScanHides ==
  ASSUME NEW table, NEW known, Typed(table), HidesUnreviewed(table, known)
  PROVE  Typed(Scan(table)) /\ HidesUnreviewed(Scan(table), known)
  BY DocParts DEF Typed, HidesUnreviewed, Scan, MarkedFields

\* Source and saved registry hide what nobody reviewed (getMarkersForField,
\* loader.go:202-236).
THEOREM HidingInvariant == Spec => []Hiding
  <1>1. Init => Hiding
    <2> SUFFICES ASSUME Init PROVE Hiding
      OBVIOUS
    <2>1. DOMAIN src \in Upstreams /\ upstream = DOMAIN src
      BY PipelineAssumption DEF Init
    <2>2. Typed(src)
      <3>1. SafeDefault \in Policy
        BY DEF SafeDefault, Policy
      <3> QED
        BY <2>1, <3>1, PipelineAssumption DEF Init, Typed
    <2>3. HidesUnreviewed(src, reviewed)
      BY <2>1 DEF Init, HidesUnreviewed, SafeDefault
    <2> QED
      BY <2>1, <2>2, <2>3, ScanHides DEF Init, Hiding
  <1>2. Hiding /\ [Next]_vars => Hiding'
    <2> SUFFICES ASSUME Hiding, [Next]_vars PROVE Hiding'
      OBVIOUS
    <2>1. ASSUME NEW u \in Upstreams, BumpHypershift(u) PROVE Hiding'
      BY <2>1 DEF BumpHypershift, Hiding, Typed, HidesUnreviewed
    <2>2. ASSUME NEW f \in Fields, NEW policy \in Policies, EditMarkers(f, policy) PROVE Hiding'
      BY <2>2, PipelineAssumption DEF EditMarkers, Hiding, Typed, HidesUnreviewed
    <2>3. CASE GenerateRegistryJson
      BY <2>3, ScanHides DEF GenerateRegistryJson, Run, Hiding, Typed, HidesUnreviewed
    <2>4. CASE GeneratePassthroughFile
      <3>1. DOMAIN src' = upstream /\ src' = GeneratePassthrough(upstream, regJson)
        BY <2>4 DEF GeneratePassthroughFile, GeneratePassthrough
      <3>2. Typed(src')
        <4>1. SafeDefault \in Policy
          BY DEF SafeDefault, Policy
        <4>2. \A path : getMarkersForField(regJson, path) \in Policy
          BY <4>1, DocParts DEF getMarkersForField, Hiding, Typed
        <4>3. \A f \in upstream : GeneratePassthrough(upstream, regJson)[f] \in Policy
          BY <4>2 DEF GeneratePassthrough
        <4> QED
          BY <3>1, <4>3, PipelineAssumption DEF Hiding, Typed
      <3>3. HidesUnreviewed(src', reviewed)
        BY <3>1, GeneratedIsHidden DEF Hiding, HidesUnreviewed
      <3> QED
        BY <2>4, <3>2, <3>3 DEF GeneratePassthroughFile, Run, Hiding, Typed, HidesUnreviewed
    <2>5. CASE UNCHANGED <<src, regJson, reviewed, upstream>>
      BY <2>5 DEF Hiding, Typed, HidesUnreviewed
    <2>6. ASSUME NEW g \in Goals, Start(g) PROVE UNCHANGED <<src, regJson, reviewed, upstream>>
      BY <2>6 DEF Start, repo
    <2>7. BuildTools \/ Clean \/ Interrupt \/ ValidationFails \/ GenerateRegistryGo
            \/ Manifests \/ ManifestsFail \/ GenerateOpenApi \/ BuildConversionGen \/ GenerateRest \/ GenerateServiceSetFields
          => UNCHANGED <<src, regJson, reviewed, upstream>>
      BY DEF BuildTools, Clean, Interrupt, ValidationFails, GenerateRegistryGo, Manifests,
             ManifestsFail, GenerateOpenApi, BuildConversionGen, GenerateRest, GenerateServiceSetFields, Run, repo
    <2>8. UNCHANGED vars => UNCHANGED <<src, regJson, reviewed, upstream>>
      BY DEF vars, repo
    <2> QED
      BY <2>1, <2>2, <2>3, <2>4, <2>5, <2>6, <2>7, <2>8 DEF Next, Step
  <1> QED
    BY <1>1, <1>2, PTL DEF Spec

(* New upstream fields of the first source type stay hidden until somebody *)
(* has marked them, after any history of bumps, edits and cut-off runs.    *)
THEOREM NewFieldsHidden == Spec => []NewFieldsStayHidden
  <1>1. Hiding => NewFieldsStayHidden
    BY DEF Hiding, HidesUnreviewed, NewFieldsStayHidden
  <1> QED
    BY <1>1, HidingInvariant, PTL

(* In a commit CI accepts the REST types have every field of the OpenAPI   *)
(* schema and none that is hidden by a marker above it, whatever the       *)
(* source holds: a field the registry does not know has no marker above    *)
(* it.  What they have besides is hidden by a marker behind it.            *)
THEOREM GreenSameFields == Spec => []GreenMeansSameFields
  <1>1. ASSUME Typed(src)
        PROVE  \A f \in DOMAIN src : RestVisible(f, Scan(src)) <=> ~src[f].hidden
    BY <1>1, DocParts DEF RestVisible, Scan, MarkedFields, HasMarker, Typed
  <1>2. ASSUME Typed(src)
        PROVE  DOMAIN RestTypes(src, Scan(src)) = {f \in DOMAIN src : ~src[f].hidden}
    BY <1>1, <1>2 DEF RestTypes
  <1>3. DOMAIN OpenApi(src) = {f \in DOMAIN src : ~src[f].hidden /\ ~src[f].trailing}
    BY DEF OpenApi, isHidden
  <1>4. ASSUME CIGreen
        PROVE  rest = RestTypes(src, Scan(src)) /\ openapi = OpenApi(src)
    BY <1>4 DEF CIGreen, RegistryUpToDate, ConversionUpToDate
  <1>5. Hiding => GreenMeansSameFields
    BY <1>2, <1>3, <1>4 DEF GreenMeansSameFields, Hiding
  <1> QED
    BY <1>5, HidingInvariant, PTL

(* In a commit CI accepts a service-set field of the REST types has its    *)
(* place in ServiceSetFields.                                              *)
THEOREM GreenOwned == Spec => []GreenMeansOwned
  <1>1. ASSUME Hiding, CIGreen, NEW f \in DOMAIN rest, rest[f].writeMode = "service-set"
        PROVE  f[2] \in ssf
    <2>1. f \in DOMAIN src /\ rest[f] = Doc(src[f]) /\ src[f] \in Policy
      BY <1>1 DEF CIGreen, ConversionUpToDate, RestTypes, Hiding, Typed
    <2>2. src[f].writeMode = "service-set"
      BY <1>1, <2>1, DocParts
    <2>3. f \in DOMAIN regGo /\ regGo[f] = Doc(src[f])
      BY <1>1, <2>1, <2>2 DEF CIGreen, RegistryUpToDate, Scan, MarkedFields, HasMarker, NoMode
    <2> QED
      BY <1>1, <2>1, <2>2, <2>3, DocParts DEF CIGreen, ConversionUpToDate, ServiceSetFields
  <1>2. Hiding => GreenMeansOwned
    BY <1>1 DEF GreenMeansOwned
  <1> QED
    BY <1>2, HidingInvariant, PTL

-----------------------------------------------------------------------------

StepNames == {"registry.go", "registry.json", "passthrough", "manifests", "openapi",
              "conversion-gen", "conversion.rest", "conversion.types"}

\* What the order needs to know of a list of 2, 4 and 2 steps.
Joined(s, a, b, c) ==
  /\ Len(s) = 8
  /\ s[1] = a[1] /\ s[2] = a[2]
  /\ s[3] = b[1] /\ s[4] = b[2] /\ s[5] = b[3] /\ s[6] = b[4]
  /\ s[7] = c[1] /\ s[8] = c[2]

\* The parts of a list of eight steps.
LEMMA ThreeParts ==
  ASSUME NEW S, NEW a \in Seq(S), NEW b \in Seq(S), NEW c \in Seq(S),
         Len(a) = 2, Len(b) = 4, Len(c) = 2
  PROVE  a \o b \o c \in Seq(S) /\ Joined(a \o b \o c, a, b, c)
  <1> DEFINE front == a \o b
             whole == front \o c
  <1>1. /\ front \in Seq(S) /\ Len(front) = Len(a) + Len(b)
        /\ \A i \in 1 .. Len(a) + Len(b) : front[i] = IF i <= Len(a) THEN a[i] ELSE b[i - Len(a)]
    BY ConcatProperties, Zenon
  <1> HIDE DEF front
  <1>2. /\ whole \in Seq(S) /\ Len(whole) = Len(front) + Len(c)
        /\ \A i \in 1 .. Len(front) + Len(c) :
             whole[i] = IF i <= Len(front) THEN front[i] ELSE c[i - Len(front)]
    <2>1. front \in Seq(S)
      BY <1>1
    <2> QED
      BY <2>1, ConcatProperties, Zenon
  <1>3. whole = a \o b \o c
    BY DEF front
  <1> HIDE DEF whole
  <1>4. Len(front) = 6 /\ Len(whole) = 8
    BY <1>1, <1>2
  <1>5. /\ whole[1] = a[1] /\ whole[2] = a[2]
        /\ whole[3] = b[1] /\ whole[4] = b[2] /\ whole[5] = b[3] /\ whole[6] = b[4]
    BY <1>1, <1>2, <1>4
  <1>6. whole[7] = c[1] /\ whole[8] = c[2]
    BY <1>2, <1>4
  <1>7. Joined(whole, a, b, c)
    BY <1>4, <1>5, <1>6 DEF Joined
  <1> QED
    BY <1>2, <1>3, <1>7, Zenon

\* The prerequisites of generate, in the order make runs them.
LEMMA GenerateOrder ==
  /\ generateSteps \in Seq(StepNames)
  /\ Len(generateSteps) = 8
  /\ generateSteps[2] = "registry.json"
  /\ \A i \in 1 .. 8 : generateSteps[i] = "passthrough" => i = 3
  /\ generateSteps[6] = "conversion-gen"
  /\ \A i \in 1 .. 6 : generateSteps[i] \notin {"conversion.rest", "conversion.types"}
  <1> DEFINE middle == <<"passthrough", "manifests", "openapi", "conversion-gen">>
  <1>1. /\ registrySteps \in Seq(StepNames) /\ Len(registrySteps) = 2
        /\ registrySteps[1] = "registry.go" /\ registrySteps[2] = "registry.json"
    <2>1. registrySteps \in Seq(StepNames)
      BY DEF registrySteps, StepNames
    <2>2. Len(registrySteps) = 2
      BY DEF registrySteps
    <2>3. registrySteps[1] = "registry.go" /\ registrySteps[2] = "registry.json"
      BY DEF registrySteps
    <2> QED
      BY <2>1, <2>2, <2>3
  <1>2. /\ middle \in Seq(StepNames) /\ Len(middle) = 4
        /\ middle[1] = "passthrough" /\ middle[2] = "manifests"
        /\ middle[3] = "openapi" /\ middle[4] = "conversion-gen"
    <2>1. middle \in Seq(StepNames)
      BY DEF StepNames
    <2>2. Len(middle) = 4
      OBVIOUS
    <2>3. /\ middle[1] = "passthrough" /\ middle[2] = "manifests"
          /\ middle[3] = "openapi" /\ middle[4] = "conversion-gen"
      OBVIOUS
    <2> QED
      BY <2>1, <2>2, <2>3
  <1>3. /\ conversionSteps \in Seq(StepNames) /\ Len(conversionSteps) = 2
        /\ conversionSteps[1] # "passthrough" /\ conversionSteps[2] # "passthrough"
    <2>1. conversionSteps \in Seq(StepNames)
      BY DEF conversionSteps, StepNames
    <2>2. Len(conversionSteps) = 2
      BY DEF conversionSteps
    <2>3. conversionSteps[1] = "conversion.rest" /\ conversionSteps[2] = "conversion.types"
      BY DEF conversionSteps
    <2> QED
      BY <2>1, <2>2, <2>3
  <1>4. generateSteps = registrySteps \o middle \o conversionSteps
    BY DEF generateSteps
  <1> HIDE DEF middle
  <1>5. generateSteps \in Seq(StepNames)
        /\ Joined(generateSteps, registrySteps, middle, conversionSteps)
    BY <1>1, <1>2, <1>3, <1>4, ThreeParts, Zenon
  <1>6. ASSUME NEW i \in 1 .. 8, i # 3 PROVE generateSteps[i] # "passthrough"
    <2>1. i = 1 \/ i = 2 \/ i = 4 \/ i = 5 \/ i = 6 \/ i = 7 \/ i = 8
      BY <1>6
    <2> QED
      BY <2>1, <1>1, <1>2, <1>3, <1>5 DEF Joined
  <1>7. ASSUME NEW i \in 1 .. 6
        PROVE  generateSteps[i] \notin {"conversion.rest", "conversion.types"}
    <2>1. i = 1 \/ i = 2 \/ i = 3 \/ i = 4 \/ i = 5 \/ i = 6
      BY <1>7
    <2> QED
      BY <2>1, <1>1, <1>2, <1>5 DEF Joined
  <1> QED
    BY <1>1, <1>2, <1>5, <1>6, <1>7 DEF Joined

(* make generate is at its i-th step, and when that is the passthrough     *)
(* file the registry file was written just before, from this source.       *)
At(i) ==
  /\ todo = SubSeq(generateSteps, i, 8)
  /\ i = 3 => regJson = Scan(src)

InOrder == goal = "generate" => \E i \in 1 .. 9 : At(i)

\* A suffix of the steps begins with the i-th and goes on with the next.
LEMMA Suffixes ==
  ASSUME NEW i \in 1 .. 8
  PROVE  /\ Head(SubSeq(generateSteps, i, 8)) = generateSteps[i]
         /\ Tail(SubSeq(generateSteps, i, 8)) = SubSeq(generateSteps, i + 1, 8)
  BY GenerateOrder, HeadTailOfSubSeq

\* Behind the eighth step there is none.
LEMMA NoSuffix == SubSeq(generateSteps, 9, 8) = <<>>
  BY SubSeqEmpty

\* A step of make goes from one place in the order to the next.
LEMMA NextStep ==
  ASSUME InOrder, goal = "generate", NEW step, Run(step)
  PROVE  \E i \in 1 .. 8 : At(i) /\ generateSteps[i] = step
                           /\ todo' = SubSeq(generateSteps, i + 1, 8)
  <1>1. PICK i \in 1 .. 9 : At(i)
    BY DEF InOrder
  <1>2. i # 9
    BY <1>1, NoSuffix DEF At, Run
  <1>3. i \in 1 .. 8
    BY <1>2
  <1> QED
    BY <1>1, <1>3, Suffixes DEF At, Run

\* A running make generate is at one place in its order, and writes the
\* passthrough file from a scan of the source as it is (Makefile:193-194).
THEOREM OrderInvariant == Spec => []InOrder
  <1>1. Init => InOrder
    BY DEF Init, InOrder, NoGoal
  <1>2. InOrder /\ [Next]_vars => InOrder'
    <2> SUFFICES ASSUME InOrder, [Next]_vars, goal' = "generate"
                 PROVE  \E i \in 1 .. 9 : At(i)'
      BY DEF InOrder
    <2>1. CASE UNCHANGED <<goal, todo, src, regJson>>
      BY <2>1 DEF InOrder, At
    <2>2. CASE Start("generate")
      <3>1. todo' = SubSeq(generateSteps, 1, 8)
        <4>1. todo' = generateSteps
          BY <2>2 DEF Start, Steps
        <4> QED
          BY <4>1, GenerateOrder, SubSeqFull
      <3> QED
        BY <3>1 DEF At
    <2>3. ASSUME NEW g \in Goals, Start(g) PROVE Start("generate")
      BY <2>3 DEF Start
    <2>4. ASSUME NEW u \in Upstreams, BumpHypershift(u) PROVE FALSE
      BY <2>4 DEF BumpHypershift, NoGoal
    <2>5. ASSUME NEW f \in Fields, NEW policy \in Policies, EditMarkers(f, policy) PROVE FALSE
      BY <2>5 DEF EditMarkers, NoGoal
    <2>6. CASE Interrupt \/ ValidationFails \/ ManifestsFail
      BY <2>6 DEF Interrupt, ValidationFails, ManifestsFail, NoGoal
    <2>7. CASE BuildTools \/ Clean
      BY <2>1, <2>7 DEF BuildTools, Clean
    <2>8. ASSUME NEW step, step # "registry.json", Run(step)
          PROVE  \E i \in 1 .. 9 : At(i)'
      <3>1. PICK i \in 1 .. 8 : /\ generateSteps[i] = step
                                /\ todo' = SubSeq(generateSteps, i + 1, 8)
        BY <2>8, NextStep DEF Run
      <3>2. i + 1 \in 1 .. 9 /\ i + 1 # 3
        BY <3>1, <2>8, GenerateOrder
      <3> QED
        BY <3>1, <3>2 DEF At
    <2>9. CASE GenerateRegistryJson
      <3>1. PICK i \in 1 .. 8 : todo' = SubSeq(generateSteps, i + 1, 8)
        BY <2>9, NextStep DEF GenerateRegistryJson, Run
      <3>2. regJson' = Scan(src)'
        BY <2>9 DEF GenerateRegistryJson, Scan, MarkedFields
      <3>3. i + 1 \in 1 .. 9
        OBVIOUS
      <3> QED
        BY <3>1, <3>2, <3>3 DEF At
    <2>10. CASE GenerateRegistryGo
      BY <2>8, <2>10 DEF GenerateRegistryGo
    <2>11. CASE GeneratePassthroughFile
      BY <2>8, <2>11 DEF GeneratePassthroughFile
    <2>12. CASE GenerateOpenApi
      BY <2>8, <2>12 DEF GenerateOpenApi
    <2>13. CASE BuildConversionGen
      BY <2>8, <2>13 DEF BuildConversionGen
    <2>14. CASE GenerateRest
      BY <2>8, <2>14 DEF GenerateRest
    <2>15. CASE GenerateServiceSetFields
      BY <2>8, <2>15 DEF GenerateServiceSetFields
    <2>16. CASE Manifests
      BY <2>8, <2>16 DEF Manifests
    <2>17. CASE UNCHANGED vars
      BY <2>1, <2>17 DEF vars, repo
    <2> QED
      BY <2>2, <2>3, <2>4, <2>5, <2>6, <2>7, <2>9, <2>10, <2>11, <2>12, <2>13, <2>14,
         <2>15, <2>16, <2>17 DEF Next, Step
  <1> QED
    BY <1>1, <1>2, PTL DEF Spec

(* What make generate writes back of a field of the first type is what the *)
(* developer wrote, provided that type yields a field prefix of its own.   *)
THEOREM GenerateKeeps ==
  ASSUME SourceTypes[1] \in SpecSuffixed
  PROVE  Spec => GenerateKeepsMarkers
  <1>1. FieldPrefix(SourceTypes[1]) = SourceTypes[1]
    BY FirstPrefix
  <1>2. ASSUME Hiding, InOrder, GeneratePassthroughFile, goal = "generate",
               NEW f \in DOMAIN src \cap DOMAIN src' \cap FirstTypeField, HasMarker(src[f])
        PROVE  /\ src'[f].hidden = src[f].hidden
               /\ src'[f].writeMode = src[f].writeMode
    <2>1. regJson = Scan(src)
      <3>1. PICK i \in 1 .. 8 : At(i) /\ generateSteps[i] = "passthrough"
        BY <1>2, NextStep DEF GeneratePassthroughFile
      <3>2. i = 3
        BY <3>1, GenerateOrder
      <3> QED
        BY <3>1, <3>2 DEF At
    <2>2. <<FieldPrefix(f[1]), f[2]>> = f
      <3>1. f \in TypeNames \X STRING /\ f[1] = SourceTypes[1]
        BY PipelineAssumption DEF FirstTypeField, Fields
      <3> QED
        BY <3>1, <1>1
    <2>3. src'[f] = getMarkersForField(regJson, f)
      BY <1>2, <2>2 DEF GeneratePassthroughFile, GeneratePassthrough
    <2>4. f \in DOMAIN regJson /\ regJson[f] = Doc(src[f])
      BY <1>2, <2>1 DEF Scan, MarkedFields
    <2>5. src'[f] = [Doc(src[f]) EXCEPT !.overrides = FALSE]
      BY <2>3, <2>4 DEF getMarkersForField
    <2>6. /\ [Doc(src[f]) EXCEPT !.overrides = FALSE].hidden = Doc(src[f]).hidden
          /\ [Doc(src[f]) EXCEPT !.overrides = FALSE].writeMode = Doc(src[f]).writeMode
          /\ Doc(src[f]).hidden = src[f].hidden /\ Doc(src[f]).writeMode = src[f].writeMode
      BY <1>2, DocParts DEF Hiding, Typed
    <2> QED
      BY <2>5, <2>6
  <1>3. Hiding /\ InOrder => [GeneratePassthroughFile /\ goal = "generate"
                    => \A f \in DOMAIN src \cap DOMAIN src' \cap FirstTypeField :
                         HasMarker(src[f]) =>
                           /\ src'[f].hidden = src[f].hidden
                           /\ src'[f].writeMode = src[f].writeMode]_vars
    BY <1>2
  <1> QED
    BY <1>3, HidingInvariant, OrderInvariant, PTL DEF GenerateKeepsMarkers

-----------------------------------------------------------------------------
(* The types of the files and the place of make in its goal.               *)

\* A table is a function from some of the fields.
LEMMA TableParts ==
  ASSUME NEW P, NEW t
  PROVE  t \in Table(P) <=> /\ DOMAIN t \subseteq Fields
                            /\ t = [f \in DOMAIN t |-> t[f]]
                            /\ \A f \in DOMAIN t : t[f] \in P
  <1>1. t \in Table(P) <=> \E S \in SUBSET Fields : t \in [S -> P]
    BY DEF Table
  <1> QED
    BY <1>1

\* Changing an entry of a table.
LEMMA EntryTyped ==
  ASSUME NEW P, NEW t \in Table(P), NEW f \in DOMAIN t, NEW v \in P
  PROVE  [t EXCEPT ![f] = v] \in Table(P) /\ DOMAIN [t EXCEPT ![f] = v] = DOMAIN t
  <1>1. DOMAIN t \subseteq Fields /\ t \in [DOMAIN t -> P]
    BY TableParts
  <1>2. [t EXCEPT ![f] = v] \in [DOMAIN t -> P]
    BY <1>1
  <1> QED
    BY <1>1, <1>2 DEF Table

\* A policy without its gate-aware overrides.
WithoutOverrides(p) == [p EXCEPT !.overrides = FALSE]

\* A registry has nothing that stands behind a field.
Registries == {r \in Table(SourcePolicies) : \A f \in DOMAIN r : r[f].trailing = FALSE}

\* The policies of a file are policies, and stay so above the field and
\* without their overrides.
LEMMA PolicyParts ==
  /\ SafeDefault \in SourcePolicies
  /\ \A p \in SourcePolicies : Doc(p) \in SourcePolicies
  /\ \A p \in SourcePolicies : p.trailing = FALSE => WithoutOverrides(p) \in SourcePolicies
  /\ \A p \in SourcePolicies : Doc(p).trailing = FALSE
  <1>1. /\ Policies \subseteq Policy
        /\ SourcePolicies = Policies \cup {SafeDefault} \cup {Doc(p) : p \in Policies}
                               \cup {WithoutOverrides(Doc(p)) : p \in Policies}
    BY PipelineAssumption DEF SourcePolicies, WithoutOverrides
  <1>2. ASSUME NEW p \in Policy
        PROVE  /\ Doc(p) \in Policy /\ WithoutOverrides(p) \in Policy
               /\ Doc(p).trailing = FALSE
               /\ WithoutOverrides(p).trailing = p.trailing
               /\ WithoutOverrides(p).overrides = FALSE
               /\ p.trailing = FALSE => Doc(p) = p
               /\ p.overrides = FALSE => WithoutOverrides(p) = p
    BY DEF Policy, Doc, WithoutOverrides
  <1>3. SafeDefault \in Policy /\ SafeDefault.trailing = FALSE /\ SafeDefault.overrides = FALSE
    BY DEF SafeDefault, Policy
  <1>4. Doc(SafeDefault) = SafeDefault /\ WithoutOverrides(SafeDefault) = SafeDefault
    BY <1>2, <1>3
  <1>5. ASSUME NEW p \in SourcePolicies
        PROVE  \/ p \in Policies \/ p = SafeDefault
               \/ \E q \in Policies : p = Doc(q)
               \/ \E q \in Policies : p = WithoutOverrides(Doc(q))
    BY <1>1
  <1>6. \A p \in Policies : /\ Doc(p) \in SourcePolicies
                            /\ WithoutOverrides(Doc(p)) \in SourcePolicies
    BY <1>1
  <1>7. SafeDefault \in SourcePolicies
    BY <1>1
  <1>8. ASSUME NEW p \in SourcePolicies
        PROVE  /\ Doc(p) \in SourcePolicies
               /\ p.trailing = FALSE => WithoutOverrides(p) \in SourcePolicies
               /\ Doc(p).trailing = FALSE
    <2>1. CASE p \in Policies
      BY <1>1, <1>2, <1>6, <2>1
    <2>2. CASE p = SafeDefault
      BY <1>3, <1>4, <1>7, <2>2
    <2>3. ASSUME NEW q \in Policies, p = Doc(q)
          PROVE  Doc(p) = p /\ p.trailing = FALSE /\ WithoutOverrides(p) \in SourcePolicies
      <3>1. q \in Policy /\ p \in Policy /\ p.trailing = FALSE
        BY <1>1, <1>2, <2>3
      <3> QED
        BY <1>2, <1>6, <2>3, <3>1
    <2>4. ASSUME NEW q \in Policies, p = WithoutOverrides(Doc(q))
          PROVE  Doc(p) = p /\ p.trailing = FALSE /\ WithoutOverrides(p) = p
      <3>1. q \in Policy /\ Doc(q) \in Policy /\ Doc(q).trailing = FALSE
        BY <1>1, <1>2
      <3>2. p \in Policy /\ p.trailing = FALSE /\ p.overrides = FALSE
        BY <1>2, <2>4, <3>1
      <3> QED
        BY <1>2, <3>2
    <2> QED
      BY <1>5, <2>1, <2>2, <2>3, <2>4
  <1> QED
    BY <1>7, <1>8

\* A registry is a table of policies of the source, each above its field.
LEMMA ScanTyped ==
  ASSUME NEW t \in Table(SourcePolicies)
  PROVE  Scan(t) \in Registries
  <1>1. DOMAIN Scan(t) = MarkedFields(t) /\ MarkedFields(t) \subseteq DOMAIN t
    BY DEF Scan, MarkedFields
  <1>2. \A f \in DOMAIN Scan(t) : Scan(t)[f] = Doc(t[f])
    BY <1>1 DEF Scan
  <1>3. Scan(t) = [f \in DOMAIN Scan(t) |-> Scan(t)[f]]
    BY DEF Scan
  <1>4. \A f \in DOMAIN Scan(t) : Scan(t)[f] \in SourcePolicies /\ Scan(t)[f].trailing = FALSE
    BY <1>1, <1>2, PolicyParts, TableParts
  <1>5. Scan(t) \in Table(SourcePolicies)
    BY <1>1, <1>3, <1>4, TableParts
  <1> QED
    BY <1>4, <1>5 DEF Registries

\* The schema is a table of policies of the source.
LEMMA OpenApiTyped ==
  ASSUME NEW t \in Table(SourcePolicies)
  PROVE  OpenApi(t) \in Table(SourcePolicies)
  <1>1. DOMAIN OpenApi(t) \subseteq DOMAIN t
    BY DEF OpenApi
  <1>2. \A f \in DOMAIN OpenApi(t) : OpenApi(t)[f] = Doc(t[f])
    BY DEF OpenApi
  <1>3. OpenApi(t) = [f \in DOMAIN OpenApi(t) |-> OpenApi(t)[f]]
    BY DEF OpenApi
  <1> QED
    BY <1>1, <1>2, <1>3, PolicyParts, TableParts

\* So are the REST types, whatever registry is compiled in.
LEMMA RestTyped ==
  ASSUME NEW t \in Table(SourcePolicies), NEW registry
  PROVE  RestTypes(t, registry) \in Table(SourcePolicies)
  <1> DEFINE r == RestTypes(t, registry)
  <1>1. DOMAIN r \subseteq DOMAIN t
    BY DEF RestTypes
  <1>2. \A f \in DOMAIN r : r[f] = Doc(t[f])
    BY DEF RestTypes
  <1>3. r = [f \in DOMAIN r |-> r[f]]
    BY DEF RestTypes
  <1>4. \A f \in DOMAIN r : r[f] \in SourcePolicies
    BY <1>1, <1>2, PolicyParts, TableParts
  <1>5. r \in Table(SourcePolicies)
    <2> HIDE DEF r
    <2> QED
      BY <1>1, <1>3, <1>4, TableParts
  <1> QED
    BY <1>5

\* The regenerated file is a table of policies of the source.
LEMMA PassthroughTyped ==
  ASSUME NEW u \in Upstreams, NEW registry \in Registries
  PROVE  GeneratePassthrough(u, registry) \in Table(SourcePolicies)
  <1> DEFINE g == GeneratePassthrough(u, registry)
  <1>1. ASSUME NEW path PROVE getMarkersForField(registry, path) \in SourcePolicies
    <2>1. CASE path \notin DOMAIN registry
      BY <2>1, PolicyParts DEF getMarkersForField
    <2>2. CASE path \in DOMAIN registry
      <3>1. registry[path] \in SourcePolicies /\ registry[path].trailing = FALSE
        BY <2>2, TableParts DEF Registries
      <3> QED
        BY <2>2, <3>1, PolicyParts DEF getMarkersForField, WithoutOverrides
    <2> QED
      BY <2>1, <2>2
  <1>2. \A f \in u : g[f] \in SourcePolicies
    BY <1>1 DEF GeneratePassthrough
  <1>3. DOMAIN g = u /\ u \subseteq Fields /\ g = [f \in DOMAIN g |-> g[f]]
    BY DEF GeneratePassthrough, Fields
  <1> QED
    BY <1>2, <1>3, TableParts

\* Both conversion steps of a goal come after the build of conversion-gen.
BuildsFirst(steps) ==
  \A i \in 1 .. Len(steps) :
    steps[i] \in {"conversion.rest", "conversion.types"} =>
      \E j \in 1 .. i - 1 : steps[j] = "conversion-gen"

\* Every goal builds conversion-gen before it runs it.
LEMMA GoalParts ==
  ASSUME NEW g \in Goals
  PROVE  Steps(g) \in Seq(StepNames) /\ BuildsFirst(Steps(g))
  <1>1. CASE g = "generate-registry"
    <2>1. Steps(g) = registrySteps
      BY <1>1 DEF Steps
    <2>2. registrySteps \in Seq(StepNames) /\ Len(registrySteps) = 2
          /\ registrySteps[1] = "registry.go" /\ registrySteps[2] = "registry.json"
      BY DEF registrySteps, StepNames
    <2> QED
      BY <2>1, <2>2 DEF BuildsFirst
  <1>2. CASE g = "generate-passthrough"
    <2> DEFINE s == <<"passthrough">>
    <2>1. Steps(g) = s
      BY <1>2 DEF Steps
    <2>2. s \in Seq(StepNames) /\ Len(s) = 1 /\ s[1] = "passthrough"
      BY DEF StepNames
    <2> HIDE DEF s
    <2> QED
      BY <2>1, <2>2 DEF BuildsFirst
  <1>3. CASE g = "generate-openapi"
    <2> DEFINE s == <<"openapi">>
    <2>1. Steps(g) = s
      BY <1>3 DEF Steps
    <2>2. s \in Seq(StepNames) /\ Len(s) = 1 /\ s[1] = "openapi"
      BY DEF StepNames
    <2> HIDE DEF s
    <2> QED
      BY <2>1, <2>2 DEF BuildsFirst
  <1>4. CASE g = "generate-conversion"
    <2> DEFINE s == <<"conversion-gen">>
               front == s \o registrySteps
    <2>1. Steps(g) = front \o conversionSteps
      BY <1>4 DEF Steps
    <2>2. s \in Seq(StepNames) /\ Len(s) = 1 /\ s[1] = "conversion-gen"
      BY DEF StepNames
    <2>3. registrySteps \in Seq(StepNames) /\ conversionSteps \in Seq(StepNames)
      BY DEF registrySteps, conversionSteps, StepNames
    <2> HIDE DEF s
    <2>4. /\ front \in Seq(StepNames) /\ Len(front) = Len(s) + Len(registrySteps)
          /\ \A i \in 1 .. Len(s) + Len(registrySteps) :
               front[i] = IF i <= Len(s) THEN s[i] ELSE registrySteps[i - Len(s)]
      BY <2>2, <2>3, ConcatProperties
    <2>5. Len(registrySteps) \in Nat /\ Len(conversionSteps) \in Nat
      BY <2>3, LenProperties
    <2>6. Len(front) \in Nat \ {0} /\ front[1] = "conversion-gen"
      BY <2>2, <2>4, <2>5
    <2> DEFINE all == front \o conversionSteps
    <2> HIDE DEF front
    <2>7. /\ all \in Seq(StepNames) /\ Len(all) = Len(front) + Len(conversionSteps)
          /\ \A i \in 1 .. Len(front) + Len(conversionSteps) :
               all[i] = IF i <= Len(front) THEN front[i] ELSE conversionSteps[i - Len(front)]
      <3>1. front \in Seq(StepNames)
        BY <2>4
      <3>2. conversionSteps \in Seq(StepNames)
        BY <2>3
      <3> QED
        BY <3>1, <3>2, ConcatProperties, Zenon
    <2>8. all[1] = "conversion-gen" /\ Len(all) \in Nat
      BY <2>5, <2>6, <2>7
    <2> HIDE DEF all
    <2>9. ASSUME NEW i \in 1 .. Len(all), all[i] \in {"conversion.rest", "conversion.types"}
          PROVE  1 \in 1 .. i - 1
      <3>1. i # 1
        BY <2>8, <2>9
      <3> QED
        BY <2>8, <3>1
    <2>10. BuildsFirst(all)
      BY <2>8, <2>9 DEF BuildsFirst
    <2> QED
      BY <2>1, <2>7, <2>10 DEF all
  <1>5. CASE g = "generate"
    <2>1. Steps(g) = generateSteps
      BY <1>5 DEF Steps
    <2> QED
      BY <2>1, GenerateOrder DEF BuildsFirst
  <1> QED
    BY <1>1, <1>2, <1>3, <1>4, <1>5 DEF Goals

(* What of a goal is left to do, and that conversion-gen is there once its *)
(* step is behind.                                                         *)
Left(steps, bin, left) ==
  \E i \in 1 .. Len(steps) + 1 :
    /\ left = SubSeq(steps, i, Len(steps))
    /\ bin = NoBin => \A j \in 1 .. i - 1 : steps[j] # "conversion-gen"

\* Nothing is left of some goal that never needs conversion-gen.
LEMMA NothingLeft == ASSUME NEW bin PROVE \E g \in Goals : Left(Steps(g), bin, <<>>)
  <1> DEFINE s == <<"openapi">>
  <1>1. "generate-openapi" \in Goals /\ Steps("generate-openapi") = s
    BY DEF Goals, Steps
  <1>2. Len(s) = 1 /\ s[1] # "conversion-gen"
    OBVIOUS
  <1>3. SubSeq(s, 2, 1) = <<>>
    BY SubSeqEmpty
  <1> HIDE DEF s
  <1>4. Left(s, bin, <<>>)
    BY <1>2, <1>3 DEF Left
  <1> QED
    BY <1>1, <1>4

\* When a conversion step is next, the tool is there.
LEMMA StepLeft ==
  ASSUME NEW steps \in Seq(StepNames), BuildsFirst(steps), NEW bin, NEW left,
         Left(steps, bin, left), left # <<>>
  PROVE  /\ Head(left) \in {"conversion.rest", "conversion.types"} => bin # NoBin
         /\ Head(left) # "conversion-gen" => Left(steps, bin, Tail(left))
         /\ \A other : other # NoBin => Left(steps, other, Tail(left))
  <1>1. PICK i \in 1 .. Len(steps) + 1 :
          /\ left = SubSeq(steps, i, Len(steps))
          /\ bin = NoBin => \A j \in 1 .. i - 1 : steps[j] # "conversion-gen"
    BY DEF Left
  <1>2. Len(steps) \in Nat
    BY LenProperties
  <1>3. i # Len(steps) + 1
    <2> SUFFICES ASSUME i = Len(steps) + 1 PROVE FALSE
      OBVIOUS
    <2>1. Len(steps) < i /\ i \in Int /\ Len(steps) \in Int
      BY <1>2
    <2> QED
      BY <1>1, <2>1, SubSeqEmpty
  <1>4. i \in 1 .. Len(steps) /\ Len(steps) \in i .. Len(steps) /\ i + 1 \in 1 .. Len(steps) + 1
    BY <1>2, <1>3
  <1>5. Head(left) = steps[i] /\ Tail(left) = SubSeq(steps, i + 1, Len(steps))
    BY <1>1, <1>4, HeadTailOfSubSeq
  <1>6. Head(left) \in {"conversion.rest", "conversion.types"} => bin # NoBin
    BY <1>1, <1>4, <1>5 DEF BuildsFirst
  <1>7. ASSUME Head(left) # "conversion-gen", bin = NoBin, NEW j \in 1 .. (i + 1) - 1
        PROVE  steps[j] # "conversion-gen"
    <2>1. j = i \/ j \in 1 .. i - 1
      BY <1>2, <1>4
    <2> QED
      BY <1>1, <1>5, <1>7, <2>1
  <1> QED
    BY <1>4, <1>5, <1>6, <1>7 DEF Left

Files ==
  /\ upstream \in Upstreams /\ DOMAIN src \in Upstreams
  /\ src \in Table(SourcePolicies) /\ regGo \in Table(SourcePolicies)
  /\ regJson \in Registries /\ openapi \in Table(SourcePolicies)
  /\ rest \in Table(SourcePolicies)
  /\ ssf \subseteq {f[2] : f \in Fields}
  /\ convBin \in Table(SourcePolicies) \cup {NoBin}
  /\ reviewed \subseteq Fields

Place == goal \in Goals \cup {NoGoal} /\ \E g \in Goals : Left(Steps(g), convBin, todo)

Counted == edits \in 0 .. MaxEdits /\ bumps \in 0 .. MaxBumps /\ interrupts \in 0 .. MaxInterrupts

Types == Files /\ Place /\ Counted

\* ServiceSetFields names fields.
LEMMA NamesTyped ==
  ASSUME NEW registry \in Table(SourcePolicies)
  PROVE  ServiceSetFields(registry) \subseteq {f[2] : f \in Fields}
  BY TableParts DEF ServiceSetFields

\* A fresh clone is well typed.
LEMMA InitTypes == Init => Types
  <1> SUFFICES ASSUME Init PROVE Types
    OBVIOUS
  <1>1. /\ DOMAIN src \in Upstreams /\ upstream = DOMAIN src
        /\ src \in [DOMAIN src -> Policies \cup {SafeDefault}]
    BY PipelineAssumption DEF Init
  <1>2. src \in Table(SourcePolicies)
    <2>1. DOMAIN src \subseteq Fields
      BY <1>1 DEF Fields
    <2>2. \A f \in DOMAIN src : src[f] \in SourcePolicies
      BY <1>1 DEF SourcePolicies
    <2>3. src = [f \in DOMAIN src |-> src[f]]
      BY <1>1
    <2> QED
      BY <2>1, <2>2, <2>3, TableParts
  <1>3. regGo \in Table(SourcePolicies) /\ regJson \in Registries
    BY <1>2, ScanTyped DEF Init, Registries
  <1>4. /\ openapi \in Table(SourcePolicies) /\ rest \in Table(SourcePolicies)
        /\ ssf \subseteq {f[2] : f \in Fields}
    BY <1>2, <1>3, OpenApiTyped, RestTyped, NamesTyped DEF Init
  <1>5. reviewed \subseteq Fields /\ convBin = NoBin
    BY <1>1 DEF Init, Fields
  <1>6. Files
    BY <1>1, <1>2, <1>3, <1>4, <1>5 DEF Files
  <1>7. Place
    BY NothingLeft DEF Init, Place
  <1>8. Counted
    BY PipelineAssumption DEF Init, Counted
  <1> QED
    BY <1>6, <1>7, <1>8 DEF Types

\* A step of make leaves the rest of its goal.
LEMMA RunLeft ==
  ASSUME Place, NEW step, Run(step)
  PROVE  /\ step \in {"conversion.rest", "conversion.types"} => convBin # NoBin
         /\ step # "conversion-gen" /\ convBin' = convBin => Place'
         /\ convBin' # NoBin => Place'
  <1>1. PICK g \in Goals : Left(Steps(g), convBin, todo)
    BY DEF Place
  <1>2. /\ todo # <<>> /\ Head(todo) = step /\ todo' = Tail(todo) /\ goal' = goal
    BY DEF Run
  <1>3. Steps(g) \in Seq(StepNames) /\ BuildsFirst(Steps(g))
    BY GoalParts
  <1> DEFINE steps == Steps(g)
  <1> HIDE DEF steps
  <1>4. /\ Head(todo) \in {"conversion.rest", "conversion.types"} => convBin # NoBin
        /\ Head(todo) # "conversion-gen" => Left(steps, convBin, Tail(todo))
        /\ \A other : other # NoBin => Left(steps, other, Tail(todo))
    <2>1. steps \in Seq(StepNames) /\ BuildsFirst(steps) /\ Left(steps, convBin, todo)
      BY <1>1, <1>3 DEF steps
    <2> QED
      BY <1>2, <2>1, StepLeft, Zenon
  <1>5. ASSUME Left(steps, convBin', todo') PROVE Place'
    BY <1>2, <1>5 DEF Place, steps
  <1> QED
    BY <1>2, <1>4, <1>5

\* Every file a step of make writes has its type.
LEMMA StepTypes == ASSUME Types, Step PROVE Types'
  <1>1. Files /\ Place /\ Counted
    BY DEF Types
  <1>2. UNCHANGED <<upstream, reviewed, counters>>
    BY DEF Step, ValidationFails, GenerateRegistryGo, GenerateRegistryJson,
           GeneratePassthroughFile, Manifests, ManifestsFail, GenerateOpenApi, BuildConversionGen, GenerateRest,
           GenerateServiceSetFields, Run, repo
  <1>3. Counted'
    BY <1>1, <1>2 DEF Counted, counters
  <1>4. CASE ValidationFails \/ ManifestsFail
    <2>1. todo' = <<>> /\ goal' = NoGoal /\ UNCHANGED <<repo, reviewed>>
      BY <1>4 DEF ValidationFails, ManifestsFail
    <2>2. Place'
      BY <2>1, NothingLeft DEF Place
    <2> QED
      BY <1>1, <1>3, <2>1, <2>2 DEF Types, Files, repo
  <1>5. CASE GenerateRegistryGo
    <2>1. Place'
      BY <1>1, <1>5, RunLeft DEF GenerateRegistryGo
    <2> QED
      BY <1>1, <1>2, <1>3, <1>5, <2>1, ScanTyped DEF GenerateRegistryGo, Types, Files, Registries
  <1>6. CASE GenerateRegistryJson
    <2>1. Place'
      BY <1>1, <1>6, RunLeft DEF GenerateRegistryJson
    <2> QED
      BY <1>1, <1>2, <1>3, <1>6, <2>1, ScanTyped DEF GenerateRegistryJson, Types, Files
  <1>7. CASE GeneratePassthroughFile
    <2>1. Place'
      BY <1>1, <1>7, RunLeft DEF GeneratePassthroughFile
    <2>2. DOMAIN src' = upstream
      BY <1>7 DEF GeneratePassthroughFile, GeneratePassthrough
    <2> QED
      BY <1>1, <1>2, <1>3, <1>7, <2>1, <2>2, PassthroughTyped
         DEF GeneratePassthroughFile, Types, Files
  <1>8. CASE GenerateOpenApi
    <2>1. Place'
      BY <1>1, <1>8, RunLeft DEF GenerateOpenApi
    <2> QED
      BY <1>1, <1>2, <1>3, <1>8, <2>1, OpenApiTyped DEF GenerateOpenApi, Types, Files
  <1>9. CASE BuildConversionGen
    <2>1. convBin' # NoBin \/ (convBin = NoBin /\ convBin' = regGo)
      BY <1>9 DEF BuildConversionGen
    <2>2. convBin' # NoBin
      BY <1>1, <2>1, NoBinAssumption DEF Files
    <2>3. Place'
      BY <1>1, <1>9, <2>2, RunLeft DEF BuildConversionGen
    <2> QED
      BY <1>1, <1>2, <1>3, <1>9, <2>3 DEF BuildConversionGen, Types, Files
  <1>10. CASE GenerateRest
    <2>1. Place'
      BY <1>1, <1>10, RunLeft DEF GenerateRest
    <2> QED
      BY <1>1, <1>2, <1>3, <1>10, <2>1, RestTyped DEF GenerateRest, Types, Files
  <1>11. CASE GenerateServiceSetFields
    <2>1. Place' /\ convBin # NoBin
      BY <1>1, <1>11, RunLeft DEF GenerateServiceSetFields
    <2> QED
      BY <1>1, <1>2, <1>3, <1>11, <2>1, NamesTyped DEF GenerateServiceSetFields, Types, Files
  <1>12. CASE Manifests
    <2>1. Place'
      BY <1>1, <1>12, RunLeft DEF Manifests
    <2> QED
      BY <1>1, <1>2, <1>3, <1>12, <2>1 DEF Manifests, Types, Files
  <1> QED
    BY <1>4, <1>5, <1>6, <1>7, <1>8, <1>9, <1>10, <1>11, <1>12 DEF Step

\* So has what developers, bumps, cleans and interruptions leave.
LEMMA DeveloperTypes ==
  ASSUME Types, [Next]_vars, ~Step
  PROVE  Types'
  <1>1. Files /\ Place /\ Counted
    BY DEF Types
  <1>2. ASSUME NEW u \in Upstreams, BumpHypershift(u) PROVE Types'
    <2>1. Place' /\ Files'
      BY <1>1, <1>2 DEF BumpHypershift, Place, Files
    <2>2. Counted'
      BY <1>1, <1>2, PipelineAssumption DEF BumpHypershift, Counted
    <2> QED
      BY <2>1, <2>2 DEF Types
  <1>3. ASSUME NEW f \in Fields, NEW policy \in Policies, EditMarkers(f, policy) PROVE Types'
    <2>1. src' = [src EXCEPT ![f] = policy] /\ f \in DOMAIN src /\ policy \in SourcePolicies
      BY <1>3 DEF EditMarkers, SourcePolicies
    <2>2. src' \in Table(SourcePolicies) /\ DOMAIN src' = DOMAIN src
      <3>1. src \in Table(SourcePolicies)
        BY <1>1 DEF Files
      <3> QED
        BY <2>1, <3>1, EntryTyped
    <2>3. Files'
      BY <1>1, <1>3, <2>2 DEF EditMarkers, Files
    <2>4. Place'
      BY <1>1, <1>3 DEF EditMarkers, Place
    <2>5. Counted'
      BY <1>1, <1>3, PipelineAssumption DEF EditMarkers, Counted
    <2> QED
      BY <2>3, <2>4, <2>5 DEF Types
  <1>4. CASE BuildTools \/ Clean
    <2>1. /\ todo' = todo /\ todo = <<>> /\ goal' = goal
          /\ convBin' \in Table(SourcePolicies) \cup {NoBin}
          /\ UNCHANGED <<upstream, src, regGo, regJson, openapi, rest, ssf, reviewed, counters>>
      BY <1>1, <1>4 DEF BuildTools, Clean, Idle, Files
    <2>2. Place'
      BY <1>1, <2>1, NothingLeft DEF Place
    <2> QED
      BY <1>1, <2>1, <2>2 DEF Types, Files, Counted, counters
  <1>5. ASSUME NEW g \in Goals, Start(g) PROVE Types'
    <2>1. todo' = Steps(g) /\ goal' = g /\ UNCHANGED <<repo, reviewed, counters>>
      BY <1>5 DEF Start
    <2>2. Left(Steps(g), convBin, Steps(g))
      <3>1. Steps(g) \in Seq(StepNames)
        BY GoalParts
      <3> DEFINE s == Steps(g)
      <3> HIDE DEF s
      <3>2. s = SubSeq(s, 1, Len(s)) /\ 1 \in 1 .. Len(s) + 1
        BY <3>1, SubSeqFull, LenProperties DEF s
      <3> QED
        BY <3>2 DEF Left, s
    <2>3. Place'
      BY <2>1, <2>2 DEF Place, repo
    <2> QED
      BY <1>1, <2>1, <2>3 DEF Types, Files, Counted, counters, repo
  <1>6. CASE Interrupt
    <2>1. todo' = <<>> /\ goal' = NoGoal /\ UNCHANGED <<repo, reviewed, edits, bumps>>
      BY <1>6 DEF Interrupt
    <2>2. Place'
      BY <2>1, NothingLeft DEF Place
    <2>3. Counted'
      BY <1>1, <1>6, PipelineAssumption DEF Interrupt, Counted
    <2> QED
      BY <1>1, <2>1, <2>2, <2>3 DEF Types, Files, repo
  <1>7. CASE UNCHANGED vars
    BY <1>1, <1>7 DEF vars, repo, counters, Types, Files, Place, Counted
  <1> QED
    BY <1>2, <1>3, <1>4, <1>5, <1>6, <1>7 DEF Next

(* The types of the files, of the compiled registry and of what make has   *)
(* still to do.                                                            *)
THEOREM PipelineTypeCorrect == Spec => []TypeOK
  <1>1. Types /\ [Next]_vars => Types'
    BY StepTypes, DeveloperTypes
  <1>2. Types => TypeOK
    BY DEF Types, Files, Place, Counted, Left, TypeOK, Registries
  <1> QED
    BY <1>1, <1>2, InitTypes, PTL DEF Spec

=============================================================================
