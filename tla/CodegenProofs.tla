---------------------------- MODULE CodegenProofs ----------------------------
(***************************************************************************)
(* The scan and the code generated from it, for every set of sources and   *)
(* every depth of the Go stack.                                            *)
(***************************************************************************)
EXTENDS Codegen, NatSets, SequenceTheorems, TLAPS

Struct(src) == Seq(STRING) \X Types(src)

Roots(src) == {<<(<<>>), t>> : t \in {u \in Types(src) : isRootType(u)}}

Nested(src, structs) ==
  UNION {{<<Append(s[1], f.name), f.type>> :
            f \in {g \in NamedFields(src, s[2]) : g.type \in Types(src)}} : s \in structs}

\* Arithmetic of the depth of the stack.
LEMMA NotLast ==
  ASSUME NEW n \in Nat, NEW k \in 1 .. n, k # n
  PROVE  k \in 1 .. n - 1
  OBVIOUS

\* One call more is at most one too deep.
LEMMA OneDeeper ==
  ASSUME NEW max \in Nat, NEW n \in 1 .. max
  PROVE  /\ n \in Nat
         /\ n = max => n + 1 = max + 1
         /\ n # max => n + 1 <= max
  OBVIOUS

\* A place on the stack is still one after a call.
LEMMA StillBelow ==
  ASSUME NEW n \in Nat, NEW k \in 1 .. n, NEW m, m = n \/ m = n + 1
  PROVE  k \in 1 .. m
  OBVIOUS

\* The fields of a type that is declared are struct fields.
LEMMA FieldTypes ==
  ASSUME NEW src \in Sources, NEW t \in Types(src)
  PROVE  /\ src.fields[t] \in Seq(StructField)
         /\ NamedFields(src, t) \subseteq StructField
  <1>1. src.fields[t] \in Seq(StructField)
    BY ScannerAssumption DEF IsSource, Types
  <1>2. \A i \in DOMAIN src.fields[t] : src.fields[t][i] \in StructField
    BY <1>1, ElementOfSeq, LenProperties
  <1> QED
    BY <1>1, <1>2 DEF NamedFields

\* A field of a struct type leads to a struct one level further down.
LEMMA NestedIn ==
  ASSUME NEW src, NEW structs, NEW s \in structs,
         NEW f \in {g \in NamedFields(src, s[2]) : g.type \in Types(src)}
  PROVE  <<Append(s[1], f.name), f.type>> \in Nested(src, structs)
  BY DEF Nested

\* The structs at each depth are what the recursion says.
LEMMA StructsUnfold ==
  ASSUME NEW src \in Sources
  PROVE  \A n \in 1 .. MaxDepth :
           StructsAt(src)[n] = IF n = 1 THEN Roots(src) ELSE Nested(src, StructsAt(src)[n - 1])
  <1> DEFINE D == SUBSET Struct(src)
             step == [p \in Nat \X D |-> Nested(src, p[2])]
  <1>0. MaxDepth \in Nat
    BY ScannerAssumption
  <1>1. Roots(src) \in D
    <2>1. <<>> \in Seq(STRING)
      BY EmptySeq, Zenon
    <2>2. ASSUME NEW t \in Types(src) PROVE <<(<<>>), t>> \in Struct(src)
      BY <2>1, Zenon DEF Struct
    <2>3. \A r \in Roots(src) : r \in Struct(src)
      BY <2>2, Zenon DEF Roots
    <2> QED
      BY <2>3
  <1>2. ASSUME NEW X \in D PROVE Nested(src, X) \in D
    <2> SUFFICES ASSUME NEW s \in X, NEW f \in NamedFields(src, s[2]), f.type \in Types(src)
                 PROVE  <<Append(s[1], f.name), f.type>> \in Struct(src)
      BY DEF Nested
    <2>1. s[1] \in Seq(STRING) /\ s[2] \in Types(src)
      BY <1>2 DEF Struct
    <2>2. f.name \in STRING
      BY <2>1, FieldTypes DEF StructField
    <2> QED
      BY <2>1, <2>2, AppendProperties DEF Struct
  <1>3. step \in [Nat \X D -> D]
    <2> HIDE DEF D
    <2>1. \A p \in Nat \X D : Nested(src, p[2]) \in D
      BY <1>2
    <2> QED
      BY <2>1
  <1>4. PICK g : Iterates(g, D, Roots(src), step, MaxDepth)
    <2> HIDE DEF D, step
    <2> QED
      BY <1>0, <1>1, <1>3, RecursiveFunction, Zenon
  <1>5. \A n \in 1 .. MaxDepth :
          g[n] = IF n = 1 THEN Roots(src) ELSE Nested(src, g[n - 1])
    <2> HIDE DEF D
    <2> TAKE n \in 1 .. MaxDepth
    <2>1. CASE n = 1
      BY <1>4, <2>1 DEF Iterates
    <2>2. CASE n # 1
      <3>1. n - 1 \in 1 .. MaxDepth /\ n \in Nat
        BY <1>0, <2>2
      <3>2. <<n, g[n - 1]>> \in Nat \X D
        BY <1>4, <3>1 DEF Iterates
      <3>3. step[<<n, g[n - 1]>>] = Nested(src, g[n - 1])
        BY <3>2
      <3> QED
        BY <1>4, <2>2, <3>3 DEF Iterates
    <2> QED
      BY <2>1, <2>2
  <1> DEFINE Def(at) == [n \in 1 .. MaxDepth |->
               IF n = 1 THEN Roots(src) ELSE Nested(src, at[n - 1])]
  <1>6. g = Def(g)
    <2>1. g = [n \in 1 .. MaxDepth |-> g[n]]
      <3> HIDE DEF D, step
      <3> QED
        BY <1>4 DEF Iterates
    <2> QED
      BY <1>5, <2>1
  <1>7. StructsAt(src) = CHOOSE at : at = Def(at)
    BY DEF StructsAt, Roots, Nested
  <1>8. StructsAt(src) = Def(StructsAt(src))
    <2> HIDE DEF Def
    <2> QED
      BY <1>6, <1>7, Zenon
  <1> QED
    BY <1>8

\* Structs lie under sequences of names, one shorter than their depth.
LEMMA StructsTyped ==
  ASSUME NEW src \in Sources
  PROVE  \A n \in 1 .. MaxDepth : \A s \in StructsAt(src)[n] :
           s \in Struct(src) /\ Len(s[1]) = n - 1
  <1> DEFINE S == {n \in Nat : \A s \in StructsAt(src)[n] : s \in Struct(src) /\ Len(s[1]) = n - 1}
  <1>0. MaxDepth \in Nat
    BY ScannerAssumption
  <1>1. MaxDepth > 0 => 1 \in S
    <2> SUFFICES ASSUME MaxDepth > 0, NEW s \in StructsAt(src)[1]
                 PROVE  s \in Struct(src) /\ Len(s[1]) = 0
      OBVIOUS
    <2>1. PICK t \in Types(src) : s = <<(<<>>), t>>
      <3>1. 1 \in 1 .. MaxDepth
        BY <1>0
      <3>2. s \in Roots(src)
        BY <3>1, StructsUnfold
      <3> QED
        BY <3>2, Zenon DEF Roots
    <2>2. <<>> \in Seq(STRING) /\ Len(<<>>) = 0
      BY EmptySeq, Zenon
    <2> QED
      BY <2>1, <2>2 DEF Struct
  <1>2. ASSUME NEW k \in 1 .. MaxDepth, k < MaxDepth, k \in S PROVE k + 1 \in S
    <2> SUFFICES ASSUME NEW r \in StructsAt(src)[k + 1]
                 PROVE  r \in Struct(src) /\ Len(r[1]) = k
      BY <1>0
    <2>1. r \in Nested(src, StructsAt(src)[k])
      <3>1. k + 1 \in 1 .. MaxDepth /\ k + 1 # 1 /\ (k + 1) - 1 = k
        BY <1>0, <1>2
      <3> QED
        BY <3>1, StructsUnfold
    <2>2. PICK s \in StructsAt(src)[k] : \E f \in NamedFields(src, s[2]) :
            f.type \in Types(src) /\ r = <<Append(s[1], f.name), f.type>>
      BY <2>1, Zenon DEF Nested
    <2>3. s[1] \in Seq(STRING) /\ s[2] \in Types(src) /\ Len(s[1]) = k - 1
      BY <1>2 DEF Struct
    <2>4. PICK f \in NamedFields(src, s[2]) :
            f.type \in Types(src) /\ r = <<Append(s[1], f.name), f.type>>
      BY <2>2
    <2>5. f.name \in STRING
      BY <2>3, FieldTypes DEF StructField
    <2>6. Append(s[1], f.name) \in Seq(STRING) /\ Len(Append(s[1], f.name)) = k
      BY <1>0, <2>3, <2>5, AppendProperties
    <2> QED
      BY <2>4, <2>6 DEF Struct
  <1> SUFFICES ASSUME NEW n \in 1 .. MaxDepth PROVE n \in S
    OBVIOUS
  <1> HIDE DEF S
  <1> QED
    BY <1>0, <1>1, <1>2, BoundedInduction

-----------------------------------------------------------------------------
(* The walk: what is on the stack is where the declarations are.           *)

Frame == [path : Seq(STRING), todo : Seq(StructField)]

WalkTyped ==
  /\ source \in Sources
  /\ filesLeft \subseteq Files(source)
  /\ cache = {t \in Types(source) : source.file[t] \notin filesLeft}
  /\ rootsLeft \subseteq {t \in cache : isRootType(t)}
  /\ stack \in Seq(Frame)
  /\ crashed \in BOOLEAN
  /\ IF crashed THEN Len(stack) = MaxDepth + 1 ELSE Len(stack) <= MaxDepth

\* A processStruct call has some of the last fields of a type to do.
Processes(src, frame, t) ==
  \E m \in 1 .. Len(src.fields[t]) + 1 :
    frame.todo = SubSeq(src.fields[t], m, Len(src.fields[t]))

OnStack ==
  \A k \in 1 .. Len(stack) : \E t \in cache :
    /\ Processes(source, stack[k], t)
    /\ k <= MaxDepth => <<stack[k].path, t>> \in StructsAt(source)[k]

RegisteredIsDeclared ==
  \A p \in DOMAIN registry :
    \E d \in Marked[source] : d.path = p /\ registry[p] = d.field.policy

Walk == WalkTyped /\ OnStack /\ RegisteredIsDeclared

\* A sequence without its last element.
LEMMA Front ==
  ASSUME NEW S, NEW seq \in Seq(S), seq # <<>>
  PROVE  /\ Len(seq) \in Nat \ {0}
         /\ seq[Len(seq)] \in S
         /\ SubSeq(seq, 1, Len(seq) - 1) \in Seq(S)
         /\ Len(SubSeq(seq, 1, Len(seq) - 1)) = Len(seq) - 1
         /\ \A k \in 1 .. Len(seq) - 1 : SubSeq(seq, 1, Len(seq) - 1)[k] = seq[k]
  <1>1. Len(seq) \in Nat \ {0}
    BY EmptySeq
  <1> DEFINE n == Len(seq) - 1
             front == SubSeq(seq, 1, n)
  <1>2. n \in Nat
    BY <1>1
  <1>3. \A i \in 1 .. n : seq[i] \in S
    BY <1>1, ElementOfSeq
  <1>4. seq[Len(seq)] \in S
    BY <1>1, ElementOfSeq
  <1> HIDE DEF n
  <1>5. /\ front \in Seq(S)
        /\ Len(front) = IF 1 <= n THEN n - 1 + 1 ELSE 0
        /\ \A i \in 1 .. n - 1 + 1 : front[i] = seq[1 + i - 1]
    BY <1>2, <1>3, SubSeqProperties
  <1> HIDE DEF front
  <1>6. Len(front) = n
    BY <1>2, <1>5
  <1>7. ASSUME NEW k \in 1 .. n PROVE front[k] = seq[k]
    <2>1. n - 1 + 1 = n /\ 1 + k - 1 = k
      BY <1>2
    <2> QED
      BY <1>5, <2>1
  <1> QED
    BY <1>1, <1>4, <1>5, <1>6, <1>7 DEF n, front

\* A call stack that is not empty has a top frame and the frames below it.
LEMMA StackParts ==
  ASSUME stack \in Seq(Frame), stack # <<>>
  PROVE  /\ Len(stack) \in Nat \ {0}
         /\ Top \in Frame
         /\ Callers \in Seq(Frame) /\ Len(Callers) = Len(stack) - 1
         /\ \A k \in 1 .. Len(stack) - 1 : Callers[k] = stack[k]
  BY Front, Zenon DEF Top, Callers

\* The top call has one field less to do.
Advanced == Append(Callers, [Top EXCEPT !.todo = Tail(@)])

\* A frame with another list of fields left has the path it had.
LEMMA FrameExcept ==
  ASSUME NEW frame \in Frame, NEW todo
  PROVE  [frame EXCEPT !.todo = todo] = [path |-> frame.path, todo |-> todo]
  BY DEF Frame

\* Taking one field off the top frame leaves the frames below alone.
LEMMA AdvancedParts ==
  ASSUME stack \in Seq(Frame), stack # <<>>, Top.todo # <<>>
  PROVE  /\ Head(Top.todo) \in StructField
         /\ Advanced \in Seq(Frame) /\ Len(Advanced) = Len(stack)
         /\ \A k \in 1 .. Len(stack) - 1 : Advanced[k] = stack[k]
         /\ Advanced[Len(stack)] = [path |-> Top.path, todo |-> Tail(Top.todo)]
  <1>1. Top.todo \in Seq(StructField) /\ Top.path \in Seq(STRING)
    BY StackParts DEF Frame
  <1>2. Head(Top.todo) \in StructField /\ Tail(Top.todo) \in Seq(StructField)
    BY <1>1, HeadTailProperties
  <1> DEFINE top == [Top EXCEPT !.todo = Tail(@)]
  <1>3. top = [path |-> Top.path, todo |-> Tail(Top.todo)]
    BY StackParts, FrameExcept, Zenon
  <1>4. top \in Frame
    BY <1>1, <1>2, <1>3 DEF Frame
  <1> HIDE DEF top
  <1>5. /\ Append(Callers, top) \in Seq(Frame)
        /\ Len(Append(Callers, top)) = Len(Callers) + 1
        /\ \A k \in 1 .. Len(Callers) : Append(Callers, top)[k] = Callers[k]
        /\ Append(Callers, top)[Len(Callers) + 1] = top
    BY <1>4, StackParts, AppendProperties
  <1>6. Advanced = Append(Callers, top)
    BY DEF Advanced, top
  <1> QED
    BY <1>2, <1>3, <1>5, <1>6, StackParts

\* A list of the last fields begins with one of them and goes on with the rest.
LEMMA LastFields ==
  ASSUME NEW S, NEW all \in Seq(S), NEW m \in 1 .. Len(all) + 1,
         SubSeq(all, m, Len(all)) # <<>>
  PROVE  /\ m \in 1 .. Len(all) /\ m \in DOMAIN all
         /\ m + 1 \in 1 .. Len(all) + 1
         /\ Head(SubSeq(all, m, Len(all))) = all[m]
         /\ Tail(SubSeq(all, m, Len(all))) = SubSeq(all, m + 1, Len(all))
  <1>1. Len(all) \in Nat /\ DOMAIN all = 1 .. Len(all)
    BY LenProperties
  <1>2. m # Len(all) + 1
    <2> SUFFICES ASSUME m = Len(all) + 1 PROVE FALSE
      OBVIOUS
    <2>1. Len(all) < m /\ m \in Int /\ Len(all) \in Int
      BY <1>1
    <2> QED
      BY <2>1, SubSeqEmpty
  <1>3. m \in 1 .. Len(all) /\ m + 1 \in 1 .. Len(all) + 1 /\ Len(all) \in m .. Len(all)
    BY <1>1, <1>2
  <1> QED
    BY <1>1, <1>3, HeadTailOfSubSeq

\* From a place within a list on, something is left.
LEMMA NotEmpty ==
  ASSUME NEW S, NEW all \in Seq(S), NEW m \in 1 .. Len(all)
  PROVE  SubSeq(all, m, Len(all)) # <<>>
  <1>1. Len(all) \in Nat /\ \A i \in m .. Len(all) : all[i] \in S
    BY LenProperties, ElementOfSeq
  <1>2. Len(SubSeq(all, m, Len(all))) = IF m <= Len(all) THEN Len(all) - m + 1 ELSE 0
    BY <1>1, SubSeqProperties
  <1>3. Len(SubSeq(all, m, Len(all))) # 0
    BY <1>1, <1>2
  <1> QED
    BY <1>3, EmptySeq, Zenon

(* What the field at the top of the stack is, and where it is declared.    *)
LEMMA TopField ==
  ASSUME Walk, ~crashed, stack # <<>>, Top.todo # <<>>
  PROVE  \E t \in cache :
           /\ Processes(source, [path |-> Top.path, todo |-> Tail(Top.todo)], t)
           /\ <<Top.path, t>> \in StructsAt(source)[Len(stack)]
           /\ Head(Top.todo).name # "" => Head(Top.todo) \in NamedFields(source, t)
  <1>1. Len(stack) \in 1 .. Len(stack) /\ Len(stack) \in 1 .. MaxDepth
    BY StackParts, ScannerAssumption DEF Walk, WalkTyped
  <1>2. PICK t \in cache :
          /\ Processes(source, Top, t)
          /\ <<Top.path, t>> \in StructsAt(source)[Len(stack)]
    <2>1. PICK t \in cache :
            /\ Processes(source, stack[Len(stack)], t)
            /\ Len(stack) <= MaxDepth =>
                 <<stack[Len(stack)].path, t>> \in StructsAt(source)[Len(stack)]
      BY <1>1, Zenon DEF Walk, OnStack
    <2> QED
      BY <1>1, <2>1 DEF Top, Walk, WalkTyped
  <1>3. source.fields[t] \in Seq(StructField)
    BY FieldTypes DEF Walk, WalkTyped
  <1>4. PICK m \in 1 .. Len(source.fields[t]) + 1 :
          Top.todo = SubSeq(source.fields[t], m, Len(source.fields[t]))
    BY <1>2 DEF Processes
  <1>5. /\ m \in DOMAIN source.fields[t]
        /\ m + 1 \in 1 .. Len(source.fields[t]) + 1
        /\ Head(Top.todo) = source.fields[t][m]
        /\ Tail(Top.todo) = SubSeq(source.fields[t], m + 1, Len(source.fields[t]))
    BY <1>3, <1>4, LastFields, Zenon
  <1>6. Head(Top.todo).name # "" => Head(Top.todo) \in NamedFields(source, t)
    BY <1>5, Zenon DEF NamedFields
  <1>7. Processes(source, [path |-> Top.path, todo |-> Tail(Top.todo)], t)
    BY <1>5 DEF Processes
  <1> QED
    BY <1>2, <1>6, <1>7

\* A named field of a struct at some depth is a declaration.
LEMMA Declares ==
  ASSUME NEW src \in Sources, NEW n \in 1 .. MaxDepth, NEW s \in StructsAt(src)[n],
         NEW f \in NamedFields(src, s[2])
  PROVE  [path |-> Append(s[1], f.name), type |-> s[2], field |-> f] \in Declarations[src]
  <1> DEFINE Of(r) == {[path |-> Append(r[1], g.name), type |-> r[2], field |-> g] :
                         g \in NamedFields(src, r[2])}
             all == UNION {StructsAt(src)[k] : k \in 1 .. MaxDepth}
  <1>1. Declarations[src] = UNION {Of(r) : r \in all}
    BY DEF Declarations
  <1>2. s \in all
    OBVIOUS
  <1>3. [path |-> Append(s[1], f.name), type |-> s[2], field |-> f] \in Of(s)
    OBVIOUS
  <1> QED
    <2> HIDE DEF Of, all
    <2> QED
      BY <1>1, <1>2, <1>3

\* The stack is deep enough for one call of each struct type.
LEMMA DepthPositive ==
  ASSUME NEW src \in Sources
  PROVE  /\ MaxDepth \in Nat \ {0}
         /\ IsFiniteSet(Types(src)) /\ Cardinality(Types(src)) + 1 \in 1 .. MaxDepth
  <1>1. /\ IsFiniteSet(Types(src)) /\ MaxDepth > Cardinality(Types(src)) /\ MaxDepth \in Nat
    BY ScannerAssumption DEF Types
  <1>2. Cardinality(Types(src)) \in Nat
    BY <1>1, FS_CardinalityType
  <1> QED
    BY <1>1, <1>2

\* A call starts with all the fields of the type.
LEMMA CallParts ==
  ASSUME source \in Sources, NEW t \in Types(source), NEW path \in Seq(STRING)
  PROVE  Call(path, t) \in Frame /\ Processes(source, Call(path, t), t)
  <1> DEFINE all == source.fields[t]
  <1>1. all \in Seq(StructField)
    BY FieldTypes
  <1>2. 1 \in 1 .. Len(all) + 1 /\ all = SubSeq(all, 1, Len(all))
    BY <1>1, LenProperties, SubSeqFull
  <1> QED
    BY <1>1, <1>2 DEF Call, Frame, Processes

\* An empty stack and an empty cache are a walk.
LEMMA InitWalks == Init => Walk
  <1> SUFFICES ASSUME Init PROVE Walk
    OBVIOUS
  <1>1. source \in Sources /\ filesLeft = Files(source) /\ cache = {} /\ rootsLeft = {}
        /\ crashed = FALSE /\ stack = <<>>
    BY DEF Init, ScanInit
  <1>2. stack \in Seq(Frame) /\ Len(stack) = 0
    BY <1>1, EmptySeq, Zenon
  <1>3. cache = {t \in Types(source) : source.file[t] \notin filesLeft}
    BY <1>1 DEF Files
  <1>4. DOMAIN registry = {}
    BY DEF Init, ScanInit
  <1>5. MaxDepth \in Nat
    BY ScannerAssumption
  <1>6. WalkTyped
    <2>1. IF crashed THEN Len(stack) = MaxDepth + 1 ELSE Len(stack) <= MaxDepth
      <3>1. Len(stack) <= MaxDepth
        BY <1>2, <1>5
      <3> QED
        BY <1>1, <3>1
    <2>2. source \in Sources /\ filesLeft \subseteq Files(source) /\ crashed \in BOOLEAN
      BY <1>1
    <2>3. rootsLeft \subseteq {t \in cache : isRootType(t)}
      BY <1>1
    <2> QED
      BY <1>2, <1>3, <2>1, <2>2, <2>3, Zenon DEF WalkTyped
  <1>7. OnStack
    BY <1>2 DEF OnStack
  <1> QED
    BY <1>4, <1>6, <1>7 DEF Walk, RegisteredIsDeclared

\* Parsing a file adds its types to the cache while no call is open.
LEMMA ScanFileWalks ==
  ASSUME Walk, NEW file \in filesLeft, ScanFile(file)
  PROVE  Walk'
  <1>1. /\ filesLeft' = filesLeft \ {file} /\ stack = <<>> /\ rootsLeft = {}
        /\ cache' = cache \cup {t \in Types(source) : source.file[t] = file}
        /\ rootsLeft' = {t \in cache' : isRootType(t)}
        /\ UNCHANGED <<source, stack, registry, crashed>>
    BY DEF ScanFile, FileDone
  <1>2. cache' = {t \in Types(source) : source.file[t] \notin filesLeft'}
    BY <1>1 DEF Walk, WalkTyped
  <1>3. WalkTyped'
    BY <1>1, <1>2 DEF Walk, WalkTyped
  <1>4. OnStack'
    <2>1. Len(stack') = 0
      BY <1>1, EmptySeq, Zenon
    <2> QED
      BY <2>1 DEF OnStack
  <1>5. RegisteredIsDeclared'
    BY <1>1 DEF Walk, RegisteredIsDeclared
  <1> QED
    BY <1>3, <1>4, <1>5 DEF Walk

\* The call for a root type is the first frame.
LEMMA ProcessRootWalks ==
  ASSUME Walk, NEW type \in rootsLeft, processRoot(type)
  PROVE  Walk'
  <1>1. /\ stack' = <<Call(<<>>, type)>> /\ rootsLeft' = rootsLeft \ {type} /\ ~crashed
        /\ UNCHANGED <<source, filesLeft, cache, registry, crashed>>
    BY DEF processRoot
  <1>2. source \in Sources /\ type \in cache /\ type \in Types(source) /\ isRootType(type)
    BY DEF Walk, WalkTyped
  <1>3. Call(<<>>, type) \in Frame /\ Processes(source, Call(<<>>, type), type)
    <2>1. <<>> \in Seq(STRING)
      BY EmptySeq, Zenon
    <2> QED
      BY <1>2, <2>1, CallParts
  <1>4. stack' \in Seq(Frame) /\ Len(stack') = 1 /\ stack'[1] = Call(<<>>, type)
    <2> DEFINE call == Call(<<>>, type)
    <2> HIDE DEF call
    <2>1. call \in Frame /\ stack' = <<call>>
      BY <1>1, <1>3 DEF call
    <2> QED
      BY <2>1 DEF call
  <1>5. WalkTyped'
    <2>1. Len(stack') <= MaxDepth
      BY <1>2, <1>4, DepthPositive
    <2> QED
      BY <1>1, <1>4, <2>1 DEF Walk, WalkTyped
  <1>6. OnStack'
    <2>1. <<(<<>>), type>> \in StructsAt(source)[1]
      <3>1. 1 \in 1 .. MaxDepth
        BY <1>2, DepthPositive
      <3>2. <<(<<>>), type>> \in Roots(source)
        BY <1>2 DEF Roots
      <3> QED
        BY <1>2, <3>1, <3>2, StructsUnfold
    <2>2. ASSUME NEW k \in 1 .. Len(stack')
          PROVE  /\ Processes(source', stack'[k], type)
                 /\ <<stack'[k].path, type>> \in StructsAt(source')[k]
      <3>1. k = 1 /\ stack'[k] = Call(<<>>, type)
        BY <1>4
      <3>2. Processes(source', stack'[k], type)
        BY <1>1, <1>3, <3>1
      <3>3. stack'[k].path = <<>>
        BY <3>1 DEF Call
      <3> QED
        BY <1>1, <2>1, <3>1, <3>2, <3>3
    <2>3. type \in cache'
      BY <1>1, <1>2
    <2> QED
      BY <2>2, <2>3, Zenon DEF OnStack
  <1>7. RegisteredIsDeclared'
    BY <1>1 DEF Walk, RegisteredIsDeclared
  <1> QED
    BY <1>5, <1>6, <1>7 DEF Walk

\* The end of a processStruct call leaves the frames of its callers.
LEMMA ReturnWalks ==
  ASSUME Walk, return
  PROVE  Walk'
  <1>1. /\ stack # <<>> /\ ~crashed /\ stack' = Callers
        /\ UNCHANGED <<source, filesLeft, cache, rootsLeft, registry, crashed>>
    BY DEF return
  <1>2. /\ stack' \in Seq(Frame) /\ Len(stack') = Len(stack) - 1 /\ Len(stack) \in Nat
        /\ \A k \in 1 .. Len(stack) - 1 : stack'[k] = stack[k]
    BY <1>1, StackParts DEF Walk, WalkTyped
  <1>3. WalkTyped'
    <2>1. MaxDepth \in Nat /\ Len(stack) <= MaxDepth
      BY <1>1, ScannerAssumption DEF Walk, WalkTyped
    <2>2. Len(stack') <= MaxDepth
      BY <1>2, <2>1
    <2> QED
      BY <1>1, <1>2, <2>2 DEF Walk, WalkTyped
  <1>4. OnStack'
    <2>1. ASSUME NEW k \in 1 .. Len(stack')
          PROVE  k \in 1 .. Len(stack) /\ stack'[k] = stack[k]
      BY <1>2
    <2> QED
      BY <1>1, <2>1 DEF Walk, OnStack
  <1>5. RegisteredIsDeclared'
    BY <1>1 DEF Walk, RegisteredIsDeclared
  <1> QED
    BY <1>3, <1>4, <1>5 DEF Walk

\* The two outcomes of processField: a nested call, or none.
LEMMA FieldStep ==
  ASSUME processField
  PROVE  /\ stack # <<>> /\ ~crashed /\ Top.todo # <<>>
         /\ registry' = IF Head(Top.todo).name # "" /\ Registers(Head(Top.todo))
                          THEN Register(Append(Top.path, Head(Top.todo).name), Head(Top.todo).policy)
                          ELSE registry
         /\ \/ /\ Head(Top.todo).name # "" /\ Head(Top.todo).type \in cache
               /\ crashed' = (Len(stack) = MaxDepth)
               /\ stack' = Append(Advanced, Call(Append(Top.path, Head(Top.todo).name),
                                                 Head(Top.todo).type))
            \/ /\ ~(Head(Top.todo).name # "" /\ Head(Top.todo).type \in cache)
               /\ crashed' = crashed
               /\ stack' = Advanced
         /\ UNCHANGED <<source, filesLeft, cache, rootsLeft>>
  BY DEF processField, Advanced

\* A field is registered under the path of its struct, and the call for its
\* type is one level deeper.
LEMMA ProcessFieldWalks ==
  ASSUME Walk, processField
  PROVE  Walk'
  <1> DEFINE field == Head(Top.todo)
             path == Append(Top.path, field.name)
  <1>1. /\ stack # <<>> /\ ~crashed /\ Top.todo # <<>>
        /\ UNCHANGED <<source, filesLeft, cache, rootsLeft>>
    BY FieldStep
  <1>2. /\ source \in Sources /\ cache \subseteq Types(source)
        /\ Len(stack) \in 1 .. MaxDepth /\ MaxDepth \in Nat
    <2>1. MaxDepth \in Nat /\ Len(stack) <= MaxDepth
      BY <1>1, ScannerAssumption DEF Walk, WalkTyped
    <2>2. Len(stack) \in Nat \ {0}
      BY <1>1, StackParts DEF Walk, WalkTyped
    <2>3. source \in Sources /\ cache \subseteq Types(source)
      BY DEF Walk, WalkTyped
    <2> QED
      BY <2>1, <2>2, <2>3
  <1>3. /\ field \in StructField
        /\ Advanced \in Seq(Frame) /\ Len(Advanced) = Len(stack)
        /\ \A k \in 1 .. Len(stack) - 1 : Advanced[k] = stack[k]
        /\ Advanced[Len(stack)] = [path |-> Top.path, todo |-> Tail(Top.todo)]
    BY <1>1, AdvancedParts DEF Walk, WalkTyped
  <1>4. PICK t \in cache :
          /\ Processes(source, [path |-> Top.path, todo |-> Tail(Top.todo)], t)
          /\ <<Top.path, t>> \in StructsAt(source)[Len(stack)]
          /\ field.name # "" => field \in NamedFields(source, t)
    BY <1>1, TopField
  <1>5. path \in Seq(STRING)
    <2>1. Top.path \in Seq(STRING)
      BY <1>1, StackParts DEF Walk, WalkTyped, Frame
    <2>2. field.name \in STRING
      BY <1>3 DEF StructField
    <2> QED
      BY <2>1, <2>2, AppendProperties
  <1> HIDE DEF field, path
  <1>6. ASSUME NEW k \in 1 .. Len(stack)
        PROVE  \E u \in cache :
                 /\ Processes(source, Advanced[k], u)
                 /\ k <= MaxDepth => <<Advanced[k].path, u>> \in StructsAt(source)[k]
    <2>1. CASE k = Len(stack)
      <3>1. Advanced[k] = [path |-> Top.path, todo |-> Tail(Top.todo)]
        BY <1>3, <2>1
      <3>2. Advanced[k].path = Top.path
        BY <3>1
      <3>3. Processes(source, Advanced[k], t) /\ <<Advanced[k].path, t>> \in StructsAt(source)[k]
        BY <1>4, <2>1, <3>1, <3>2
      <3> QED
        BY <3>3
    <2>2. CASE k # Len(stack)
      <3>1. k \in 1 .. Len(stack) - 1
        BY <1>2, <2>2, OneDeeper, NotLast, Zenon
      <3>2. Advanced[k] = stack[k]
        BY <1>3, <3>1
      <3>3. OnStack
        BY DEF Walk
      <3> QED
        BY <3>2, <3>3, Zenon DEF OnStack
    <2> QED
      BY <2>1, <2>2
  <1>7. ASSUME field.name # "", field.type \in cache,
               stack' = Append(Advanced, Call(path, field.type)),
               crashed' = (Len(stack) = MaxDepth)
        PROVE  WalkTyped' /\ OnStack'
    <2> DEFINE call == Call(path, field.type)
    <2>1. call \in Frame /\ Processes(source, call, field.type) /\ call.path = path
      <3>1. field.type \in Types(source)
        BY <1>2, <1>7
      <3> QED
        BY <1>2, <1>5, <3>1, CallParts DEF Call
    <2> HIDE DEF call
    <2>2. /\ stack' \in Seq(Frame) /\ Len(stack') = Len(stack) + 1
          /\ \A k \in 1 .. Len(stack) : stack'[k] = Advanced[k]
          /\ stack'[Len(stack) + 1] = call
      <3>1. stack' = Append(Advanced, call)
        BY <1>7 DEF call
      <3> QED
        BY <1>3, <2>1, <3>1, AppendProperties
    <2>3. WalkTyped'
      <3>1. IF crashed' THEN Len(stack') = MaxDepth + 1 ELSE Len(stack') <= MaxDepth
        <4>1. Len(stack') = Len(stack) + 1 /\ (crashed' <=> Len(stack) = MaxDepth)
          BY <1>7, <2>2
        <4>2. /\ Len(stack) = MaxDepth => Len(stack) + 1 = MaxDepth + 1
              /\ Len(stack) # MaxDepth => Len(stack) + 1 <= MaxDepth
          BY <1>2, OneDeeper, Zenon
        <4> QED
          BY <4>1, <4>2, Zenon
      <3>2. crashed' \in BOOLEAN
        BY <1>7
      <3> QED
        BY <1>1, <2>2, <3>1, <3>2 DEF Walk, WalkTyped
    <2>4. Len(stack) + 1 <= MaxDepth => <<path, field.type>> \in StructsAt(source)[Len(stack) + 1]
      <3> SUFFICES ASSUME Len(stack) + 1 <= MaxDepth
                   PROVE  <<path, field.type>> \in StructsAt(source)[Len(stack) + 1]
        OBVIOUS
      <3>1. /\ Len(stack) + 1 \in 1 .. MaxDepth /\ Len(stack) + 1 # 1
            /\ (Len(stack) + 1) - 1 = Len(stack)
        BY <1>2
      <3>2. StructsAt(source)[Len(stack) + 1] = Nested(source, StructsAt(source)[Len(stack)])
        BY <1>2, <3>1, StructsUnfold
      <3>3. <<path, field.type>> \in Nested(source, StructsAt(source)[Len(stack)])
        <4> DEFINE s == <<Top.path, t>>
        <4>1. field \in {g \in NamedFields(source, s[2]) : g.type \in Types(source)}
          BY <1>2, <1>4, <1>7
        <4>2. <<path, field.type>> = <<Append(s[1], field.name), field.type>>
          BY DEF path
        <4>3. s \in StructsAt(source)[Len(stack)]
          BY <1>4
        <4> HIDE DEF s
        <4> QED
          BY <4>1, <4>2, <4>3, NestedIn, Zenon
      <3> QED
        BY <3>2, <3>3
    <2>5. OnStack'
      <3> SUFFICES ASSUME NEW k \in 1 .. Len(stack) + 1
                   PROVE  \E u \in cache :
                            /\ Processes(source, stack'[k], u)
                            /\ k <= MaxDepth => <<stack'[k].path, u>> \in StructsAt(source)[k]
        BY <1>1, <2>2 DEF OnStack
      <3>1. CASE k = Len(stack) + 1
        BY <1>7, <2>1, <2>2, <2>4, <3>1
      <3>2. CASE k # Len(stack) + 1
        <4>1. k \in 1 .. Len(stack)
          BY <1>2, <3>2
        <4> QED
          BY <1>6, <2>2, <4>1
      <3> QED
        BY <3>1, <3>2
    <2> QED
      BY <2>3, <2>5
  <1>8. ASSUME stack' = Advanced, crashed' = crashed
        PROVE  WalkTyped' /\ OnStack'
    <2>1. Len(stack') = Len(stack)
      BY <1>3, <1>8
    <2>2. OnStack'
      BY <1>1, <1>6, <1>8, <2>1 DEF OnStack
    <2>3. WalkTyped'
      BY <1>1, <1>2, <1>3, <1>8, <2>1 DEF Walk, WalkTyped
    <2> QED
      BY <2>2, <2>3
  <1>9. RegisteredIsDeclared'
    <2>1. CASE registry' = registry
      BY <1>1, <2>1 DEF Walk, RegisteredIsDeclared
    <2>2. CASE field.name # "" /\ Registers(field) /\ registry' = Register(path, field.policy)
      <3> DEFINE d == [path |-> path, type |-> t, field |-> field]
      <3>1. d \in Marked[source]
        <4> DEFINE s == <<Top.path, t>>
        <4>1. s \in StructsAt(source)[Len(stack)] /\ field \in NamedFields(source, s[2])
          BY <1>4, <2>2
        <4>2. d = [path |-> Append(s[1], field.name), type |-> s[2], field |-> field]
          BY DEF path
        <4> HIDE DEF s, d
        <4>3. d \in Declarations[source]
          BY <1>2, <4>1, <4>2, Declares
        <4> QED
          BY <1>2, <2>2, <4>3 DEF Marked, d
      <3>2. ASSUME NEW p \in DOMAIN registry'
            PROVE  \E e \in Marked[source] : e.path = p /\ registry'[p] = e.field.policy
        <4>1. CASE p = path
          <5>1. registry'[p] = field.policy
            BY <2>2, <4>1 DEF Register
          <5> QED
            BY <3>1, <4>1, <5>1
        <4>2. CASE p # path
          <5>1. p \in DOMAIN registry /\ registry'[p] = registry[p]
            BY <2>2, <4>2 DEF Register
          <5> QED
            BY <5>1 DEF Walk, RegisteredIsDeclared
        <4> QED
          BY <4>1, <4>2
      <3> QED
        BY <1>1, <3>2 DEF RegisteredIsDeclared
    <2> QED
      BY <2>1, <2>2, FieldStep DEF field, path
  <1> QED
    BY <1>7, <1>8, <1>9, FieldStep DEF Walk, field, path

\* Every step, of the scanner or of the generator, keeps the walk.
LEMMA WalkStep == ASSUME Walk, [Next]_vars PROVE Walk'
  <1>1. CASE UNCHANGED scanVars
    BY <1>1 DEF scanVars, Walk, WalkTyped, OnStack, RegisteredIsDeclared
  <1>2. Generate \/ UNCHANGED vars => UNCHANGED scanVars
    BY DEF Generate, vars
  <1>3. ScanNext => Walk'
    BY ScanFileWalks, ProcessRootWalks, ProcessFieldWalks, ReturnWalks DEF ScanNext
  <1> QED
    BY <1>1, <1>2, <1>3 DEF Next

\* What the scan found so far is declared, wherever it is.
THEOREM WalkInvariant == Spec => []Walk
  <1>1. Walk /\ [Next]_vars => Walk'
    BY WalkStep
  <1> QED
    BY <1>1, InitWalks, PTL DEF Spec

-----------------------------------------------------------------------------
(* What follows from the walk alone.                                       *)

\* A declared field lies in a struct that is reached at the depth of its path.
LEMMA DeclaredParts ==
  ASSUME NEW src \in Sources, NEW d \in Declarations[src]
  PROVE  \E n \in 1 .. MaxDepth :
           /\ d.path \in Seq(STRING) /\ Len(d.path) = n
           /\ d.path[n] = d.field.name
           /\ d.type \in Types(src) /\ d.field \in NamedFields(src, d.type)
           /\ \E p \in Seq(STRING) : d.path = Append(p, d.field.name)
                                      /\ <<p, d.type>> \in StructsAt(src)[n]
  <1> DEFINE Of(r) == {[path |-> Append(r[1], g.name), type |-> r[2], field |-> g] :
                         g \in NamedFields(src, r[2])}
             all == UNION {StructsAt(src)[k] : k \in 1 .. MaxDepth}
  <1>1. d \in UNION {Of(r) : r \in all}
    BY DEF Declarations
  <1>2. PICK s \in all : d \in Of(s)
    <2> HIDE DEF Of, all
    <2> QED
      BY <1>1
  <1>3. PICK n \in 1 .. MaxDepth : s \in StructsAt(src)[n]
    BY <1>2
  <1>4. PICK f \in NamedFields(src, s[2]) :
          d = [path |-> Append(s[1], f.name), type |-> s[2], field |-> f]
    BY <1>2
  <1> HIDE DEF Of, all
  <1>5. s[1] \in Seq(STRING) /\ s[2] \in Types(src) /\ s = <<s[1], s[2]>> /\ Len(s[1]) = n - 1
    BY <1>3, StructsTyped DEF Struct
  <1>6. f.name \in STRING
    BY <1>4, <1>5, FieldTypes DEF StructField
  <1>7. /\ Append(s[1], f.name) \in Seq(STRING) /\ Len(Append(s[1], f.name)) = (n - 1) + 1
        /\ Append(s[1], f.name)[(n - 1) + 1] = f.name
    BY <1>5, <1>6, AppendProperties
  <1>8. (n - 1) + 1 = n
    BY <1>3, ScannerAssumption
  <1>9. <<s[1], s[2]>> \in StructsAt(src)[n]
    BY <1>3, <1>5
  <1>10. d.path = Append(s[1], f.name) /\ d.type = s[2] /\ d.field = f
    BY <1>4
  <1> QED
    BY <1>4, <1>5, <1>7, <1>8, <1>9, <1>10

\* Once generated, the scan is over and the outputs are those of its registry.
Outputs ==
  IF generated
    THEN /\ Done
         /\ rest = generateRESTTypes(source, registry)
         /\ ssf = generateServiceSetFields(source, registry)
         /\ project = Projected(source, registry)
         /\ unproject = Unprojected(source, registry)
         /\ enrich = Enriched(source, registry)
    ELSE rest = Nothing /\ enrich = Nothing

\* What the generator has written is what it makes of the finished registry,
\* and nothing is there before.
THEOREM OutputsInvariant == Spec => [](generated \in BOOLEAN /\ Outputs)
  <1> DEFINE Inv == generated \in BOOLEAN /\ Outputs
  <1>1. Init => Inv
    BY DEF Init, Outputs
  <1>2. Inv /\ [Next]_vars => Inv'
    <2> SUFFICES ASSUME Inv, [Next]_vars PROVE Inv'
      OBVIOUS
    <2>1. CASE Generate
      BY <2>1 DEF Generate, Outputs, scanVars, Done, FileDone
    <2>2. CASE ScanNext /\ UNCHANGED genVars
      <3>1. Done => ~ScanNext
        BY DEF Done, FileDone, ScanNext, ScanFile, processRoot, processField, return
      <3> QED
        BY <2>2, <3>1 DEF Outputs, genVars
    <2>3. CASE UNCHANGED vars
      BY <2>3 DEF vars, scanVars, genVars, Outputs, Done, FileDone
    <2> QED
      BY <2>1, <2>2, <2>3 DEF Next
  <1> QED
    BY <1>1, <1>2, PTL DEF Spec

(* The types of the scan and of what is generated.                         *)
THEOREM CodegenTypeCorrect == Spec => []TypeOK
  <1>1. Walk /\ generated \in BOOLEAN /\ Outputs => TypeOK
    <2> SUFFICES ASSUME Walk, generated \in BOOLEAN, Outputs PROVE TypeOK
      OBVIOUS
    <2>1. /\ source \in Sources /\ filesLeft \subseteq Files(source)
          /\ cache \subseteq Types(source) /\ rootsLeft \subseteq cache /\ crashed \in BOOLEAN
          /\ stack \in Seq(Frame)
      BY DEF Walk, WalkTyped
    <2>2. Len(stack) <= MaxDepth + 1
      <3>1. MaxDepth \in Nat /\ Len(stack) \in Nat
        BY <2>1, LenProperties, ScannerAssumption
      <3> QED
        BY <3>1 DEF Walk, WalkTyped
    <2>3. \A i \in DOMAIN stack : \E t \in cache : \E k \in 1 .. Len(source.fields[t]) + 1 :
            stack[i].todo = SubSeq(source.fields[t], k, Len(source.fields[t]))
      <3>1. DOMAIN stack = 1 .. Len(stack)
        BY <2>1, LenProperties
      <3> QED
        BY <3>1, Zenon DEF Walk, OnStack, Processes
    <2>4. ASSUME NEW p \in DOMAIN registry
          PROVE  Len(p) <= MaxDepth + 1 /\ registry[p] \in Policy
      <3>1. PICK d \in Marked[source] : d.path = p /\ registry[p] = d.field.policy
        BY DEF Walk, RegisteredIsDeclared
      <3>2. d \in Declarations[source]
        BY <2>1 DEF Marked
      <3>3. Len(p) \in 1 .. MaxDepth /\ d.field \in StructField
        BY <2>1, <3>1, <3>2, DeclaredParts, FieldTypes
      <3>4. Len(p) <= MaxDepth + 1
        BY <3>3, ScannerAssumption
      <3> QED
        BY <3>1, <3>3, <3>4 DEF StructField, DocPolicy
    <2>5. DOMAIN rest \subseteq Types(source) /\ DOMAIN enrich \subseteq DOMAIN project
      <3>1. CASE generated
        BY <3>1 DEF Outputs, generateRESTTypes, RestTypeNames, Enriched, Projected
      <3>2. CASE ~generated
        BY <3>2 DEF Outputs, Nothing
      <3> QED
        BY <3>1, <3>2
    <2> QED
      BY <2>1, <2>2, <2>3, <2>4, <2>5 DEF TypeOK
  <1> QED
    BY <1>1, WalkInvariant, OutputsInvariant, PTL

(* The stack overflows only for a type that contains itself.               *)
THEOREM CrashMeansCycle == Spec => [](crashed => source \in Cyclic)
  <1>1. ASSUME Walk, crashed PROVE source \in Cyclic
    <2> DEFINE n == Cardinality(Types(source)) + 1
    <2>1. source \in Sources /\ Len(stack) = MaxDepth + 1
      BY <1>1 DEF Walk, WalkTyped
    <2>2. n \in 1 .. MaxDepth /\ MaxDepth \in Nat
      BY <2>1, DepthPositive
    <2> HIDE DEF n
    <2>3. n \in 1 .. Len(stack) /\ n <= MaxDepth
      BY <2>1, <2>2
    <2>4. PICK t \in cache : <<stack[n].path, t>> \in StructsAt(source)[n]
      BY <1>1, <2>3 DEF Walk, OnStack
    <2> QED
      BY <2>1, <2>4 DEF Cyclic, n
  <1> QED
    BY <1>1, WalkInvariant, PTL

-----------------------------------------------------------------------------
(* The walk from the last file on leaves nothing out.  The structs it has  *)
(* been called for are in no variable; that there is such a set is enough: *)
(* each of their fields has been processed, or is still to do on the stack.*)

Waits(src, calls, s, i) ==
  \E k \in 1 .. Len(calls) : \E m \in 1 .. i :
    /\ calls[k].path = s[1]
    /\ calls[k].todo = SubSeq(src.fields[s[2]], m, Len(src.fields[s[2]]))

Processed(src, reg, called, s, f) ==
  /\ Registers(f) => Append(s[1], f.name) \in DOMAIN reg
  /\ f.type \in Types(src) => <<Append(s[1], f.name), f.type>> \in called

Covers(src, calls, roots, reg, called) ==
  /\ called \subseteq Struct(src)
  /\ \A s \in called : Len(s[1]) < MaxDepth
  /\ \A t \in Types(src) : isRootType(t) /\ t \notin roots => <<(<<>>), t>> \in called
  /\ \A s \in called : \A i \in DOMAIN src.fields[s[2]] :
       src.fields[s[2]][i].name # "" =>
         \/ Processed(src, reg, called, s, src.fields[s[2]][i])
         \/ Waits(src, calls, s, i)

Complete ==
  filesLeft = {} /\ ~crashed => \E called : Covers(source, stack, rootsLeft, registry, called)

\* What the walk says of the sizes of things.
LEMMA WalkParts ==
  ASSUME Walk
  PROVE  /\ source \in Sources /\ stack \in Seq(Frame) /\ Len(stack) \in Nat
         /\ MaxDepth \in Nat
         /\ \A k \in 1 .. Len(stack) : stack[k] \in Frame
         /\ filesLeft = {} => cache = Types(source)
         /\ ~crashed => Len(stack) <= MaxDepth
  <1>1. source \in Sources /\ stack \in Seq(Frame)
    BY DEF Walk, WalkTyped
  <1>2. Len(stack) \in Nat /\ \A k \in 1 .. Len(stack) : stack[k] \in Frame
    BY <1>1, LenProperties, ElementOfSeq
  <1>3. filesLeft = {} => cache = Types(source)
    BY DEF Walk, WalkTyped
  <1> QED
    BY <1>1, <1>2, <1>3, ScannerAssumption DEF Walk, WalkTyped

\* Before the first file is parsed there is nothing to cover.
LEMMA InitCovers == Init => Complete
  <1> SUFFICES ASSUME Init, filesLeft = {} PROVE Covers(source, stack, rootsLeft, registry, {})
    BY DEF Complete
  <1>1. \A t \in Types(source) : source.file[t] \in Files(source)
    BY DEF Files
  <1>2. Types(source) = {}
    BY <1>1 DEF Init, ScanInit
  <1> QED
    BY <1>2 DEF Covers

\* When the last file is parsed, the root types of all files are still to come.
LEMMA ScanFileCovers ==
  ASSUME Walk, NEW file \in filesLeft, ScanFile(file), filesLeft' = {}
  PROVE  Covers(source', stack', rootsLeft', registry', {})
  <1>1. rootsLeft' = {t \in cache' : isRootType(t)} /\ cache' = Types(source')
    BY ScanFileWalks, WalkParts DEF ScanFile, Walk, WalkTyped
  <1> QED
    BY <1>1 DEF Covers

\* A call that ends had no field left, so nothing waits for it.
LEMMA ReturnCovers ==
  ASSUME Walk, return,
         NEW called, Covers(source, stack, rootsLeft, registry, called)
  PROVE  Covers(source', stack', rootsLeft', registry', called)
  <1>1. /\ stack # <<>> /\ Top.todo = <<>> /\ stack' = Callers
        /\ UNCHANGED <<source, rootsLeft, registry>>
    BY DEF return
  <1>2. /\ Len(stack) \in Nat /\ Len(stack') = Len(stack) - 1
        /\ \A k \in 1 .. Len(stack) - 1 : stack'[k] = stack[k]
    BY <1>1, StackParts, WalkParts
  <1>3. ASSUME NEW s \in called, NEW i \in DOMAIN source.fields[s[2]], Waits(source, stack, s, i)
        PROVE  Waits(source', stack', s, i)
    <2> DEFINE all == source.fields[s[2]]
    <2>1. PICK k \in 1 .. Len(stack), m \in 1 .. i :
            stack[k].path = s[1] /\ stack[k].todo = SubSeq(all, m, Len(all))
      BY <1>3 DEF Waits
    <2>2. all \in Seq(StructField) /\ i \in 1 .. Len(all) /\ Len(all) \in Nat
      <3>1. all \in Seq(StructField)
        BY <1>3, FieldTypes, WalkParts DEF Covers, Struct
      <3> QED
        BY <1>3, <3>1, LenProperties
    <2>3. k # Len(stack)
      <3> SUFFICES ASSUME k = Len(stack) PROVE FALSE
        OBVIOUS
      <3>1. SubSeq(all, m, Len(all)) = <<>>
        BY <1>1, <2>1 DEF Top
      <3>2. m \in 1 .. Len(all)
        BY <2>1, <2>2
      <3> HIDE DEF all
      <3> QED
        BY <2>2, <3>1, <3>2, NotEmpty
    <2>4. k \in 1 .. Len(stack') /\ stack'[k] = stack[k]
      BY <1>2, <2>1, <2>3
    <2> QED
      BY <1>1, <2>1, <2>4 DEF Waits
  <1> QED
    BY <1>1, <1>3 DEF Covers, Processed

\* A root type is off the list of roots and its call is open.
LEMMA ProcessRootCovers ==
  ASSUME Walk, NEW type \in rootsLeft, processRoot(type),
         NEW called, Covers(source, stack, rootsLeft, registry, called)
  PROVE  Covers(source', stack', rootsLeft', registry', called \cup {<<(<<>>), type>>})
  <1> DEFINE new == <<(<<>>), type>>
             more == called \cup {new}
  <1>1. /\ stack = <<>> /\ stack' = <<Call(<<>>, type)>> /\ rootsLeft' = rootsLeft \ {type}
        /\ UNCHANGED <<source, registry>>
    BY DEF processRoot
  <1>2. source \in Sources /\ type \in Types(source)
    BY DEF Walk, WalkTyped
  <1>3. <<>> \in Seq(STRING) /\ Len(<<>>) = 0
    BY EmptySeq, Zenon
  <1>4. new \in Struct(source) /\ Len(new[1]) < MaxDepth
    <2>1. new \in Struct(source)
      BY <1>2, <1>3 DEF Struct
    <2>2. 0 < MaxDepth
      BY <1>2, DepthPositive
    <2>3. Len(new[1]) = 0
      BY <1>3
    <2> QED
      BY <2>1, <2>2, <2>3
  <1>5. ASSUME NEW s \in called, NEW i PROVE ~Waits(source, stack, s, i)
    <2>1. Len(stack) = 0
      BY <1>1, <1>3, Zenon
    <2> QED
      BY <2>1 DEF Waits
  <1>6. ASSUME NEW i \in DOMAIN source.fields[type] PROVE Waits(source', stack', new, i)
    <2> DEFINE all == source.fields[type]
    <2>1. all \in Seq(StructField) /\ DOMAIN all = 1 .. Len(all) /\ Len(all) \in Nat
      BY <1>2, FieldTypes, LenProperties
    <2>2. SubSeq(all, 1, Len(all)) = all /\ 1 \in 1 .. i
      BY <2>1, SubSeqFull
    <2>3. Call(<<>>, type).path = <<>> /\ Call(<<>>, type).todo = all
      BY DEF Call
    <2> DEFINE call == Call(<<>>, type)
    <2> HIDE DEF call
    <2>4. stack' = <<call>>
      BY <1>1 DEF call
    <2>5. 1 \in 1 .. Len(stack') /\ stack'[1] = call
      BY <2>4
    <2>6. new[1] = <<>> /\ new[2] = type
      OBVIOUS
    <2> HIDE DEF new
    <2> QED
      BY <1>1, <2>2, <2>3, <2>5, <2>6 DEF Waits, call
  <1>7. ASSUME NEW t \in Types(source), isRootType(t), t \notin rootsLeft'
        PROVE  <<(<<>>), t>> \in more
    BY <1>1, <1>7 DEF Covers
  <1>8. ASSUME NEW s \in more, NEW i \in DOMAIN source.fields[s[2]],
               source.fields[s[2]][i].name # ""
        PROVE  Processed(source, registry, more, s, source.fields[s[2]][i]) \/ Waits(source', stack', s, i)
    <2>1. CASE s = new
      BY <1>6, <1>8, <2>1
    <2>2. CASE s \in called
      BY <1>5, <1>8, <2>2 DEF Covers, Processed
    <2> QED
      BY <2>1, <2>2
  <1>9. ASSUME NEW s, NEW f PROVE Processed(source, registry, more, s, f) => Processed(source', registry', more, s, f)
    BY <1>1 DEF Processed
  <1> HIDE DEF new
  <1>10. more \subseteq Struct(source) /\ \A s \in more : Len(s[1]) < MaxDepth
    BY <1>4 DEF Covers
  <1>11. Covers(source', stack', rootsLeft', registry', more)
    <2> HIDE DEF more
    <2> QED
      BY <1>1, <1>7, <1>8, <1>9, <1>10 DEF Covers
  <1> QED
    BY <1>11 DEF new

\* A field that is taken is registered, if it has to be, and the call for its
\* type is open.
LEMMA ProcessFieldCovers ==
  ASSUME Walk, processField, filesLeft = {}, ~crashed',
         NEW called, Covers(source, stack, rootsLeft, registry, called)
  PROVE  \E more : Covers(source', stack', rootsLeft', registry', more)
  <1> DEFINE field == Head(Top.todo)
             path == Append(Top.path, field.name)
             nested == field.name # "" /\ field.type \in Types(source)
             new == <<path, field.type>>
             more == IF nested THEN called \cup {new} ELSE called
  <1>1. /\ stack # <<>> /\ ~crashed /\ Top.todo # <<>>
        /\ UNCHANGED <<source, cache, rootsLeft>>
    BY FieldStep
  <1>2. /\ source \in Sources /\ cache = Types(source)
        /\ Len(stack) \in 1 .. MaxDepth /\ MaxDepth \in Nat
    <2>1. /\ source \in Sources /\ cache = Types(source) /\ MaxDepth \in Nat
          /\ Len(stack) <= MaxDepth
      BY <1>1, WalkParts
    <2>2. Len(stack) \in Nat \ {0}
      BY <1>1, StackParts, WalkParts
    <2> QED
      BY <2>1, <2>2
  <1>3. /\ field \in StructField
        /\ Advanced \in Seq(Frame) /\ Len(Advanced) = Len(stack)
        /\ \A k \in 1 .. Len(stack) - 1 : Advanced[k] = stack[k]
        /\ Advanced[Len(stack)] = [path |-> Top.path, todo |-> Tail(Top.todo)]
    BY <1>1, AdvancedParts, WalkParts
  <1>4. Top.path \in Seq(STRING) /\ Len(Top.path) = Len(stack) - 1
    <2>1. PICK t \in cache : <<Top.path, t>> \in StructsAt(source)[Len(stack)]
      BY <1>1, TopField
    <2>2. <<Top.path, t>> \in Struct(source) /\ Len(<<Top.path, t>>[1]) = Len(stack) - 1
      BY <1>2, <2>1, StructsTyped, Zenon
    <2>3. <<Top.path, t>>[1] = Top.path /\ Top.path \in Seq(STRING)
      BY <2>2 DEF Struct
    <2> QED
      BY <2>2, <2>3, Zenon
  <1>5. path \in Seq(STRING) /\ Len(path) = Len(stack)
    <2>1. field.name \in STRING
      BY <1>3 DEF StructField
    <2>2. path \in Seq(STRING) /\ Len(path) = (Len(stack) - 1) + 1
      BY <1>4, <2>1, AppendProperties
    <2> QED
      BY <1>2, <2>2
  <1>6. /\ registry' = IF field.name # "" /\ Registers(field)
                         THEN Register(path, field.policy) ELSE registry
        /\ IF nested THEN /\ crashed' = (Len(stack) = MaxDepth)
                          /\ stack' = Append(Advanced, Call(path, field.type))
                     ELSE stack' = Advanced
    BY <1>2, FieldStep
  <1> HIDE DEF field, path
  <1>7. /\ stack' \in Seq(Frame) /\ Len(stack') = IF nested THEN Len(stack) + 1 ELSE Len(stack)
        /\ \A k \in 1 .. Len(stack) : stack'[k] = Advanced[k]
        /\ nested => stack'[Len(stack) + 1] = Call(path, field.type)
    <2>1. CASE nested
      <3> DEFINE call == Call(path, field.type)
      <3>1. call \in Frame
        BY <1>2, <1>5, <2>1, CallParts
      <3>2. stack' = Append(Advanced, call)
        BY <1>6, <2>1
      <3> HIDE DEF call
      <3>3. /\ stack' \in Seq(Frame) /\ Len(stack') = Len(stack) + 1
            /\ \A k \in 1 .. Len(stack) : stack'[k] = Advanced[k]
            /\ stack'[Len(stack) + 1] = call
        BY <1>3, <3>1, <3>2, AppendProperties
      <3> QED
        BY <2>1, <3>3 DEF call
    <2>2. CASE ~nested
      <3>1. stack' = Advanced
        BY <1>6, <2>2
      <3> QED
        BY <1>3, <2>2, <3>1
    <2> QED
      BY <2>1, <2>2
  <1>8. /\ \A p \in DOMAIN registry : p \in DOMAIN registry'
        /\ field.name # "" /\ Registers(field) => path \in DOMAIN registry'
    BY <1>6 DEF Register
  <1>9. \A s \in called : s \in more
    OBVIOUS
  <1>10. ASSUME NEW s \in called, NEW f, Processed(source, registry, called, s, f)
         PROVE  Processed(source', registry', more, s, f)
    <2> HIDE DEF more
    <2> QED
      BY <1>1, <1>8, <1>9, <1>10 DEF Processed
  <1>11. nested => new \in more
    OBVIOUS
  <1>12. ASSUME NEW s \in called, NEW i \in DOMAIN source.fields[s[2]],
                source.fields[s[2]][i].name # "", Waits(source, stack, s, i)
         PROVE  Processed(source', registry', more, s, source.fields[s[2]][i]) \/ Waits(source', stack', s, i)
    <2> DEFINE all == source.fields[s[2]]
    <2>1. PICK k \in 1 .. Len(stack), m \in 1 .. i :
            stack[k].path = s[1] /\ stack[k].todo = SubSeq(all, m, Len(all))
      BY <1>12 DEF Waits
    <2>2. all \in Seq(StructField) /\ i \in 1 .. Len(all) /\ Len(all) \in Nat
      <3>1. all \in Seq(StructField)
        BY <1>12, FieldTypes, WalkParts DEF Covers, Struct
      <3> QED
        BY <1>12, <3>1, LenProperties
    <2>3. k \in 1 .. Len(stack')
      <3>1. Len(stack') = Len(stack) \/ Len(stack') = Len(stack) + 1
        BY <1>7
      <3>2. Len(stack) \in Nat
        BY <1>2
      <3> QED
        BY <2>1, <3>1, <3>2, StillBelow, Zenon
    <2>4. CASE k # Len(stack)
      <3>1. Len(stack) \in Nat
        BY <1>2
      <3>2. k \in 1 .. Len(stack) - 1
        BY <2>1, <2>4, <3>1, NotLast, Zenon
      <3>3. stack'[k] = stack[k]
        BY <1>3, <1>7, <2>1, <3>2
      <3> QED
        BY <1>1, <2>1, <2>3, <3>3 DEF Waits
    <2>5. CASE k = Len(stack)
      <3>1. s[1] = Top.path /\ Top.todo = SubSeq(all, m, Len(all))
        BY <2>1, <2>5 DEF Top
      <3>2. m \in 1 .. Len(all) + 1
        BY <2>1, <2>2
      <3>3. field = all[m] /\ Tail(Top.todo) = SubSeq(all, m + 1, Len(all))
        <4> HIDE DEF all
        <4> QED
          BY <1>1, <2>2, <3>1, <3>2, LastFields, Zenon DEF field
      <3>4. CASE m = i
        <4>1. field = all[i] /\ path = Append(s[1], all[i].name)
          BY <3>1, <3>3, <3>4 DEF path
        <4>2. field.name # ""
          BY <1>12, <4>1
        <4>3. Registers(all[i]) => Append(s[1], all[i].name) \in DOMAIN registry'
          BY <1>8, <4>1, <4>2
        <4>4. all[i].type \in Types(source) => <<Append(s[1], all[i].name), all[i].type>> \in more
          <5>1. all[i].type \in Types(source) => nested
            BY <4>1, <4>2
          <5> HIDE DEF nested, more
          <5> QED
            BY <1>11, <4>1, <5>1
        <4> HIDE DEF more
        <4> QED
          BY <1>1, <4>3, <4>4 DEF Processed
      <3>5. CASE m # i
        <4>1. m + 1 \in 1 .. i
          BY <2>1, <2>2, <3>5
        <4>2. stack'[k] = [path |-> Top.path, todo |-> Tail(Top.todo)]
          BY <1>3, <1>7, <2>1, <2>5
        <4>3. stack'[k].path = s[1] /\ stack'[k].todo = SubSeq(all, m + 1, Len(all))
          BY <3>1, <3>3, <4>2
        <4> QED
          BY <1>1, <2>3, <4>1, <4>3 DEF Waits
      <3> QED
        BY <3>4, <3>5
    <2> QED
      BY <2>4, <2>5
  <1>13. ASSUME nested PROVE new \in Struct(source) /\ Len(new[1]) < MaxDepth
    <2>1. Len(stack) # MaxDepth
      BY <1>6, <1>13
    <2>2. Len(path) < MaxDepth
      BY <1>2, <1>5, <2>1
    <2>3. new[1] = path /\ new \in Struct(source)
      BY <1>5, <1>13 DEF Struct
    <2> QED
      BY <2>2, <2>3
  <1>14. ASSUME nested, NEW i \in DOMAIN source.fields[field.type] PROVE Waits(source', stack', new, i)
    <2> DEFINE all == source.fields[field.type]
    <2>1. all \in Seq(StructField) /\ DOMAIN all = 1 .. Len(all) /\ Len(all) \in Nat
      BY <1>2, <1>14, FieldTypes, LenProperties
    <2>2. SubSeq(all, 1, Len(all)) = all /\ 1 \in 1 .. i
      <3>1. SubSeq(all, 1, Len(all)) = all
        BY <2>1, SubSeqFull
      <3>2. i \in 1 .. Len(all)
        BY <1>14, <2>1
      <3> QED
        BY <2>1, <3>1, <3>2
    <2>3. Len(stack) + 1 \in 1 .. Len(stack')
      <3>1. Len(stack') = Len(stack) + 1
        BY <1>7, <1>14
      <3> QED
        BY <1>2, <3>1
    <2>4. stack'[Len(stack) + 1].path = path /\ stack'[Len(stack) + 1].todo = all
      <3>1. stack'[Len(stack) + 1] = Call(path, field.type)
        BY <1>7, <1>14
      <3>2. Call(path, field.type).path = path /\ Call(path, field.type).todo = all
        BY DEF Call
      <3> QED
        BY <3>1, <3>2
    <2>5. new[1] = path /\ new[2] = field.type
      OBVIOUS
    <2> HIDE DEF new
    <2> QED
      BY <1>1, <2>2, <2>3, <2>4, <2>5 DEF Waits
  <1>15. ASSUME NEW s \in more, NEW i \in DOMAIN source.fields[s[2]],
                source.fields[s[2]][i].name # ""
         PROVE  Processed(source', registry', more, s, source.fields[s[2]][i]) \/ Waits(source', stack', s, i)
    <2>1. CASE s \in called
      BY <1>10, <1>12, <1>15, <2>1 DEF Covers
    <2>2. CASE nested /\ s = new
      <3>1. s[2] = field.type
        BY <2>2
      <3> QED
        BY <1>14, <1>15, <2>2, <3>1
    <2> QED
      BY <2>1, <2>2
  <1>16. more \subseteq Struct(source) /\ \A s \in more : Len(s[1]) < MaxDepth
    <2> HIDE DEF new, nested
    <2> QED
      BY <1>13 DEF Covers
  <1>17. \A t \in Types(source) : isRootType(t) /\ t \notin rootsLeft => <<(<<>>), t>> \in more
    BY <1>9 DEF Covers
  <1> HIDE DEF more
  <1>18. Covers(source', stack', rootsLeft', registry', more)
    BY <1>1, <1>15, <1>16, <1>17 DEF Covers
  <1> QED
    BY <1>18

\* Once all files are parsed, every struct below a root type has been called
\* or waits for a field or root that is still to be handled (processField,
\* scanner.go:111-160).
THEOREM CompleteInvariant == Spec => [](Walk /\ Complete)
  <1>1. Walk /\ Complete /\ [Next]_vars => Complete'
    <2> SUFFICES ASSUME Walk, Complete, [Next]_vars, filesLeft' = {}, ~crashed'
                 PROVE  \E more : Covers(source', stack', rootsLeft', registry', more)
      BY DEF Complete
    <2>1. CASE UNCHANGED scanVars
      BY <2>1 DEF scanVars, Complete
    <2>2. ASSUME NEW file \in filesLeft, ScanFile(file)
          PROVE  Covers(source', stack', rootsLeft', registry', {})
      BY <2>2, ScanFileCovers
    <2>3. ASSUME processField \/ return \/ \E type \in rootsLeft : processRoot(type)
          PROVE  \E called : Covers(source, stack, rootsLeft, registry, called)
      BY <2>3 DEF Complete, processField, return, processRoot
    <2>4. CASE processField
      <3>1. PICK called : Covers(source, stack, rootsLeft, registry, called)
        BY <2>3, <2>4
      <3>2. filesLeft = {}
        BY <2>4 DEF processField
      <3> QED
        BY <2>4, <3>1, <3>2, ProcessFieldCovers
    <2>5. CASE return
      BY <2>3, <2>5, ReturnCovers
    <2>6. ASSUME NEW type \in rootsLeft, processRoot(type)
          PROVE  \E more : Covers(source', stack', rootsLeft', registry', more)
      BY <2>3, <2>6, ProcessRootCovers
    <2>7. Generate \/ UNCHANGED vars => UNCHANGED scanVars
      BY DEF Generate, vars
    <2> QED
      BY <2>1, <2>2, <2>4, <2>5, <2>6, <2>7 DEF Next, ScanNext
  <1>2. Walk /\ [Next]_vars => Walk'
    <2> SUFFICES ASSUME Walk, [Next]_vars PROVE Walk'
      OBVIOUS
    <2> QED
      BY WalkStep
  <1> QED
    BY <1>1, WalkInvariant, InitCovers, PTL DEF Spec

\* A finished scan has been called for every struct at every depth.
LEMMA DoneCovers ==
  ASSUME Walk, Complete, Done
  PROVE  \E called :
           /\ called \subseteq Struct(source)
           /\ \A s \in called : \A f \in NamedFields(source, s[2]) :
                Processed(source, registry, called, s, f)
           /\ \A n \in 1 .. MaxDepth : StructsAt(source)[n] \subseteq called
  <1>1. /\ filesLeft = {} /\ rootsLeft = {} /\ stack = <<>> /\ ~crashed /\ Len(stack) = 0
    <2>1. filesLeft = {} /\ rootsLeft = {} /\ stack = <<>> /\ ~crashed
      BY DEF Done, FileDone
    <2> QED
      BY <2>1, EmptySeq, Zenon
  <1>2. PICK called : Covers(source, stack, rootsLeft, registry, called)
    BY <1>1 DEF Complete
  <1>3. source \in Sources /\ MaxDepth \in Nat
    BY WalkParts
  <1>4. ASSUME NEW s \in called, NEW f \in NamedFields(source, s[2])
        PROVE  Processed(source, registry, called, s, f)
    <2>1. PICK i \in DOMAIN source.fields[s[2]] : f = source.fields[s[2]][i] /\ f.name # ""
      BY <1>4 DEF NamedFields
    <2>2. ~Waits(source, stack, s, i)
      BY <1>1 DEF Waits
    <2> QED
      BY <1>2, <2>1, <2>2 DEF Covers
  <1> DEFINE Has == {n \in Nat : StructsAt(source)[n] \subseteq called}
  <1>5. MaxDepth > 0 => 1 \in Has
    <2> SUFFICES ASSUME MaxDepth > 0, NEW s \in StructsAt(source)[1] PROVE s \in called
      OBVIOUS
    <2>1. s \in Roots(source)
      <3>1. 1 \in 1 .. MaxDepth
        BY <1>3
      <3> QED
        BY <1>3, <3>1, StructsUnfold
    <2>2. PICK t \in Types(source) : isRootType(t) /\ s = <<(<<>>), t>>
      BY <2>1, Zenon DEF Roots
    <2> QED
      BY <1>1, <1>2, <2>2 DEF Covers
  <1>6. ASSUME NEW k \in 1 .. MaxDepth, k < MaxDepth, k \in Has PROVE k + 1 \in Has
    <2> SUFFICES ASSUME NEW r \in StructsAt(source)[k + 1] PROVE r \in called
      BY <1>3
    <2>1. r \in Nested(source, StructsAt(source)[k])
      <3>1. k + 1 \in 1 .. MaxDepth /\ k + 1 # 1 /\ (k + 1) - 1 = k
        BY <1>3, <1>6
      <3> QED
        BY <1>3, <3>1, StructsUnfold
    <2>2. PICK s \in StructsAt(source)[k] : \E f \in NamedFields(source, s[2]) :
            f.type \in Types(source) /\ r = <<Append(s[1], f.name), f.type>>
      BY <2>1, Zenon DEF Nested
    <2>3. s \in called
      BY <1>6
    <2> QED
      BY <1>4, <2>2, <2>3 DEF Processed
  <1>7. \A n \in 1 .. MaxDepth : n \in Has
    <2> HIDE DEF Has
    <2> QED
      BY <1>3, <1>5, <1>6, BoundedInduction
  <1>8. called \subseteq Struct(source)
    BY <1>2 DEF Covers
  <1> QED
    BY <1>4, <1>7, <1>8

\* Every marked field below a root type is registered when the scan is done.
LEMMA AllRegistered ==
  ASSUME Walk, Complete, Done, NEW d \in Marked[source]
  PROVE  d.path \in DOMAIN registry
  <1>1. source \in Sources
    BY WalkParts
  <1>2. d \in Declarations[source] /\ Registers(d.field)
    BY <1>1 DEF Marked
  <1>3. PICK n \in 1 .. MaxDepth, p \in Seq(STRING) :
          /\ d.path = Append(p, d.field.name) /\ <<p, d.type>> \in StructsAt(source)[n]
          /\ d.field \in NamedFields(source, d.type)
    BY <1>1, <1>2, DeclaredParts
  <1>4. PICK called :
          /\ \A s \in called : \A f \in NamedFields(source, s[2]) :
               Processed(source, registry, called, s, f)
          /\ \A k \in 1 .. MaxDepth : StructsAt(source)[k] \subseteq called
    BY DoneCovers
  <1>5. Processed(source, registry, called, <<p, d.type>>, d.field)
    <2> DEFINE s == <<p, d.type>>
    <2>1. s \in called
      BY <1>3, <1>4
    <2>2. s[2] = d.type
      OBVIOUS
    <2> HIDE DEF s
    <2>3. Processed(source, registry, called, s, d.field)
      BY <1>3, <1>4, <2>1, <2>2
    <2> QED
      BY <2>3 DEF s
  <1> QED
    BY <1>2, <1>3, <1>5 DEF Processed

(* The order of files, types and roots decides nothing but which of two    *)
(* fields with one path is in the registry.                                *)
THEOREM OrderFree == Spec => []ScanIsOrderFree
  <1>1. Walk /\ Complete => ScanIsOrderFree
    <2> SUFFICES ASSUME Walk, Complete, Done
                 PROVE  /\ DOMAIN registry = {d.path : d \in Marked[source]}
                        /\ \A p \in DOMAIN registry :
                             \E d \in Marked[source] : d.path = p /\ registry[p] = d.field.policy
      BY DEF ScanIsOrderFree
    <2>1. \A d \in Marked[source] : d.path \in DOMAIN registry
      BY AllRegistered
    <2> QED
      BY <2>1 DEF Walk, RegisteredIsDeclared
  <1> QED
    BY <1>1, CompleteInvariant, PTL

(* What verify-configuration accepts is registered with a write mode, but  *)
(* for what has only a mistyped one.                                       *)
THEOREM Verified == Spec => []VerifiedIsRegistered
  <1>1. ASSUME Walk, Complete, Done, VerifyConfiguration(source),
               NEW d \in Declarations[source],
               source.file[d.type] = ConfigurationFile, isConfigType(d.type),
               d.field.above, ~d.field.embedded, Alone(d)
        PROVE  d.path \in DOMAIN registry /\ registry[d.path].writeMode # NoMode
                 <=> ~(d.field.mistyped /\ d.field.policy.writeMode = NoMode)
    <2>1. source \in Sources
      BY <1>1, WalkParts
    <2>2. d.type \in Types(source) /\ d.field \in NamedFields(source, d.type)
      BY <1>1, <2>1, DeclaredParts
    <2>3. d.field.policy.writeMode # NoMode \/ d.field.mistyped
      <3>1. PICK i \in DOMAIN source.fields[d.type] : d.field = source.fields[d.type][i]
        BY <2>2 DEF NamedFields
      <3>2. hasWriteMode(d.field)
        BY <1>1, <2>2, <3>1 DEF VerifyConfiguration
      <3> QED
        BY <3>2 DEF hasWriteMode
    <2>4. ASSUME d.field.policy.writeMode # NoMode PROVE d.path \in DOMAIN registry
      <3>1. d \in Marked[source]
        BY <1>1, <2>1, <2>4 DEF Marked, Registers, HasMarker
      <3> QED
        BY <1>1, <3>1, AllRegistered
    <2>5. ASSUME d.path \in DOMAIN registry
          PROVE  registry[d.path].writeMode = d.field.policy.writeMode
      <3>1. PICK e \in Marked[source] : e.path = d.path /\ registry[d.path] = e.field.policy
        BY <1>1, <2>5 DEF Walk, RegisteredIsDeclared
      <3> QED
        BY <1>1, <3>1 DEF Alone
    <2> QED
      BY <2>3, <2>4, <2>5
  <1>2. Walk /\ Complete => VerifiedIsRegistered
    <2> SUFFICES ASSUME Walk, Complete, Done, VerifyConfiguration(source),
                        NEW d \in Declarations[source],
                        source.file[d.type] = ConfigurationFile,
                        d.type \notin SupportTypes,
                        Suffix(d.type) \in {"Configuration", "Config", "Spec"},
                        d.field.above, ~d.field.embedded, Alone(d)
                 PROVE  d.path \in DOMAIN registry /\ registry[d.path].writeMode # NoMode
                          <=> ~(d.field.mistyped /\ d.field.policy.writeMode = NoMode)
      BY DEF VerifiedIsRegistered
    <2>1. isConfigType(d.type)
      BY DEF isConfigType
    <2> QED
      BY <1>1, <2>1
  <1> QED
    BY <1>2, CompleteInvariant, PTL

-----------------------------------------------------------------------------
(* The generator's guesses.                                                *)

\* A guessed type lies where the generator thinks it does.
Guessed(s) ==
  \/ Suffix(s[2]) = "Spec" /\ s[1] = <<"spec">>
  \/ Suffix(s[2]) = "Status" /\ s[1] = <<"status">>
  \/ s[2] = <<"HostedCluster", "Passthrough">> /\ s[1] = <<"spec", "hostedCluster">>
  \/ s[2] = <<"NodePool", "Passthrough">> /\ s[1] = <<"spec", "nodePool">>
  \/ Suffix(s[2]) \notin {"Spec", "Status", "Passthrough"} /\ s[1] = <<>>

GuessedTypes(src) == RestTypeNames(src) \ {ClusterReference}

\* The suffixes of the types the generator knows by name.
LEMMA Suffixes ==
  /\ \A t \in {<<"Cluster", "">>, <<"NodePool", "">>} :
       Suffix(t) = "" /\ t # ClusterReference /\ t \in resourceTypes
  /\ \A t \in GoType : Suffix(t) = "Spec" /\ t[1] \in {"Cluster", "NodePool"} =>
       t # ClusterReference /\ t \in resourceTypes
  /\ Suffix(<<"HostedCluster", "Passthrough">>) = "Passthrough"
  /\ Suffix(<<"NodePool", "Passthrough">>) = "Passthrough"
  /\ <<"HostedCluster", "Passthrough">> # <<"NodePool", "Passthrough">>
  <1>1. Suffix(<<"Cluster", "">>) = "" /\ Suffix(<<"NodePool", "">>) = ""
    BY DEF Suffix
  <1>2. <<"Cluster", "">> # ClusterReference /\ <<"NodePool", "">> # ClusterReference
    BY DEF ClusterReference
  <1>3. <<"Cluster", "">> \in resourceTypes /\ <<"NodePool", "">> \in resourceTypes
    BY DEF resourceTypes
  <1>4. ASSUME NEW t \in GoType, Suffix(t) = "Spec", t[1] \in {"Cluster", "NodePool"}
        PROVE  t # ClusterReference /\ t \in resourceTypes
    <2>1. t = <<t[1], "Spec">>
      BY <1>4 DEF GoType, Suffix
    <2>2. t # ClusterReference
      <3>1. Suffix(ClusterReference) = ""
        BY DEF Suffix, ClusterReference
      <3> QED
        BY <1>4, <3>1
    <2>3. <<t[1], "Spec">> \in resourceTypes
      BY <1>4 DEF resourceTypes
    <2> QED
      BY <2>1, <2>2, <2>3
  <1>5. /\ Suffix(<<"HostedCluster", "Passthrough">>) = "Passthrough"
        /\ Suffix(<<"NodePool", "Passthrough">>) = "Passthrough"
    BY DEF Suffix
  <1>6. <<"HostedCluster", "Passthrough">> # <<"NodePool", "Passthrough">>
    OBVIOUS
  <1> QED
    BY <1>1, <1>2, <1>3, <1>4, <1>5, <1>6

\* A sequence with one element more.
LEMMA AppendOne ==
  ASSUME NEW S, NEW s \in Seq(S), NEW e \in S, NEW n \in Nat, Len(s) = n
  PROVE  /\ Append(s, e) \in Seq(S) /\ Len(Append(s, e)) = n + 1 /\ Append(s, e)[n + 1] = e
         /\ \A i \in 1 .. n : Append(s, e)[i] = s[i]
  BY AppendProperties

\* Paths of one, two and three names.
LEMMA Appends ==
  ASSUME NEW a, NEW b, NEW c
  PROVE  /\ Append(<<>>, a) = <<a>>
         /\ Append(<<a>>, b) = <<a, b>>
         /\ Append(<<a, b>>, c) = <<a, b, c>>
  <1>1. Append(<<>>, a) = <<a>>
    OBVIOUS
  <1> DEFINE S == {a, b, c}
  <1>2. Append(<<a>>, b) = <<a, b>>
    <2> DEFINE s == <<a>>
               t == <<a, b>>
    <2>1. s \in Seq(S) /\ Len(s) = 1 /\ s[1] = a /\ b \in S
      OBVIOUS
    <2>2. t \in Seq(S) /\ Len(t) = 2 /\ t[1] = a /\ t[2] = b
      OBVIOUS
    <2> HIDE DEF s, t, S
    <2>3. Append(s, b) \in Seq(S) /\ Len(Append(s, b)) = 2
          /\ Append(s, b)[1] = a /\ Append(s, b)[2] = b
      <3> DEFINE n == Len(s)
      <3>1. s \in Seq(S) /\ b \in S /\ n \in Nat /\ Len(s) = n
        BY <2>1
      <3>2. n = 1
        BY <2>1
      <3> HIDE DEF n
      <3>3. /\ Append(s, b) \in Seq(S) /\ Len(Append(s, b)) = n + 1 /\ Append(s, b)[n + 1] = b
            /\ \A i \in 1 .. n : Append(s, b)[i] = s[i]
        BY <3>1, AppendOne
      <3> QED
        BY <2>1, <3>2, <3>3
    <2>4. \A i \in 1 .. Len(t) : Append(s, b)[i] = t[i]
      BY <2>2, <2>3
    <2>5. Append(s, b) = t
      BY <2>2, <2>3, <2>4, SeqEqual
    <2> QED
      BY <2>5 DEF s, t
  <1>3. Append(<<a, b>>, c) = <<a, b, c>>
    <2> DEFINE s == <<a, b>>
               t == <<a, b, c>>
    <2>1. s \in Seq(S) /\ Len(s) = 2 /\ s[1] = a /\ s[2] = b /\ c \in S
      OBVIOUS
    <2>2. t \in Seq(S) /\ Len(t) = 3 /\ t[1] = a /\ t[2] = b /\ t[3] = c
      OBVIOUS
    <2> HIDE DEF s, t, S
    <2>3. Append(s, c) \in Seq(S) /\ Len(Append(s, c)) = 3
          /\ Append(s, c)[1] = a /\ Append(s, c)[2] = b /\ Append(s, c)[3] = c
      <3>1. /\ Append(s, c) \in Seq(S) /\ Len(Append(s, c)) = 2 + 1 /\ Append(s, c)[2 + 1] = c
            /\ \A i \in 1 .. 2 : Append(s, c)[i] = s[i]
        BY <2>1, AppendOne
      <3> QED
        BY <2>1, <3>1
    <2>4. \A i \in 1 .. Len(t) : Append(s, c)[i] = t[i]
      BY <2>2, <2>3
    <2>5. Append(s, c) = t
      BY <2>2, <2>3, <2>4, SeqEqual
    <2> QED
      BY <2>5 DEF s, t
  <1> QED
    BY <1>1, <1>2, <1>3

\* No list type is reached from a root.
LEMMA NoLists ==
  ASSUME NEW src \in Sources, ReachedAsNamed(src)
  PROVE  \A n \in 1 .. MaxDepth : \A s \in StructsAt(src)[n] : Suffix(s[2]) # "List"
  <1> DEFINE S == {n \in Nat : \A s \in StructsAt(src)[n] : Suffix(s[2]) # "List"}
  <1>0. MaxDepth \in Nat
    BY ScannerAssumption
  <1>1. MaxDepth > 0 => 1 \in S
    <2> SUFFICES ASSUME MaxDepth > 0, NEW s \in StructsAt(src)[1] PROVE Suffix(s[2]) # "List"
      OBVIOUS
    <2>1. 1 \in 1 .. MaxDepth
      BY <1>0
    <2>2. s \in Roots(src)
      BY <2>1, StructsUnfold
    <2>3. PICK t \in Types(src) : isRootType(t) /\ s = <<(<<>>), t>>
      BY <2>2, Zenon DEF Roots
    <2> QED
      BY <2>3 DEF isRootType
  <1>2. ASSUME NEW k \in 1 .. MaxDepth, k < MaxDepth, k \in S PROVE k + 1 \in S
    <2> SUFFICES ASSUME NEW r \in StructsAt(src)[k + 1] PROVE Suffix(r[2]) # "List"
      BY <1>0
    <2>1. r \in Nested(src, StructsAt(src)[k])
      <3>1. k + 1 \in 1 .. MaxDepth /\ k + 1 # 1 /\ (k + 1) - 1 = k
        BY <1>0, <1>2
      <3> QED
        BY <3>1, StructsUnfold
    <2>2. PICK s \in StructsAt(src)[k] : \E f \in NamedFields(src, s[2]) :
            f.type \in Types(src) /\ r = <<Append(s[1], f.name), f.type>>
      BY <2>1, Zenon DEF Nested
    <2>3. s[2] \in Types(src) /\ Suffix(s[2]) # "List"
      BY <1>2, StructsTyped DEF Struct
    <2>4. PICK f \in NamedFields(src, s[2]) : r[2] = f.type
      BY <2>2
    <2> QED
      BY <2>3, <2>4 DEF ReachedAsNamed
  <1> SUFFICES ASSUME NEW n \in 1 .. MaxDepth PROVE n \in S
    OBVIOUS
  <1> HIDE DEF S
  <1> QED
    BY <1>0, <1>1, <1>2, BoundedInduction

\* A struct is a root or has been reached through a field.
LEMMA ReachedThrough ==
  ASSUME NEW src \in Sources, NEW n \in 1 .. MaxDepth, NEW r \in StructsAt(src)[n], n # 1
  PROVE  /\ n - 1 \in 1 .. MaxDepth
         /\ \E s \in StructsAt(src)[n - 1] : \E f \in NamedFields(src, s[2]) :
              r[1] = Append(s[1], f.name) /\ r[2] = f.type
  <1>1. n - 1 \in 1 .. MaxDepth
    BY ScannerAssumption
  <1>2. r \in Nested(src, StructsAt(src)[n - 1])
    BY StructsUnfold
  <1>3. PICK s \in StructsAt(src)[n - 1] : \E f \in NamedFields(src, s[2]) :
          f.type \in Types(src) /\ r = <<Append(s[1], f.name), f.type>>
    BY <1>2, Zenon DEF Nested
  <1>4. PICK f \in NamedFields(src, s[2]) : r = <<Append(s[1], f.name), f.type>>
    BY <1>3
  <1>5. r[1] = Append(s[1], f.name) /\ r[2] = f.type
    BY <1>4
  <1> QED
    BY <1>1, <1>5

\* Cluster and NodePool are reached as roots alone.
LEMMA RootsAreGuessed ==
  ASSUME NEW src \in Sources, ReachedAsNamed(src), NEW n \in 1 .. MaxDepth,
         NEW r \in StructsAt(src)[n], r[2] \in {<<"Cluster", "">>, <<"NodePool", "">>}
  PROVE  r[1] = <<>>
  <1>1. CASE n = 1
    <2>1. r \in Roots(src)
      BY <1>1, StructsUnfold
    <2>2. PICK t \in Types(src) : r = <<(<<>>), t>>
      BY <2>1, Zenon DEF Roots
    <2> QED
      BY <2>2
  <1>2. CASE n # 1
    <2>1. /\ n - 1 \in 1 .. MaxDepth
          /\ \E s \in StructsAt(src)[n - 1] : \E f \in NamedFields(src, s[2]) :
               r[1] = Append(s[1], f.name) /\ r[2] = f.type
      BY <1>2, ReachedThrough
    <2>2. PICK s \in StructsAt(src)[n - 1] : \E f \in NamedFields(src, s[2]) : r[2] = f.type
      BY <2>1
    <2>3. PICK f \in NamedFields(src, s[2]) : r[2] = f.type
      BY <2>2
    <2>4. s[2] \in Types(src) /\ Suffix(s[2]) # "List"
      BY <2>1, StructsTyped, NoLists DEF Struct
    <2>5. r[2] \in Types(src)
      BY StructsTyped DEF Struct
    <2>6. r[2] \in GuessedTypes(src) /\ Suffix(r[2]) = ""
      BY <2>5, Suffixes DEF GuessedTypes, RestTypeNames
    <2>7. s[2] \in {u \in Types(src) : Suffix(u) # "List"}
      BY <2>4
    <2>8. /\ f.type \in GuessedTypes(src) /\ Suffix(f.type) = ""
      BY <2>3, <2>6
    <2> QED
      BY <2>7, <2>8, Suffixes DEF ReachedAsNamed, GuessedTypes
  <1> QED
    BY <1>1, <1>2

\* The specs of the resources are reached through the field spec alone.
LEMMA SpecsAreGuessed ==
  ASSUME NEW src \in Sources, ReachedAsNamed(src), NEW n \in 1 .. MaxDepth,
         NEW r \in StructsAt(src)[n], r[2] \in Resources(src)
  PROVE  r[1] = <<"spec">>
  <1>1. n # 1
    <2> SUFFICES ASSUME n = 1 PROVE FALSE
      OBVIOUS
    <2>1. r \in Roots(src)
      BY StructsUnfold
    <2>2. PICK t \in Types(src) : isRootType(t) /\ r = <<(<<>>), t>>
      BY <2>1, Zenon DEF Roots
    <2> QED
      BY <2>2 DEF isRootType, Resources
  <1>2. /\ n - 1 \in 1 .. MaxDepth
        /\ \E s \in StructsAt(src)[n - 1] : \E f \in NamedFields(src, s[2]) :
             r[1] = Append(s[1], f.name) /\ r[2] = f.type
    BY <1>1, ReachedThrough
  <1>3. PICK s \in StructsAt(src)[n - 1] : \E f \in NamedFields(src, s[2]) :
          r[1] = Append(s[1], f.name) /\ r[2] = f.type
    BY <1>2
  <1>4. PICK f \in NamedFields(src, s[2]) : r[1] = Append(s[1], f.name) /\ r[2] = f.type
    BY <1>3
  <1>5. s[2] \in Types(src) /\ Suffix(s[2]) # "List"
    BY <1>2, StructsTyped, NoLists DEF Struct
  <1>6. r[2] \in GuessedTypes(src) /\ Suffix(r[2]) = "Spec"
    <2>1. r[2] \in Types(src) /\ Suffix(r[2]) = "Spec" /\ r[2][1] \in {"Cluster", "NodePool"}
      BY DEF Resources
    <2>2. f \in StructField
      BY <1>4, <1>5, FieldTypes
    <2>3. r[2] \in GoType
      BY <1>4, <2>2 DEF StructField
    <2> QED
      BY <2>1, <2>3, Suffixes DEF GuessedTypes, RestTypeNames
  <1>7. s[2] \in {<<"Cluster", "">>, <<"NodePool", "">>} /\ f.name = "spec"
    <2>1. s[2] \in {u \in Types(src) : Suffix(u) # "List"}
      BY <1>5
    <2>2. f.type \in GuessedTypes(src) /\ Suffix(f.type) = "Spec"
      BY <1>4, <1>6
    <2> QED
      BY <2>1, <2>2, Suffixes DEF ReachedAsNamed, GuessedTypes
  <1>8. s[1] = <<>>
    BY <1>2, <1>7, RootsAreGuessed
  <1> QED
    BY <1>4, <1>7, <1>8, Appends

\* Every type whose path the generator guesses is reached where it guesses.
LEMMA AllGuessed ==
  ASSUME NEW src \in Sources, ReachedAsNamed(src), NEW n \in 1 .. MaxDepth,
         NEW r \in StructsAt(src)[n], r[2] \in GuessedTypes(src)
  PROVE  Guessed(r)
  <1>1. CASE n = 1
    <2>1. r \in Roots(src)
      BY <1>1, StructsUnfold
    <2>2. PICK t \in Types(src) : isRootType(t) /\ r = <<(<<>>), t>>
      BY <2>1, Zenon DEF Roots
    <2>3. r[1] = <<>> /\ r[2] = t /\ Suffix(t) \notin {"Spec", "Status", "Passthrough"}
      BY <2>2 DEF isRootType
    <2> QED
      BY <2>3 DEF Guessed
  <1>2. CASE n # 1
    <2>1. /\ n - 1 \in 1 .. MaxDepth
          /\ \E s \in StructsAt(src)[n - 1] : \E f \in NamedFields(src, s[2]) :
               r[1] = Append(s[1], f.name) /\ r[2] = f.type
      BY <1>2, ReachedThrough
    <2>2. PICK s \in StructsAt(src)[n - 1] : \E f \in NamedFields(src, s[2]) :
            r[1] = Append(s[1], f.name) /\ r[2] = f.type
      BY <2>1
    <2>3. PICK f \in NamedFields(src, s[2]) : r[1] = Append(s[1], f.name) /\ r[2] = f.type
      BY <2>2
    <2>4. s[2] \in Types(src) /\ Suffix(s[2]) # "List"
      BY <2>1, StructsTyped, NoLists DEF Struct
    <2>5. \/ s[2] \in {<<"Cluster", "">>, <<"NodePool", "">>} /\ f.name = "spec" /\ Suffix(r[2]) = "Spec"
          \/ s[2] \in {<<"Cluster", "">>, <<"NodePool", "">>} /\ f.name = "status" /\ Suffix(r[2]) = "Status"
          \/ s[2] \in Resources(src) /\ f.name = "hostedCluster" /\ r[2] = <<"HostedCluster", "Passthrough">>
          \/ s[2] \in Resources(src) /\ f.name = "nodePool" /\ r[2] = <<"NodePool", "Passthrough">>
      BY <2>3, <2>4 DEF ReachedAsNamed, GuessedTypes
    <2>6. CASE s[2] \in {<<"Cluster", "">>, <<"NodePool", "">>}
      <3>1. s[1] = <<>>
        BY <2>1, <2>6, RootsAreGuessed
      <3>2. r[1] = <<f.name>>
        BY <2>3, <3>1, Appends
      <3>3. s[2] \notin Resources(src)
        BY <2>6, Suffixes DEF Resources
      <3>4. \/ f.name = "spec" /\ Suffix(r[2]) = "Spec"
            \/ f.name = "status" /\ Suffix(r[2]) = "Status"
        BY <2>5, <3>3
      <3> QED
        BY <3>2, <3>4 DEF Guessed
    <2>7. CASE s[2] \in Resources(src)
      <3>1. s[1] = <<"spec">>
        BY <2>1, <2>7, SpecsAreGuessed
      <3>2. r[1] = <<"spec", f.name>>
        BY <2>3, <3>1, Appends
      <3>3. s[2] \notin {<<"Cluster", "">>, <<"NodePool", "">>}
        BY <2>7, Suffixes DEF Resources
      <3> QED
        BY <2>5, <3>2, <3>3 DEF Guessed
    <2> QED
      BY <2>5, <2>6, <2>7
  <1> QED
    BY <1>1, <1>2

\* A declaration of a guessed type has the path that is guessed for it.
LEMMA PathsAreGuessed ==
  ASSUME NEW src \in Sources, ReachedAsNamed(src), NEW d \in Declarations[src],
         d.type \in GuessedTypes(src)
  PROVE  d.path = buildFieldPath(d.type, d.field.name)
  <1>1. PICK n \in 1 .. MaxDepth : \E p \in Seq(STRING) :
          d.path = Append(p, d.field.name) /\ <<p, d.type>> \in StructsAt(src)[n]
    BY DeclaredParts
  <1>2. PICK p \in Seq(STRING) :
          d.path = Append(p, d.field.name) /\ <<p, d.type>> \in StructsAt(src)[n]
    BY <1>1
  <1> DEFINE s == <<p, d.type>>
             name == d.field.name
  <1>3. s[1] = p /\ s[2] = d.type
    OBVIOUS
  <1> HIDE DEF s, name
  <1>4. Guessed(s)
    BY <1>2, <1>3, AllGuessed DEF s
  <1>5. d.path = Append(p, name)
    BY <1>2 DEF name
  <1>6. CASE Suffix(d.type) = "Spec" /\ p = <<"spec">>
    <2>1. d.path = <<"spec", name>>
      BY <1>5, <1>6, Appends
    <2> QED
      BY <1>6, <2>1 DEF buildFieldPath, name
  <1>7. CASE Suffix(d.type) = "Status" /\ p = <<"status">>
    <2>1. d.path = <<"status", name>>
      BY <1>5, <1>7, Appends
    <2>2. Suffix(d.type) # "Spec"
      BY <1>7
    <2> QED
      BY <1>7, <2>1, <2>2 DEF buildFieldPath, name
  <1>8. CASE d.type = <<"HostedCluster", "Passthrough">> /\ p = <<"spec", "hostedCluster">>
    <2>1. d.path = <<"spec", "hostedCluster", name>>
      BY <1>5, <1>8, Appends
    <2>2. Suffix(d.type) # "Spec" /\ Suffix(d.type) # "Status"
      BY <1>8, Suffixes
    <2> QED
      BY <1>8, <2>1, <2>2 DEF buildFieldPath, name
  <1>9. CASE d.type = <<"NodePool", "Passthrough">> /\ p = <<"spec", "nodePool">>
    <2>1. d.path = <<"spec", "nodePool", name>>
      BY <1>5, <1>9, Appends
    <2>2. /\ Suffix(d.type) # "Spec" /\ Suffix(d.type) # "Status"
          /\ d.type # <<"HostedCluster", "Passthrough">>
      BY <1>9, Suffixes
    <2> QED
      BY <1>9, <2>1, <2>2 DEF buildFieldPath, name
  <1>10. CASE Suffix(d.type) \notin {"Spec", "Status", "Passthrough"} /\ p = <<>>
    <2>1. d.path = <<name>>
      BY <1>5, <1>10, Appends
    <2>2. /\ Suffix(d.type) # "Spec" /\ Suffix(d.type) # "Status"
          /\ d.type # <<"HostedCluster", "Passthrough">>
          /\ d.type # <<"NodePool", "Passthrough">>
      BY <1>10, Suffixes
    <2> QED
      BY <2>1, <2>2 DEF buildFieldPath, name
  <1>11. d.path = buildFieldPath(d.type, name)
    <2>1. \/ Suffix(d.type) = "Spec" /\ p = <<"spec">>
          \/ Suffix(d.type) = "Status" /\ p = <<"status">>
          \/ d.type = <<"HostedCluster", "Passthrough">> /\ p = <<"spec", "hostedCluster">>
          \/ d.type = <<"NodePool", "Passthrough">> /\ p = <<"spec", "nodePool">>
          \/ Suffix(d.type) \notin {"Spec", "Status", "Passthrough"} /\ p = <<>>
      BY <1>3, <1>4 DEF Guessed
    <2> QED
      BY <1>6, <1>7, <1>8, <1>9, <1>10, <2>1, Zenon DEF name
  <1> QED
    BY <1>11 DEF name

(* Hidden fields stay inside, for types that are declared as the API types *)
(* are.                                                                    *)
THEOREM Hidden ==
  ASSUME \A src \in Sources : ReachedAsNamed(src)
  PROVE  Spec => []HiddenStaysInside
  <1>1. ASSUME Walk, Complete, Outputs, generated, NEW d \in Marked[source],
               d.type \in DOMAIN rest \ {ClusterReference}, d.field.policy.hidden, Alone(d)
        PROVE  d.field.name \notin visibleFields(source, registry, d.type)
    <2>1. source \in Sources /\ Done
      BY <1>1, WalkParts DEF Outputs
    <2>2. d \in Declarations[source] /\ d.type \in GuessedTypes(source)
      BY <1>1, <2>1 DEF Marked, Outputs, generateRESTTypes, GuessedTypes
    <2>3. d.path = buildFieldPath(d.type, d.field.name)
      BY <2>1, <2>2, PathsAreGuessed
    <2>4. d.path \in DOMAIN registry
      BY <1>1, <2>1, AllRegistered
    <2>5. registry[d.path].hidden
      BY <1>1, <2>4 DEF Walk, RegisteredIsDeclared, Alone
    <2> QED
      BY <2>3, <2>4, <2>5 DEF visibleFields, IsHidden
  <1>2. Walk /\ Complete /\ Outputs => HiddenStaysInside
    <2> SUFFICES ASSUME Walk, Complete, Outputs, generated, NEW d \in Marked[source],
                        d.type \in DOMAIN rest \ {ClusterReference}, d.field.policy.hidden, Alone(d)
                 PROVE  /\ d.field.name \notin rest[d.type]
                        /\ d.type \in DOMAIN project => d.field.name \notin project[d.type]
                        /\ d.type \in DOMAIN unproject => d.field.name \notin unproject[d.type]
      BY DEF HiddenStaysInside
    <2> DEFINE visible(t) == visibleFields(source, registry, t)
    <2>1. d.field.name \notin visible(d.type)
      BY <1>1
    <2> HIDE DEF visible
    <2>2. rest = [t \in DOMAIN rest |-> visible(t)]
      BY DEF Outputs, generateRESTTypes, visible
    <2>3. project = [t \in DOMAIN project |-> visible(t)]
      BY DEF Outputs, Projected, visible
    <2>4. unproject = [t \in DOMAIN unproject |-> visible(t)]
      BY DEF Outputs, Unprojected, visible
    <2> QED
      BY <2>1, <2>2, <2>3, <2>4
  <1> QED
    BY <1>2, CompleteInvariant, OutputsInvariant, PTL

-----------------------------------------------------------------------------
(* What an Unproject takes from ServiceSetFields.                          *)

\* The registry has as many entries as were made, so its paths can be counted.
THEOREM RegistryFinite == Spec => []IsFiniteSet(DOMAIN registry)
  <1> DEFINE Inv == IsFiniteSet(DOMAIN registry)
  <1>1. Init => Inv
    BY FS_EmptySet DEF Init, ScanInit
  <1>2. Inv /\ [Next]_vars => Inv'
    <2> SUFFICES ASSUME Inv, [Next]_vars PROVE Inv'
      OBVIOUS
    <2>1. CASE processField
      <3>1. CASE registry' = registry
        BY <3>1
      <3>2. ASSUME NEW path, NEW policy, registry' = Register(path, policy) PROVE Inv'
        <4>1. DOMAIN registry' = DOMAIN registry \cup {path}
          BY <3>2 DEF Register
        <4> QED
          BY <4>1, FS_AddElement
      <3> QED
        BY <2>1, <3>1, <3>2, FieldStep
    <2>2. CASE ~processField
      <3>1. registry' = registry
        BY <2>2 DEF Next, ScanNext, ScanFile, processRoot, return, Generate, vars, scanVars
      <3> QED
        BY <3>1
    <2> QED
      BY <2>1, <2>2
  <1> QED
    BY <1>1, <1>2, PTL DEF Spec

\* The last name of a guessed path is the name that was asked for.
LEMMA GuessedName ==
  ASSUME NEW type, NEW name
  PROVE  LET path == buildFieldPath(type, name) IN path[Len(path)] = name
  <1> DEFINE path == buildFieldPath(type, name)
  <1>1. CASE Suffix(type) = "Spec"
    <2>1. path = <<"spec", name>>
      BY <1>1 DEF buildFieldPath
    <2> QED
      BY <2>1
  <1>2. CASE Suffix(type) # "Spec" /\ Suffix(type) = "Status"
    <2>1. path = <<"status", name>>
      BY <1>2 DEF buildFieldPath
    <2> QED
      BY <2>1
  <1>3. CASE Suffix(type) # "Spec" /\ Suffix(type) # "Status"
    <2>1. \/ path = <<"spec", "hostedCluster", name>>
          \/ path = <<"spec", "nodePool", name>>
          \/ path = <<name>>
      BY <1>3 DEF buildFieldPath
    <2>2. CASE path = <<"spec", "hostedCluster", name>>
      BY <2>2
    <2>3. CASE path = <<"spec", "nodePool", name>>
      BY <2>3
    <2>4. CASE path = <<name>>
      BY <2>4
    <2> QED
      BY <2>1, <2>2, <2>3, <2>4
  <1> QED
    BY <1>1, <1>2, <1>3

\* What is registered under the path of a field has the field's name.
LEMMA EnrichedPath ==
  ASSUME NEW reg, NEW t, NEW f, IsServiceSet(reg, t, f)
  PROVE  /\ buildFieldPath(t, f.name) \in ServiceSetPaths(reg, f.name)
         /\ f.name \in ServiceSetNames(reg)
  <1> DEFINE path == buildFieldPath(t, f.name)
  <1>1. path[Len(path)] = f.name
    BY GuessedName
  <1>2. path \in DOMAIN reg /\ reg[path].writeMode = "service-set"
    BY DEF IsServiceSet
  <1> QED
    BY <1>1, <1>2 DEF ServiceSetPaths, ServiceSetNames

\* One type goes by the name, so a path is looked up with it or not at all.
OneType(src, name, type) ==
  \A u \in Types(src) : \A g \in parseTypes(src, u) : g.name = name => g.type = type

\* A name that only fields of one type have is given that type or the default.
LEMMA InferredType ==
  ASSUME NEW src, NEW name, NEW type, NEW path, path[Len(path)] = name,
         OneType(src, name, type)
  PROVE  /\ inferTypeFromPath(src, path) \in {{type}, {GoString}}
         /\ \A u \in Types(src) : \A g \in parseTypes(src, u) :
              buildFieldPath(u, g.name) = path => inferTypeFromPath(src, path) = {type}
  <1> DEFINE at(t) == {g \in parseTypes(src, t) : buildFieldPath(t, g.name) = path}
             all == UNION {at(t) : t \in Types(src)}
             found == {f.type : f \in all}
  <1>1. ASSUME NEW u \in Types(src), NEW g \in at(u) PROVE g.type = type
    BY <1>1, GuessedName DEF OneType
  <1>2. \A f \in all : f.type = type
    BY <1>1
  <1>3. \A u \in Types(src) : \A g \in at(u) : type \in found
    BY <1>1
  <1>4. inferTypeFromPath(src, path) = IF found = {} THEN {GoString} ELSE found
    BY DEF inferTypeFromPath
  <1>5. found # {} => found = {type}
    <2> HIDE DEF all
    <2> QED
      BY <1>2
  <1>6. ASSUME NEW u \in Types(src), NEW g \in parseTypes(src, u),
               buildFieldPath(u, g.name) = path
        PROVE  type \in found
    BY <1>3, <1>6
  <1> HIDE DEF found
  <1> QED
    BY <1>4, <1>5, <1>6

(* Unproject finds each service-set field, and every service-set field     *)
(* that shares its name with none of another type has its type, as         *)
(* qualifyType writes it.                                                  *)
THEOREM Enrichment == Spec => []EnrichmentTyped
  <1>1. ASSUME Walk, Outputs, generated, NEW t, NEW f, IsServiceSet(registry, t, f)
        PROVE  /\ source \in Sources
               /\ buildFieldPath(t, f.name) \in ServiceSetPaths(registry, f.name)
               /\ f.name \in DOMAIN ssf
               /\ ssf[f.name] = {qualifyType(type) :
                                   type \in MayGetTypes(source, registry, f.name)}
    <2>1. source \in Sources
      BY <1>1, WalkParts
    <2>2. ssf = generateServiceSetFields(source, registry)
      BY <1>1 DEF Outputs
    <2>3. /\ buildFieldPath(t, f.name) \in ServiceSetPaths(registry, f.name)
          /\ f.name \in ServiceSetNames(registry)
      BY <1>1, EnrichedPath
    <2> QED
      BY <2>1, <2>2, <2>3 DEF generateServiceSetFields
  <1>2. ASSUME Walk, Outputs, generated, IsFiniteSet(DOMAIN registry),
               NEW t \in Types(source), NEW f \in parseTypes(source, t),
               IsServiceSet(registry, t, f), OneType(source, f.name, f.type),
               \/ Length[f.type] > Length[GoString]
               \/ Cardinality(ServiceSetPaths(registry, f.name)) = 1
        PROVE  ssf[f.name] = {qualifyType(f.type)}
    <2> DEFINE path == buildFieldPath(t, f.name)
               paths == ServiceSetPaths(registry, f.name)
               yields == {inferTypeFromPath(source, p) : p \in paths}
               Chosen(type) == \A types \in yields : \E other \in types : Length[other] <= Length[type]
               may == MayGetTypes(source, registry, f.name)
    <2>1. /\ source \in Sources /\ path \in paths
          /\ ssf[f.name] = {qualifyType(type) : type \in may}
      BY <1>1, <1>2
    <2>2. Length[f.type] \in Nat /\ Length[GoString] \in Nat
      BY <1>2, <2>1, LengthAssumption DEF parseTypes, Types
    <2>3. \A p \in paths : inferTypeFromPath(source, p) \in {{f.type}, {GoString}}
      BY <1>2, InferredType DEF ServiceSetPaths
    <2>4. inferTypeFromPath(source, path) = {f.type}
      <3>1. path[Len(path)] = f.name
        BY GuessedName
      <3>2. \A u \in Types(source) : \A g \in parseTypes(source, u) :
              buildFieldPath(u, g.name) = path => inferTypeFromPath(source, path) = {f.type}
        <4> HIDE DEF path
        <4> QED
          BY <1>2, <3>1, InferredType, Zenon
      <3> QED
        BY <1>2, <3>2
    <2>5. yields \subseteq {{f.type}, {GoString}} /\ {f.type} \in yields
      BY <2>1, <2>3, <2>4
    <2>6. may = {type \in UNION yields : Chosen(type)}
      BY DEF MayGetTypes
    <2>7. ASSUME Length[f.type] > Length[GoString] PROVE may = {f.type}
      <3> HIDE DEF yields
      <3>1. Chosen(f.type)
        BY <2>2, <2>5, <2>7
      <3>2. ~Chosen(GoString)
        BY <2>2, <2>5, <2>7
      <3>3. UNION yields \subseteq {f.type, GoString} /\ f.type \in UNION yields
        BY <2>5
      <3> QED
        BY <2>6, <3>1, <3>2, <3>3
    <2>8. ASSUME Cardinality(paths) = 1 PROVE may = {f.type}
      <3>1. IsFiniteSet(paths)
        <4>1. paths \subseteq DOMAIN registry
          BY DEF ServiceSetPaths
        <4> QED
          BY <1>2, <4>1, FS_Subset
      <3>2. paths = {path}
        <4>1. \E p : paths = {p}
          BY <2>8, <3>1, FS_Singleton
        <4> QED
          BY <2>1, <4>1
      <3>3. yields = {{f.type}}
        BY <2>4, <3>2
      <3> HIDE DEF yields
      <3> QED
        BY <2>2, <2>6, <3>3
    <2>9. may = {f.type}
      BY <1>2, <2>7, <2>8
    <2> HIDE DEF may
    <2> QED
      BY <2>1, <2>9
  <1>3. ASSUME Walk, Outputs, generated, NEW t \in DOMAIN enrich, NEW f \in enrich[t]
        PROVE  f.name \in DOMAIN ssf
    <2>1. IsServiceSet(registry, t, f)
      BY <1>3 DEF Outputs, Enriched
    <2> QED
      BY <1>1, <1>3, <2>1
  <1>4. Walk /\ Outputs /\ IsFiniteSet(DOMAIN registry) => EnrichmentTyped
    BY <1>1, <1>2, <1>3 DEF EnrichmentTyped, OneType
  <1> QED
    BY <1>4, WalkInvariant, OutputsInvariant, RegistryFinite, PTL

=============================================================================
