---------------------------- MODULE MarkerScanner ----------------------------
(***************************************************************************)
(* pkg/markers/scanner.go, step by step: the walk over files and structs   *)
(* that makes the field registry.  Files, cached types and root types come *)
(* from Go maps, so their order is open.  A named type is descended into   *)
(* when it is in the cache AT THAT TIME, and the recursion has no memory   *)
(* of the types it is inside of.                                           *)
(*                                                                         *)
(* A Go type is <<stem, suffix>>: only the suffix decides what a scanner   *)
(* or a generator does with it.  Pointers, slices and maps of a type are   *)
(* seen through.  A path is the sequence of the JSON names.                *)
(***************************************************************************)
EXTENDS Markers

CONSTANTS
  Sources,    \* the sources to scan, all the type declarations of a package
  MaxDepth    \* bound: the depth at which the Go stack overflows

Suffix(type) == type[2]
ClusterReference == <<"ClusterReference", "">>

(* A field: its JSON name ("" for none), whether it is embedded, what its  *)
(* markers say, whether they stand above the field or at the end of its    *)
(* line, whether a write-mode marker has a value that is no mode, and its  *)
(* type, which may be one that is declared elsewhere.                      *)
GoType == STRING \X STRING

StructField == [name : STRING, embedded : BOOLEAN, policy : DocPolicy, above : BOOLEAN,
                mistyped : BOOLEAN, type : GoType]

\* A source gives each struct type its file and its fields.
IsSource(src) ==
  /\ DOMAIN src = {"file", "fields"}
  /\ DOMAIN src.file = DOMAIN src.fields
  /\ \A t \in DOMAIN src.fields : src.fields[t] \in Seq(StructField)

ASSUME ScannerAssumption ==
  /\ \A src \in Sources : /\ IsSource(src)
                          /\ IsFiniteSet(DOMAIN src.fields)
                          /\ MaxDepth > Cardinality(DOMAIN src.fields)
  /\ MaxDepth \in Nat

VARIABLES
  source,     \* what is scanned
  filesLeft,  \* the files not yet scanned
  cache,      \* MarkerScanner.typeCache, the type names
  rootsLeft,  \* the root types this scanFile has still to process
  stack,      \* the processStruct calls: parent path, fields still to do
  registry,   \* MarkerScanner.Registry
  crashed     \* the Go stack overflowed

scanVars == <<source, filesLeft, cache, rootsLeft, stack, registry, crashed>>

Types(src) == DOMAIN src.fields
Files(src) == {src.file[t] : t \in Types(src)}

isRootType(type) ==
  /\ Suffix(type) \notin {"Spec", "Status", "List", "Passthrough"}
  /\ type # ClusterReference

\* extractMarkers reads the comment above the field only.
Registers(field) == field.above /\ HasMarker(field.policy)

-----------------------------------------------------------------------------

ScanInit ==
  /\ source \in Sources
  /\ filesLeft = Files(source)
  /\ cache = {} /\ rootsLeft = {} /\ stack = <<>>
  /\ registry = [p \in {} |-> {}]
  /\ crashed = FALSE

FileDone == rootsLeft = {} /\ stack = <<>> /\ ~crashed
Done == FileDone /\ filesLeft = {}

\* Mutant: only the root types of the file itself are processed.
ScanFile_OwnRoots(file) ==
  /\ FileDone /\ file \in filesLeft
  /\ filesLeft' = filesLeft \ {file}
  /\ cache' = cache \cup {t \in Types(source) : source.file[t] = file}
  /\ rootsLeft' = {t \in cache' \ cache : isRootType(t)}
  /\ UNCHANGED <<source, stack, registry, crashed>>

\* Mutant: root types of files that are not parsed yet are processed.
ScanFile_NotCached(file) ==
  /\ FileDone /\ file \in filesLeft
  /\ filesLeft' = filesLeft \ {file}
  /\ cache' = cache \cup {t \in Types(source) : source.file[t] = file}
  /\ rootsLeft' = {t \in Types(source) : isRootType(t)}
  /\ UNCHANGED <<source, stack, registry, crashed>>

\* The types of the file are cached, then ALL cached root types are
\* processed, those of the files before it once more.
ScanFile(file) ==
  /\ FileDone /\ file \in filesLeft
  /\ filesLeft' = filesLeft \ {file}
  /\ cache' = cache \cup {t \in Types(source) : source.file[t] = file}
  /\ rootsLeft' = {t \in cache' : isRootType(t)}
  /\ UNCHANGED <<source, stack, registry, crashed>>

Call(path, type) == [path |-> path, todo |-> source.fields[type]]

processRoot(type) ==
  /\ stack = <<>> /\ ~crashed
  /\ type \in rootsLeft
  /\ rootsLeft' = rootsLeft \ {type}
  /\ stack' = <<Call(<<>>, type)>>
  /\ UNCHANGED <<source, filesLeft, cache, registry, crashed>>

Register(path, policy) ==
  [p \in DOMAIN registry \cup {path} |-> IF p = path THEN policy ELSE registry[p]]

Top == stack[Len(stack)]
Callers == SubSeq(stack, 1, Len(stack) - 1)

\* Mutant: the field is still to do when its type has been processed.
processField_Again ==
  LET field == Head(Top.todo)
      path  == Append(Top.path, field.name)
  IN  /\ stack # <<>> /\ ~crashed /\ Top.todo # <<>>
      /\ registry' = IF field.name # "" /\ Registers(field)
                       THEN Register(path, field.policy) ELSE registry
      /\ IF field.name # "" /\ field.type \in cache
           THEN /\ crashed' = (Len(stack) = MaxDepth)
                /\ stack' = Append(stack, Call(path, field.type))
           ELSE /\ stack' = Append(Callers, [Top EXCEPT !.todo = Tail(@)])
                /\ UNCHANGED crashed
      /\ UNCHANGED <<source, filesLeft, cache, rootsLeft>>

\* One field: its entry, overwriting one of the same path, and the call of
\* processNestedType for its type.
processField ==
  LET field == Head(Top.todo)
      path  == Append(Top.path, field.name)
      rest  == Append(Callers, [Top EXCEPT !.todo = Tail(@)])
  IN  /\ stack # <<>> /\ ~crashed /\ Top.todo # <<>>
      /\ registry' = IF field.name # "" /\ Registers(field)
                       THEN Register(path, field.policy) ELSE registry
      /\ IF field.name # "" /\ field.type \in cache
           THEN /\ crashed' = (Len(stack) = MaxDepth)
                /\ stack' = Append(rest, Call(path, field.type))
           ELSE stack' = rest /\ UNCHANGED crashed
      /\ UNCHANGED <<source, filesLeft, cache, rootsLeft>>

return ==
  /\ stack # <<>> /\ ~crashed /\ Top.todo = <<>>
  /\ stack' = Callers
  /\ UNCHANGED <<source, filesLeft, cache, rootsLeft, registry, crashed>>

ScanNext ==
  \/ \E file \in filesLeft : ScanFile(file)
  \/ \E type \in rootsLeft : processRoot(type)
  \/ processField
  \/ return

=============================================================================
