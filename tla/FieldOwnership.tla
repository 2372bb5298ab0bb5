---------------------------- MODULE FieldOwnership ----------------------------
(***************************************************************************)
(* What the write path of the API promises of a stored spec, with no       *)
(* requests, gates or conversions: who may write each field, and when.     *)
(* Updates are merged into the spec.                                       *)
(***************************************************************************)
CONSTANTS
  Field,
  PlatformField,   \* fields no customer writes
  Injected,        \* fields the platform may write, or empty, with any update
  WriteOnce,       \* fields that keep the first value they get
  CustomerValue, PlatformValue, Zero

VARIABLES exists, spec

Value == CustomerValue \cup PlatformValue \cup {Zero}

Init ==
  /\ exists = FALSE
  /\ spec = [f \in Field |-> Zero]

Create ==
  /\ ~exists /\ exists' = TRUE
  /\ spec' \in [Field -> Value]
  /\ \A f \in PlatformField : spec'[f] \notin CustomerValue

\* An update gives customers' fields values and takes none away; the
\* platform's part of it is what it injects.
Update ==
  /\ exists /\ UNCHANGED exists
  /\ spec' \in [Field -> Value]
  /\ \A f \in Field :
       \/ spec'[f] = spec[f]
       \/ f \in Injected /\ spec'[f] \in PlatformValue \cup {Zero}
       \/ /\ f \notin PlatformField
          /\ spec'[f] \in CustomerValue
          /\ f \in WriteOnce => spec[f] = Zero

Next == Create \/ Update

Spec == Init /\ [][Next]_<<exists, spec>>

=============================================================================
