-------------------------- MODULE ValidationProofs --------------------------
(***************************************************************************)
(* What the validator's operators compute, for every registry and every    *)
(* set of gates.                                                           *)
(***************************************************************************)
EXTENDS Validation, WellFoundedInduction, TLAPS

(* A non-empty set of naturals has a least element. *)
LEMMA LeastElement ==
  ASSUME NEW S \in SUBSET Nat, S # {}
  PROVE  \E i \in S : \A j \in S : i <= j
  <1>1. IsWellFoundedOn(OpToRel(<, Nat), Nat)
    BY NatLessThanWellFounded
  <1>2. PICK i \in S : \A j \in S : ~(<<j, i>> \in OpToRel(<, Nat))
    BY <1>1, WFMin
  <1>3. \A j \in S : ~(j < i)
    BY <1>2 DEF OpToRel
  <1>4. i \in S
    BY <1>2
  <1> QED
    BY <1>3, <1>4

(* FirstMode is the write mode of one of the matching overrides, and no    *)
(* matching override comes before it.                                      *)
LEMMA FirstModeIsFirst ==
  ASSUME NEW meta, IsFieldMeta(meta), NEW gates,
         Matching(meta.overrides, gates) # {}
  PROVE  \E i \in Matching(meta.overrides, gates) :
           /\ FirstMode(meta.overrides, gates) = meta.overrides[i].writeMode
           /\ \A j \in Matching(meta.overrides, gates) : i <= j
  <1> DEFINE M == Matching(meta.overrides, gates)
             i == CHOOSE k \in M : \A j \in M : k <= j
  <1>1. M \in SUBSET Nat
    <2>1. meta.overrides \in Seq([featureGate : STRING, writeMode : WriteMode])
      BY DEF IsFieldMeta
    <2> QED
      BY <2>1 DEF Matching
  <1>2. \E k \in M : \A j \in M : k <= j
    BY <1>1, LeastElement
  <1>3. i \in M /\ \A j \in M : i <= j
    BY <1>2
  <1>4. FirstMode(meta.overrides, gates) = meta.overrides[i].writeMode
    BY DEF FirstMode
  <1> QED
    BY <1>3, <1>4

(* A field whose base mode and overrides all name one mode has that mode   *)
(* under every set of gates.                                               *)
LEMMA UniformMode ==
  ASSUME NEW meta, IsFieldMeta(meta), NEW gates, NEW mode,
         meta.writeMode = mode,
         \A i \in DOMAIN meta.overrides : meta.overrides[i].writeMode = mode
  PROVE  EffectiveMode(meta, gates) = mode
  <1>1. ASSUME NEW gs, Matching(meta.overrides, gs) # {}
        PROVE  FirstMode(meta.overrides, gs) = mode
    <2>1. PICK i \in Matching(meta.overrides, gs) :
            FirstMode(meta.overrides, gs) = meta.overrides[i].writeMode
      BY <1>1, FirstModeIsFirst
    <2>2. i \in DOMAIN meta.overrides
      BY DEF Matching
    <2> QED
      BY <2>1, <2>2
  <1>2. SpecificMode(meta, gates) = mode
    BY <1>1 DEF SpecificMode
  <1> QED
    BY <1>1, <1>2 DEF EffectiveMode

(* On a regular list of overrides the enforced mode is the documented one. *)
THEOREM RegularIsDocumented ==
  ASSUME NEW meta, IsFieldMeta(meta), RegularOverrides(meta), NEW gates
  PROVE  EffectiveMode(meta, gates) = PriorityMode(meta, gates)
  <1> DEFINE specific == Matching(meta.overrides, gates \ {NoGate})
             default  == Matching(meta.overrides, {NoGate})
  <1>1. CASE specific = {}
    BY <1>1 DEF EffectiveMode, PriorityMode, SpecificMode
  <1>2. CASE default = {}
    BY <1>2 DEF EffectiveMode, PriorityMode, SpecificMode
  <1>3. CASE FirstMode(meta.overrides, {NoGate}) = meta.writeMode
    BY <1>3 DEF EffectiveMode, PriorityMode, SpecificMode
  <1>4. CASE /\ specific # {}
             /\ \A i \in DOMAIN meta.overrides :
                  meta.overrides[i].featureGate # NoGate
                    => meta.overrides[i].writeMode # meta.writeMode
    <2>1. PICK i \in specific :
            FirstMode(meta.overrides, gates \ {NoGate}) = meta.overrides[i].writeMode
      BY <1>4, FirstModeIsFirst
    <2>2. SpecificMode(meta, gates) # meta.writeMode
      BY <1>4, <2>1 DEF SpecificMode, Matching
    <2> QED
      BY <1>4, <2>2 DEF EffectiveMode, PriorityMode, SpecificMode
  <1> QED
    BY <1>1, <1>2, <1>3, <1>4 DEF RegularOverrides

(* An accepted request has no field that its gate or its mode forbids. *)
LEMMA AcceptedFields ==
  ASSUME NEW req, Accepts(req), NEW f \in req.fields, Registered(f)
  PROVE  GateAllows(f, req) /\ ModeAllows(f, req)
  <1>1. GateAllows(f, req)
    <2>1. SUFFICES ASSUME ~GateAllows(f, req) PROVE FALSE
      OBVIOUS
    <2>2. <<f, "gate">> \in Validate(req)
      BY <2>1 DEF Validate
    <2> QED
      BY <2>2 DEF Accepts
  <1>2. ModeAllows(f, req)
    <2>1. SUFFICES ASSUME ~ModeAllows(f, req) PROVE FALSE
      OBVIOUS
    <2>2. <<f, "mode">> \in Validate(req)
      BY <1>1, <2>1 DEF Validate
    <2> QED
      BY <2>2 DEF Accepts
  <1> QED
    BY <1>1, <1>2

=============================================================================
