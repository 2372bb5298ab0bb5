------------------------------- MODULE NatSets -------------------------------
(***************************************************************************)
(* Induction over the natural numbers as a fact about sets of numbers, and *)
(* the existence of functions defined by recursion, as a fact about        *)
(* functions: no parameter is an operator, so that both can be cited.      *)
(***************************************************************************)
EXTENDS Naturals, FiniteSetTheorems, TLAPS

(* A set with 0 and the successor of each of its numbers has them all: the *)
(* successor would map its finite part below a missing number into that    *)
(* part without 0.                                                         *)
LEMMA SetInduction ==
  ASSUME NEW S, 0 \in S, \A k \in Nat : k \in S => k + 1 \in S,
         NEW n \in Nat
  PROVE  n \in S
  <1> SUFFICES ASSUME n \notin S PROVE FALSE
    OBVIOUS
  <1> DEFINE A == S \cap (0 .. n)
             f == [k \in A |-> k + 1]
  <1>1. IsFiniteSet(A) /\ 0 \in A
    <2>1. IsFiniteSet(0 .. n)
      BY FS_Interval
    <2>2. A \subseteq 0 .. n
      OBVIOUS
    <2> QED
      BY <2>1, <2>2, FS_Subset
  <1>2. f \in [A -> A \ {0}]
    OBVIOUS
  <1>3. IsFiniteSet(A \ {0}) /\ Cardinality(A \ {0}) < Cardinality(A)
    <2> HIDE DEF A
    <2>1. Cardinality(A) \in Nat
      BY <1>1, FS_CardinalityType
    <2>2. /\ IsFiniteSet(A \ {0})
          /\ Cardinality(A \ {0}) = IF 0 \in A THEN Cardinality(A) - 1 ELSE Cardinality(A)
      BY <1>1, FS_RemoveElement, Zenon
    <2> QED
      BY <1>1, <2>1, <2>2
  <1>4. PICK k \in A, l \in A : k # l /\ f[k] = f[l]
    <2> HIDE DEF A, f
    <2> QED
      BY <1>1, <1>2, <1>3, FS_PigeonHole, Zenon
  <1> QED
    BY <1>4

\* The same from 1 up to a bound.
LEMMA BoundedInduction ==
  ASSUME NEW N \in Nat, NEW S, N > 0 => 1 \in S,
         \A k \in 1 .. N : k < N /\ k \in S => k + 1 \in S,
         NEW n \in 1 .. N
  PROVE  n \in S
  <1> DEFINE T == {k \in Nat : k \in 1 .. N => k \in S}
  <1>1. 0 \in T
    OBVIOUS
  <1>2. \A k \in Nat : k \in T => k + 1 \in T
    <2> TAKE k \in Nat
    <2>1. CASE k = 0
      BY <2>1
    <2>2. CASE k # 0 /\ k < N
      BY <2>2
    <2>3. CASE k # 0 /\ ~(k < N)
      BY <2>3
    <2> QED
      BY <2>1, <2>2, <2>3
  <1>3. n \in T
    <2> HIDE DEF T
    <2> QED
      BY <1>1, <1>2, SetInduction
  <1> QED
    BY <1>3

(* A first value and a step, which may look at the position, define a      *)
(* function on 1 .. N.                                                     *)
Iterates(g, D, first, step, N) ==
  /\ g \in [1 .. N -> D]
  /\ \A n \in 1 .. N : g[n] = IF n = 1 THEN first ELSE step[<<n, g[n - 1]>>]

\* Such a function exists for every first value and every step.
LEMMA RecursiveFunction ==
  ASSUME NEW D, NEW first \in D, NEW step \in [Nat \X D -> D], NEW N \in Nat
  PROVE  \E g : Iterates(g, D, first, step, N)
  <1> DEFINE S == {M \in Nat : \E g : Iterates(g, D, first, step, M)}
  <1>1. 0 \in S
    <2>1. Iterates([n \in 1 .. 0 |-> first], D, first, step, 0)
      BY 1 .. 0 = {} DEF Iterates
    <2> QED
      BY <2>1
  <1>2. ASSUME NEW M \in Nat, M \in S PROVE M + 1 \in S
    <2>1. PICK g : Iterates(g, D, first, step, M)
      BY <1>2
    <2> DEFINE last == IF M = 0 THEN first ELSE step[<<M + 1, g[M]>>]
               h == [n \in 1 .. M + 1 |-> IF n = M + 1 THEN last ELSE g[n]]
    <2>2. last \in D
      BY <2>1 DEF Iterates
    <2>3. last = IF M + 1 = 1 THEN first ELSE step[<<M + 1, g[M]>>]
      OBVIOUS
    <2> HIDE DEF last
    <2>4. h \in [1 .. M + 1 -> D]
      BY <2>1, <2>2 DEF Iterates
    <2>5. h[M + 1] = last /\ \A n \in 1 .. M : h[n] = g[n]
      OBVIOUS
    <2> HIDE DEF h
    <2>6. ASSUME NEW n \in 1 .. M + 1
          PROVE  h[n] = IF n = 1 THEN first ELSE step[<<n, h[n - 1]>>]
      <3>1. CASE n = M + 1
        <4>1. M # 0 => h[M] = g[M]
          BY <2>5
        <4>2. n - 1 = M
          BY <3>1
        <4> QED
          BY <2>3, <2>5, <3>1, <4>1, <4>2
      <3>2. CASE n # M + 1
        <4>1. n \in 1 .. M /\ (n # 1 => n - 1 \in 1 .. M)
          BY <3>2
        <4> QED
          BY <2>1, <2>5, <4>1 DEF Iterates
      <3> QED
        BY <3>1, <3>2
    <2>7. Iterates(h, D, first, step, M + 1)
      BY <2>4, <2>6 DEF Iterates
    <2> QED
      BY <2>7
  <1>3. N \in S
    <2> HIDE DEF S
    <2> QED
      BY <1>1, <1>2, SetInduction
  <1> QED
    BY <1>3

(* The same from 0, where the first value is given and each step looks at  *)
(* its position.                                                           *)
IteratesFromZero(g, D, first, step, N) ==
  /\ g \in [0 .. N -> D]
  /\ g[0] = first
  /\ \A n \in 1 .. N : g[n] = step[<<n, g[n - 1]>>]

\* The same for the one that starts at 0.
LEMMA RecursiveFromZero ==
  ASSUME NEW D, NEW first \in D, NEW step \in [Nat \X D -> D], NEW N \in Nat
  PROVE  \E g : IteratesFromZero(g, D, first, step, N)
  <1> DEFINE S == {M \in Nat : \E g : IteratesFromZero(g, D, first, step, M)}
  <1>1. 0 \in S
    <2>1. IteratesFromZero([n \in 0 .. 0 |-> first], D, first, step, 0)
      BY DEF IteratesFromZero
    <2> QED
      BY <2>1
  <1>2. ASSUME NEW M \in Nat, M \in S PROVE M + 1 \in S
    <2>1. PICK g : IteratesFromZero(g, D, first, step, M)
      BY <1>2
    <2> DEFINE last == step[<<M + 1, g[M]>>]
               h == [n \in 0 .. M + 1 |-> IF n = M + 1 THEN last ELSE g[n]]
    <2>2. last \in D
      BY <2>1 DEF IteratesFromZero
    <2>3. last = step[<<M + 1, g[M]>>]
      OBVIOUS
    <2> HIDE DEF last
    <2>4. h \in [0 .. M + 1 -> D]
      BY <2>1, <2>2 DEF IteratesFromZero
    <2>5. h[M + 1] = last /\ \A n \in 0 .. M : h[n] = g[n]
      OBVIOUS
    <2> HIDE DEF h
    <2>6. ASSUME NEW n \in 1 .. M + 1
          PROVE  h[n] = step[<<n, h[n - 1]>>]
      <3>1. n - 1 \in 0 .. M /\ h[n - 1] = g[n - 1]
        BY <2>5
      <3>2. CASE n = M + 1
        <4>1. n - 1 = M
          BY <3>2
        <4> QED
          BY <2>3, <2>5, <3>1, <3>2, <4>1
      <3>3. CASE n # M + 1
        <4>1. n \in 1 .. M /\ n \in 0 .. M
          BY <3>3
        <4> QED
          BY <2>1, <2>5, <3>1, <4>1 DEF IteratesFromZero
      <3> QED
        BY <3>2, <3>3
    <2>7. h[0] = first
      BY <2>1, <2>5 DEF IteratesFromZero
    <2>8. IteratesFromZero(h, D, first, step, M + 1)
      BY <2>4, <2>6, <2>7 DEF IteratesFromZero
    <2> QED
      BY <2>8
  <1>3. N \in S
    <2> HIDE DEF S
    <2> QED
      BY <1>1, <1>2, SetInduction
  <1> QED
    BY <1>3

=============================================================================
