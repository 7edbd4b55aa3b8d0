----------------------------- MODULE Recursion -----------------------------
(***************************************************************************)
(* Induction over the naturals and functions defined by recursion over     *)
(* them, stated with sets and functions in place of operators: what the    *)
(* proofs about loops need.                                                *)
(***************************************************************************)
EXTENDS Integers, WellFoundedInduction, TLAPS

\* Induction: no least number lies outside a set that has 0 and, with every
\* number, the next.
LEMMA EveryNumber ==
  ASSUME NEW T, 0 \in T, \A n \in Nat : n \in T => n + 1 \in T
  PROVE  Nat \subseteq T
  <1> DEFINE O == Nat \ T
  <1>1. SUFFICES ASSUME O # {} PROVE FALSE
    OBVIOUS
  <1>2. \E x \in O : \A y \in O : ~(<<y, x>> \in OpToRel(<, Nat))
    <2>1. O \in SUBSET Nat
      OBVIOUS
    <2> HIDE DEF O
    <2> QED
      BY <1>1, <2>1, NatLessThanWellFounded, WFMin
  <1>3. \A x, y \in Nat : y < x => <<y, x>> \in OpToRel(<, Nat)
    BY DEF OpToRel
  <1>4. PICK x \in O : \A y \in O : ~(y < x)
    <2> HIDE DEF O
    <2>1. \A x \in O : x \in Nat
      BY DEF O
    <2> QED
      BY <1>2, <1>3, <2>1
  <1>5. x \in Nat /\ x \notin T /\ x # 0
    OBVIOUS
  <1>6. x - 1 \in Nat /\ x - 1 < x /\ (x - 1) + 1 = x
    BY <1>5
  <1>7. x - 1 \in T
    BY <1>4, <1>6
  <1> QED
    BY <1>5, <1>6, <1>7

\* The values of a loop before and after each of n steps.
IsLoop(f, start, n, body) ==
  \A k \in 0 .. n : f[k] = IF k = 0 THEN start ELSE body[k][f[k - 1]]

\* A loop whose steps stay in a set has such values.
LEMMA LoopExists ==
  ASSUME NEW S, NEW start \in S, NEW n \in Nat, NEW body \in [1 .. n -> [S -> S]]
  PROVE  \E f \in [0 .. n -> S] : IsLoop(f, start, n, body)
  <1> DEFINE Loop(m, f) ==
               /\ f \in [0 .. m -> S]
               /\ \A k \in 0 .. m : f[k] = IF k = 0 THEN start ELSE body[k][f[k - 1]]
             T == {m \in Nat : m <= n => \E f : Loop(m, f)}
  <1>1. 0 \in T
    <2>1. Loop(0, [k \in 0 .. 0 |-> start])
      OBVIOUS
    <2> QED
      BY <2>1
  <1>2. ASSUME NEW m \in Nat, m \in T
        PROVE  m + 1 \in T
    <2>1. SUFFICES ASSUME m + 1 <= n PROVE \E f : Loop(m + 1, f)
      OBVIOUS
    <2>2. PICK f : Loop(m, f)
      BY <1>2, <2>1
    <2>3. body[m + 1] \in [S -> S] /\ f[m] \in S
      BY <2>1, <2>2
    <2> DEFINE g == [k \in 0 .. m + 1 |-> IF k <= m THEN f[k] ELSE body[m + 1][f[m]]]
    <2>4. g \in [0 .. m + 1 -> S]
      BY <2>2, <2>3
    <2>5. ASSUME NEW k \in 0 .. m + 1
          PROVE  g[k] = IF k = 0 THEN start ELSE body[k][g[k - 1]]
      <3>1. CASE k = 0
        BY <2>2, <3>1
      <3>2. CASE k \in 1 .. m
        <4>1. k - 1 \in 0 .. m /\ k - 1 \in 0 .. m + 1 /\ k \in 0 .. m /\ k # 0
          BY <3>2
        <4>2. g[k] = f[k] /\ g[k - 1] = f[k - 1]
          BY <4>1
        <4>3. f[k] = body[k][f[k - 1]]
          BY <2>2, <4>1
        <4> QED
          BY <4>1, <4>2, <4>3
      <3>3. CASE k = m + 1
        <4>1. k - 1 = m /\ m \in 0 .. m + 1 /\ ~(k <= m) /\ k # 0 /\ m <= m
          BY <3>3
        <4>2. g[k] = body[m + 1][f[m]] /\ g[k - 1] = f[m]
          BY <4>1
        <4> QED
          BY <3>3, <4>1, <4>2
      <3> QED
        BY <3>1, <3>2, <3>3
    <2> HIDE DEF g
    <2>6. Loop(m + 1, g)
      BY <2>4, <2>5
    <2> QED
      BY <2>6
  <1> HIDE DEF T
  <1>3. n \in T
    BY <1>1, <1>2, EveryNumber
  <1>4. PICK f : Loop(n, f)
    BY <1>3 DEF T
  <1> QED
    BY <1>4 DEF IsLoop
=============================================================================
