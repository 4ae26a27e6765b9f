------------------------------ MODULE Induction ------------------------------
(***************************************************************************)
(* Induction over an interval of numbers and the existence of functions    *)
(* that are defined by recursion over one, as facts about sets: they need  *)
(* no operator as a parameter.                                             *)
(***************************************************************************)
EXTENDS Integers, TLAPS, WellFoundedInduction

\* A set that has 0 and the successors of its numbers has the interval.
LEMMA IntervalInduction ==
    ASSUME NEW N \in Nat, NEW P, 0 \in P,
           \A n \in 0 .. N - 1 : n \in P => n + 1 \in P
    PROVE  0 .. N \subseteq P
<1> DEFINE T == (0 .. N) \ P
<1> SUFFICES ASSUME T # {}
             PROVE  FALSE
  OBVIOUS
<1>1. T \subseteq Nat
  OBVIOUS
<1>2. \E n \in T : \A m \in T : <<m, n>> \notin OpToRel(<, Nat)
  BY <1>1, WFMin, NatLessThanWellFounded
<1>3. PICK n \in T : \A m \in T : ~(m < n)
  BY <1>1, <1>2 DEF OpToRel
<1>4. n \in 1 .. N
  OBVIOUS
<1>5. n - 1 \in 0 .. N - 1 /\ n - 1 < n /\ n = (n - 1) + 1
  BY <1>4
<1>6. n - 1 \in P
  BY <1>3, <1>5
<1> QED
  BY <1>5, <1>6

IsRecursive(f, N, base, step) ==
    f[0] = base /\ \A n \in 1 .. N : f[n] = step[n][f[n - 1]]

\* Values from V, one from the one before it by steps that stay in V.
LEMMA IntervalRecursion ==
    ASSUME NEW N \in Nat, NEW V, NEW base \in V, NEW step \in [1 .. N -> [V -> V]]
    PROVE  \E f \in [0 .. N -> V] : IsRecursive(f, N, base, step)
<1> DEFINE IsUpTo(f, m) == /\ f \in [0 .. m -> V] /\ f[0] = base
                           /\ \A n \in 1 .. m : f[n] = step[n][f[n - 1]]
           P == {m \in 0 .. N : \E f : IsUpTo(f, m)}
<1>1. 0 \in P
  <2>1. IsUpTo([n \in 0 .. 0 |-> base], 0)
    OBVIOUS
  <2> HIDE DEF IsUpTo
  <2> QED
    BY <2>1
<1>2. ASSUME NEW m \in 0 .. N - 1, m \in P
      PROVE  m + 1 \in P
  <2>1. PICK f : IsUpTo(f, m)
    BY <1>2
  <2> DEFINE g == [n \in 0 .. m + 1 |-> IF n = m + 1 THEN step[m + 1][f[m]] ELSE f[n]]
  <2>2. step[m + 1][f[m]] \in V
    <3>1. f[m] \in V /\ step[m + 1] \in [V -> V]
      BY <2>1
    <3> QED
      BY <3>1
  <2>3. g \in [0 .. m + 1 -> V] /\ g[0] = base
    BY <2>1, <2>2
  <2>4. ASSUME NEW n \in 1 .. m + 1
        PROVE  g[n] = step[n][g[n - 1]]
    <3>1. n - 1 \in 0 .. m /\ g[n - 1] = f[n - 1]
      OBVIOUS
    <3>2. CASE n = m + 1
      BY <3>1, <3>2
    <3>3. CASE n \in 1 .. m
      BY <2>1, <3>1, <3>3
    <3> QED
      BY <3>2, <3>3
  <2> HIDE DEF g
  <2>5. IsUpTo(g, m + 1)
    BY <2>3, <2>4
  <2> QED
    BY <2>5
<1> HIDE DEF P
<1>3. 0 .. N \subseteq P
  BY <1>1, <1>2, IntervalInduction
<1>4. N \in P
  BY <1>3
<1> QED
  BY <1>4 DEF P, IsRecursive
===============================================================================
