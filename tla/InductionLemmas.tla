--------------------------- MODULE InductionLemmas ---------------------------
(***************************************************************************)
(* Induction without operator parameters: a set of counterexamples, if it  *)
(* is not empty, has a least one.  From it: a function defined by          *)
(* recursion over a prefix of the naturals satisfies its own equation.     *)
(***************************************************************************)
EXTENDS Integers, FiniteSetTheorems, WellFoundedInduction, TLAPS

\* A set of natural numbers has a least element.
LEMMA LeastNatural ==
    ASSUME NEW T \in SUBSET Nat, T # {}
    PROVE  \E m \in T : \A n \in T : m <= n
<1>1. PICK m \in T : \A n \in T : ~(<<n, m>> \in OpToRel(<, Nat))
  BY NatLessThanWellFounded, WFMin
<1>2. ASSUME NEW n \in T PROVE m <= n
  <2>1. ~(<<n, m>> \in OpToRel(<, Nat))
    BY <1>1
  <2>2. n \in Nat /\ m \in Nat /\ ~(n < m)
    BY <2>1 DEF OpToRel
  <2> QED
    BY <2>2
<1> QED
  BY <1>2

\* g computes each value from the one before, from 0 upwards.
IsComputedBy(g, N, base, step) ==
    \A n \in 0..N : g[n] = IF n = 0 THEN base ELSE step[<<n, g[n - 1]>>]

\* A function that is computed from 0 upwards, each value from the one before,
\* exists on every prefix of the naturals.
LEMMA PrefixRecursion ==
    ASSUME NEW N \in Nat, NEW A, NEW base \in A, NEW step \in [(1..N) \X A -> A]
    PROVE  \E g \in [0..N -> A] : IsComputedBy(g, N, base, step)
<1> DEFINE Upto(k) == \E g \in [0..k -> A] :
                         \A n \in 0..k : g[n] = IF n = 0 THEN base ELSE step[<<n, g[n - 1]>>]
           T == {k \in 0..N : ~Upto(k)}
<1>1. Upto(0)
  <2> WITNESS [n \in 0..0 |-> base] \in [0..0 -> A]
  <2> QED
    OBVIOUS
<1>2. ASSUME NEW k \in 1..N, Upto(k - 1) PROVE Upto(k)
  <2>1. PICK g \in [0..(k - 1) -> A] :
          \A n \in 0..(k - 1) : g[n] = IF n = 0 THEN base ELSE step[<<n, g[n - 1]>>]
    BY <1>2
  <2> DEFINE h == [n \in 0..k |-> IF n = k THEN step[<<k, g[k - 1]>>] ELSE g[n]]
  <2>2. h \in [0..k -> A]
    <3>1. g[k - 1] \in A
      OBVIOUS
    <3>2. step[<<k, g[k - 1]>>] \in A
      BY <3>1
    <3> QED
      BY <3>2
  <2>3. h[k] = step[<<k, g[k - 1]>>] /\ \A n \in 0..(k - 1) : h[n] = g[n]
    OBVIOUS
  <2> HIDE DEF h
  <2>4. ASSUME NEW n \in 0..k PROVE h[n] = IF n = 0 THEN base ELSE step[<<n, h[n - 1]>>]
    <3>1. CASE n = k
      BY <2>3, <3>1
    <3>2. CASE n # k
      <4>1. n \in 0..(k - 1) /\ (n # 0 => n - 1 \in 0..(k - 1))
        BY <3>2
      <4> QED
        BY <2>1, <2>3, <4>1
    <3> QED
      BY <3>1, <3>2
  <2> QED
    BY <2>2, <2>4
<1>3. T = {}
  <2> SUFFICES ASSUME T # {} PROVE FALSE
    OBVIOUS
  <2>1. T \in SUBSET Nat
    OBVIOUS
  <2> HIDE DEF Upto
  <2>2. PICK m \in T : \A n \in T : m <= n
    BY <2>1, LeastNatural
  <2>3. m # 0 /\ m \in 0..N
    BY <1>1
  <2>4. m - 1 \notin T /\ m - 1 \in 0..N /\ m \in 1..N
    BY <2>2, <2>3
  <2>5. Upto(m - 1)
    BY <2>4
  <2> QED
    BY <1>2, <2>2, <2>4, <2>5
<1> QED
  BY <1>3 DEF IsComputedBy

\* Induction on a prefix of the naturals, about a set of them.
LEMMA PrefixInduction ==
    ASSUME NEW N \in Nat, NEW S, 0 \in S, \A n \in 1..N : n - 1 \in S => n \in S
    PROVE  0..N \subseteq S
<1> DEFINE T == {n \in 0..N : n \notin S}
<1> SUFFICES ASSUME T # {} PROVE FALSE
  OBVIOUS
<1>1. T \in SUBSET Nat
  OBVIOUS
<1> HIDE DEF T
<1>2. PICK m \in T : \A n \in T : m <= n
  BY <1>1, LeastNatural
<1>3. m \in 1..N /\ m - 1 \in S
  BY <1>1, <1>2 DEF T
<1> QED
  BY <1>2, <1>3 DEF T
=============================================================================
