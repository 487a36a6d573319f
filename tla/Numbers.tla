-------------------------------- MODULE Numbers --------------------------------
(***************************************************************************)
(* Facts about natural numbers that the other proofs share.  Induction, in *)
(* a form without predicates as parameters: over a set that holds 0 and    *)
(* the successor of each of its members.  From it, that a function defined *)
(* by recursion over the naturals exists; powers of two; and quotients.    *)
(***************************************************************************)
EXTENDS Integers, Powers, FiniteSetTheorems, TLAPS

(* Every nonempty set of naturals has a least member: finite sets are well *)
(* founded by inclusion, and 0..n includes 0..m just if n is no less.      *)
LEMMA LeastMember ==
  ASSUME NEW T, T \subseteq Nat, T # {}
  PROVE  \E m \in T : \A n \in T : m <= n
<1> DEFINE U == {0..n : n \in T}
<1>1. U \subseteq FiniteSubsetsOf(Nat) /\ U # {}
  <2>1. \A n \in T : IsFiniteSet(0..n) /\ 0..n \in SUBSET Nat
    BY FS_Interval
  <2> QED BY <2>1 DEF FiniteSubsetsOf
<1>2. \E x \in U : \A y \in U : <<y, x>> \notin StrictSubsetOrdering(Nat)
  <2> HIDE DEF U
  <2> QED BY <1>1, FS_StrictSubsetOrderingWellFounded, WFMin
<1>3. PICK m \in T : \A n \in T : <<0..n, 0..m>> \notin StrictSubsetOrdering(Nat)
  BY <1>2
<1>4. ASSUME NEW n \in T, n < m PROVE FALSE
  <2>1. /\ 0..n \in SUBSET Nat /\ 0..m \in SUBSET Nat
        /\ 0..n \subseteq 0..m /\ 0..n # 0..m
    <3>1. m \in 0..m /\ m \notin 0..n
      BY <1>4
    <3> QED BY <1>4, <3>1
  <2> QED BY <1>3, <2>1 DEF StrictSubsetOrdering
<1> QED BY <1>4

LEMMA SetInduction ==
  ASSUME NEW T, 0 \in T, \A n \in Nat : n \in T => n + 1 \in T
  PROVE  Nat \subseteq T
<1> SUFFICES ASSUME Nat \ T # {} PROVE FALSE
  OBVIOUS
<1>1. PICK m \in Nat \ T : \A n \in Nat \ T : m <= n
  BY LeastMember
<1>2. m - 1 \in Nat /\ m - 1 \in T
  BY <1>1
<1> QED BY <1>1, <1>2

(* f is defined by recursion: from c, by step.                             *)
IsRecursion(f, S, c, step) ==
  /\ f \in [Nat -> S]
  /\ f[0] = c
  /\ \A n \in Nat : f[n + 1] = step[<<n, f[n]>>]

(* Such a function exists: its finite initial segments exist and agree     *)
(* with each other.                                                        *)
LEMMA PrimitiveRecursion ==
  ASSUME NEW S, NEW c \in S, NEW step \in [Nat \X S -> S]
  PROVE  \E f : IsRecursion(f, S, c, step)
<1> DEFINE Segment(n) ==
      {g \in [0..n -> S] : g[0] = c /\ \A i \in 0..(n - 1) : g[i + 1] = step[<<i, g[i]>>]}
<1>1. \A n \in Nat : Segment(n) # {}
  <2> DEFINE T == {n \in Nat : Segment(n) # {}}
  <2>1. 0 \in T
    <3>1. [i \in 0..0 |-> c] \in Segment(0)
      OBVIOUS
    <3> QED BY <3>1
  <2>2. ASSUME NEW n \in Nat, n \in T PROVE n + 1 \in T
    <3>1. PICK g : g \in Segment(n)
      BY <2>2
    <3> DEFINE h == [i \in 0..(n + 1) |-> IF i = n + 1 THEN step[<<n, g[n]>>] ELSE g[i]]
    <3>2. g \in [0..n -> S] /\ n \in 0..n /\ g[n] \in S
      BY <3>1
    <3>3. h \in [0..(n + 1) -> S]
      <4>1. step[<<n, g[n]>>] \in S
        BY <3>2
      <4>2. \A i \in 0..(n + 1) : i # n + 1 => g[i] \in S
        BY <3>2
      <4> QED BY <4>1, <4>2
    <3>4. h[0] = c
      BY <3>1
    <3>5. ASSUME NEW i \in 0..((n + 1) - 1) PROVE h[i + 1] = step[<<i, h[i]>>]
      <4>1. i \in 0..(n + 1) /\ i + 1 \in 0..(n + 1) /\ i # n + 1
        BY <3>5
      <4>2. CASE i = n
        BY <4>1, <4>2
      <4>3. CASE i # n
        BY <4>1, <4>3, <3>1
      <4> QED BY <4>2, <4>3
    <3>6. h \in Segment(n + 1)
      <4>1. \A i \in 0..((n + 1) - 1) : h[i + 1] = step[<<i, h[i]>>]
        BY <3>5
      <4> HIDE DEF h
      <4> QED BY <3>3, <3>4, <4>1
    <3>7. Segment(n + 1) # {}
      <4> HIDE DEF Segment, h
      <4> QED BY <3>6
    <3> QED BY <3>7
  <2> HIDE DEF T
  <2>3. Nat \subseteq T
    BY <2>1, <2>2, SetInduction
  <2> QED BY <2>3 DEF T
<1>2. ASSUME NEW n \in Nat, NEW g \in Segment(n), NEW h \in Segment(n + 1)
      PROVE  g[n] = h[n]
  <2> DEFINE T == {i \in Nat : i <= n => g[i] = h[i]}
  <2>1. 0 \in T
    OBVIOUS
  <2>2. ASSUME NEW i \in Nat, i \in T PROVE i + 1 \in T
    <3>1. CASE i + 1 <= n
      <4>1. g[i + 1] = step[<<i, g[i]>>] /\ h[i + 1] = step[<<i, h[i]>>] /\ g[i] = h[i]
        BY <2>2, <3>1
      <4> QED BY <4>1
    <3>2. CASE ~(i + 1 <= n)
      BY <3>2
    <3> QED BY <3>1, <3>2
  <2> HIDE DEF T
  <2>3. Nat \subseteq T
    BY <2>1, <2>2, SetInduction
  <2> QED BY <2>3 DEF T
<1> DEFINE G(n) == CHOOSE g : g \in Segment(n)
<1> DEFINE F == [n \in Nat |-> G(n)[n]]
<1>3. \A n \in Nat : G(n) \in Segment(n)
  BY <1>1
<1> HIDE DEF G
<1>4. F \in [Nat -> S] /\ F[0] = c
  <2>1. \A n \in Nat : G(n)[n] \in S
    <3> SUFFICES ASSUME NEW n \in Nat PROVE G(n)[n] \in S
      OBVIOUS
    <3>1. G(n) \in [0..n -> S] /\ n \in 0..n
      BY <1>3
    <3> QED BY <3>1
  <2>2. G(0)[0] = c
    BY <1>3
  <2> QED BY <2>1, <2>2
<1>5. ASSUME NEW n \in Nat PROVE F[n + 1] = step[<<n, F[n]>>]
  <2>1. G(n + 1)[n + 1] = step[<<n, G(n + 1)[n]>>]
    BY <1>3
  <2>2. G(n)[n] = G(n + 1)[n]
    <3> HIDE DEF Segment
    <3> QED BY <1>2, <1>3
  <2> QED BY <2>1, <2>2
<1> HIDE DEF F
<1>6. IsRecursion(F, S, c, step)
  BY <1>4, <1>5 DEF IsRecursion
<1> QED BY <1>6

-----------------------------------------------------------------------------
LEMMA PowersOfTwo ==
  /\ Pow2 \in [Nat -> Nat]
  /\ Pow2[0] = 1
  /\ \A n \in Nat : Pow2[n + 1] = 2 * Pow2[n]
<1> DEFINE Def(g) == [n \in Nat |-> IF n = 0 THEN 1 ELSE 2 * g[n - 1]]
<1> DEFINE double == [p \in Nat \X Nat |-> 2 * p[2]]
<1>1. \E g : IsRecursion(g, Nat, 1, double)
  <2>1. double \in [Nat \X Nat -> Nat] /\ 1 \in Nat
    OBVIOUS
  <2> HIDE DEF double
  <2> QED BY <2>1, PrimitiveRecursion
<1>2. PICK g : g \in [Nat -> Nat] /\ g[0] = 1 /\ \A n \in Nat : g[n + 1] = 2 * g[n]
  BY <1>1 DEF IsRecursion
<1>3. g = Def(g)
  <2>1. ASSUME NEW n \in Nat PROVE g[n] = IF n = 0 THEN 1 ELSE 2 * g[n - 1]
    <3>1. CASE n = 0
      BY <1>2, <3>1
    <3>2. CASE n # 0
      <4>1. n - 1 \in Nat /\ (n - 1) + 1 = n
        BY <3>2
      <4> QED BY <1>2, <3>2, <4>1
    <3> QED BY <3>1, <3>2
  <2> QED BY <1>2, <2>1
<1>4. Pow2 = Def(Pow2)
  <2> HIDE DEF Def
  <2>1. \E h : h = Def(h)
    BY <1>3
  <2>2. Pow2 = CHOOSE h : h = Def(h)
    BY DEF Pow2, Def
  <2> QED BY <2>1, <2>2
<1>5. Pow2[0] = 1
  BY <1>4
<1>6. ASSUME NEW n \in Nat PROVE Pow2[n + 1] = 2 * Pow2[n]
  <2>1. n + 1 \in Nat /\ n + 1 # 0 /\ (n + 1) - 1 = n
    OBVIOUS
  <2> HIDE DEF Def
  <2>2. Pow2[n + 1] = Def(Pow2)[n + 1]
    BY <1>4
  <2> QED BY <2>1, <2>2 DEF Def
<1>7. \A n \in Nat : Pow2[n] \in Nat
  <2> DEFINE T == {n \in Nat : Pow2[n] \in Nat}
  <2>1. 0 \in T
    BY <1>5
  <2>2. \A n \in Nat : n \in T => n + 1 \in T
    BY <1>6
  <2> HIDE DEF T
  <2>3. Nat \subseteq T
    BY <2>1, <2>2, SetInduction
  <2> QED BY <2>3 DEF T
<1>8. Pow2 \in [Nat -> Nat]
  <2>1. Pow2 = [n \in Nat |-> Pow2[n]]
    BY <1>4
  <2> QED BY <1>7, <2>1
<1> QED BY <1>5, <1>6, <1>8

LEMMA PowerPositive ==
  ASSUME NEW n \in Nat
  PROVE  Pow2[n] \in Nat \ {0} /\ n < Pow2[n]
<1> DEFINE T == {m \in Nat : m < Pow2[m]}
<1>1. 0 \in T
  BY PowersOfTwo
<1>2. \A m \in Nat : m \in T => m + 1 \in T
  BY PowersOfTwo
<1> HIDE DEF T
<1>3. Nat \subseteq T
  BY <1>1, <1>2, SetInduction
<1> QED BY <1>3, PowersOfTwo DEF T

(* The quotient, by what it is between.                                    *)
LEMMA Quotient ==
  ASSUME NEW x \in Nat, NEW p \in Nat \ {0}
  PROVE  /\ x \div p \in Nat
         /\ (x \div p) * p <= x
         /\ x < (x \div p) * p + p
  OBVIOUS

LEMMA QuotientUnique ==
  ASSUME NEW x \in Nat, NEW p \in Nat \ {0}, NEW q \in Nat,
         q * p <= x, x < q * p + p
  PROVE  x \div p = q
  OBVIOUS

LEMMA Cancel ==
  ASSUME NEW a \in Int, NEW b \in Int, NEW p \in Nat \ {0}, a * p < b * p
  PROVE  a < b
  OBVIOUS

LEMMA PowerSum ==
  ASSUME NEW m \in Nat, NEW n \in Nat
  PROVE  Pow2[m + n] = Pow2[m] * Pow2[n]
<1> DEFINE T == {k \in Nat : Pow2[m + k] = Pow2[m] * Pow2[k]}
<1>1. 0 \in T
  BY PowersOfTwo
<1>2. ASSUME NEW k \in Nat, k \in T PROVE k + 1 \in T
  <2>1. Pow2[m + k] = Pow2[m] * Pow2[k]
    BY <1>2
  <2>2. m + k \in Nat /\ m + (k + 1) = (m + k) + 1
    OBVIOUS
  <2>3. Pow2[m + (k + 1)] = 2 * Pow2[m + k] /\ Pow2[k + 1] = 2 * Pow2[k]
    BY <2>2, PowersOfTwo
  <2>4. Pow2[m] \in Nat /\ Pow2[k] \in Nat
    BY PowersOfTwo
  <2> QED BY <2>1, <2>3, <2>4
<1> HIDE DEF T
<1>3. Nat \subseteq T
  BY <1>1, <1>2, SetInduction
<1> QED BY <1>3 DEF T
=============================================================================
