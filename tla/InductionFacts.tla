--------------------------- MODULE InductionFacts ---------------------------
(***************************************************************************)
(* Induction over sets of naturals, and what it says of functions defined  *)
(* by recursion over 0..n.  A set is what the provers can instantiate,     *)
(* where an operator parameter is not: to show P(n) for every n, cite the  *)
(* lemma with {n \in Nat : P(n)}.                                          *)
(***************************************************************************)
EXTENDS Integers, WellFoundedInduction, TLAPS

(* Every non-empty set of naturals has a least element. *)
LEMMA LeastNatural ==
  ASSUME NEW S \in SUBSET Nat, S # {}
  PROVE  \E m \in S : \A k \in S : m <= k
<1> DEFINE R == OpToRel(<, Nat)
<1>1. IsWellFoundedOn(R, Nat)
  BY NatLessThanWellFounded
<1>2. R = {ss \in Nat \X Nat : ss[1] < ss[2]}
  BY DEF OpToRel
<1> HIDE DEF R
<1>3. PICK m \in S : \A k \in S : ~(<<k, m>> \in R)
  BY <1>1, WFMin
<1>4. ASSUME NEW k \in S PROVE m <= k
  <2>1. SUFFICES ASSUME k < m PROVE FALSE
    OBVIOUS
  <2>2. <<k, m>> \in R
    BY <1>2, <2>1
  <2>3. QED
    BY <1>3, <2>2
<1>5. QED
  BY <1>4

(* A set of naturals that holds 0 and with every number the next holds them all. *)
LEMMA Induction ==
  ASSUME NEW S, 0 \in S, \A n \in Nat : n \in S => n + 1 \in S
  PROVE  \A n \in Nat : n \in S
<1>1. SUFFICES ASSUME Nat \ S # {} PROVE FALSE
  OBVIOUS
<1>2. PICK m \in Nat \ S : \A k \in Nat \ S : m <= k
  BY <1>1, LeastNatural
<1>3. m # 0 /\ m - 1 \in Nat /\ (m - 1) + 1 = m
  BY <1>2
<1>4. m - 1 \in S
  BY <1>2, <1>3
<1>5. QED
  BY <1>2, <1>3, <1>4

(* The same up to a bound. *)
LEMMA BoundedInduction ==
  ASSUME NEW n \in Nat, NEW S, 0 \in S, \A k \in 0..(n - 1) : k \in S => k + 1 \in S
  PROVE  \A k \in 0..n : k \in S
<1> DEFINE T == {k \in Nat : k \in 0..n => k \in S}
<1>1. 0 \in T
  OBVIOUS
<1>2. \A k \in Nat : k \in T => k + 1 \in T
  OBVIOUS
<1> HIDE DEF T
<1>3. \A k \in Nat : k \in T
  BY <1>1, <1>2, Induction
<1>4. QED
  BY <1>3 DEF T

(* f starts at base and goes on with step, which takes the value so far and the index. *)
Iterates(f, n, T, base, step) ==
  f \in [0..n -> T] /\ f[0] = base /\ \A k \in 1..n : f[k] = step[<<f[k - 1], k>>]

(* Such a function exists for every step that stays in its type. *)
LEMMA RecursionExists ==
  ASSUME NEW n \in Nat, NEW T, NEW base \in T, NEW step \in [T \X (1..n) -> T]
  PROVE  \E f : Iterates(f, n, T, base, step)
<1> DEFINE Upto(m) == \E f : Iterates(f, m, T, base, step)
           S == {m \in 0..n : Upto(m)}
<1>1. Upto(0)
  <2> DEFINE f == [k \in 0..0 |-> base]
  <2>1. f \in [0..0 -> T] /\ f[0] = base
    OBVIOUS
  <2>2. 1..0 = {}
    OBVIOUS
  <2> HIDE DEF f
  <2>3. Iterates(f, 0, T, base, step)
    BY <2>1, <2>2 DEF Iterates
  <2>4. QED
    BY <2>3
<1>2. ASSUME NEW m \in 0..(n - 1), Upto(m) PROVE Upto(m + 1)
  <2>1. PICK f : Iterates(f, m, T, base, step)
    BY <1>2
  <2>2. f \in [0..m -> T] /\ f[0] = base /\ \A k \in 1..m : f[k] = step[<<f[k - 1], k>>]
    BY <2>1 DEF Iterates
  <2> DEFINE g == [k \in 0..(m + 1) |-> IF k = m + 1 THEN step[<<f[m], m + 1>>] ELSE f[k]]
  <2>3. f[m] \in T /\ m + 1 \in 1..n /\ step[<<f[m], m + 1>>] \in T
    BY <2>2
  <2>4. g \in [0..(m + 1) -> T]
    BY <2>2, <2>3
  <2>5. g[0] = base
    BY <2>2
  <2>6. ASSUME NEW k \in 1..(m + 1) PROVE g[k] = step[<<g[k - 1], k>>]
    <3>1. CASE k = m + 1
      <4>1. g[m] = f[m]
        OBVIOUS
      <4>2. g[m + 1] = step[<<f[m], m + 1>>] /\ k - 1 = m
        BY <3>1
      <4> HIDE DEF g
      <4>3. QED
        BY <3>1, <4>1, <4>2
    <3>2. CASE k # m + 1
      <4>1. k \in 1..m /\ g[k] = f[k] /\ g[k - 1] = f[k - 1]
        BY <3>2
      <4>2. QED
        BY <2>2, <4>1
    <3>3. QED
      BY <3>1, <3>2
  <2> HIDE DEF g
  <2>7. Iterates(g, m + 1, T, base, step)
    BY <2>4, <2>5, <2>6 DEF Iterates
  <2>8. QED
    BY <2>7
<1> HIDE DEF Upto
<1>3. 0 \in S /\ \A k \in 0..(n - 1) : k \in S => k + 1 \in S
  BY <1>1, <1>2
<1> HIDE DEF S
<1>4. \A k \in 0..n : k \in S
  BY <1>3, BoundedInduction
<1>5. Upto(n)
  BY <1>4 DEF S
<1>6. QED
  BY <1>5 DEF Upto

(* f and g start alike, and go on alike as long as they are. *)
GoOnAlike(f, g, n) == f[0] = g[0] /\ \A k \in 1..n : f[k - 1] = g[k - 1] => f[k] = g[k]

(* Two such functions are alike: a recursion has one solution. *)
LEMMA RecursionUnique ==
  ASSUME NEW n \in Nat, NEW f, NEW g, GoOnAlike(f, g, n)
  PROVE  \A k \in 0..n : f[k] = g[k]
<1> DEFINE S == {k \in 0..n : f[k] = g[k]}
<1>1. 0 \in S
  BY DEF GoOnAlike
<1>2. ASSUME NEW k \in 0..(n - 1), k \in S PROVE k + 1 \in S
  <2>1. k + 1 \in 1..n /\ k + 1 \in 0..n /\ (k + 1) - 1 = k
    OBVIOUS
  <2>2. f[k + 1] = g[k + 1]
    BY <1>2, <2>1 DEF GoOnAlike
  <2>3. QED
    BY <2>1, <2>2
<1> HIDE DEF S
<1>3. \A k \in 0..n : k \in S
  BY <1>1, <1>2, BoundedInduction
<1>4. QED
  BY <1>3 DEF S
=============================================================================
