------------------------------- MODULE Induction -------------------------------
(***************************************************************************)
(* Induction over the natural numbers for the proofs of this project, as   *)
(* facts about sets: the induction theorems of the library take a          *)
(* predicate, these take the set of the numbers that satisfy it.           *)
(***************************************************************************)
EXTENDS Integers, WellFoundedInduction, TLAPS

Order == {p \in Nat \X Nat : p[1] < p[2]}

\* The order of the natural numbers is well founded.
LEMMA OrderWellFounded == IsWellFoundedOn(Order, Nat)
BY NatLessThanWellFounded DEF Order, OpToRel

\* A set of natural numbers that is not empty has a least element.
LEMMA LeastOf ==
  ASSUME NEW S, S \subseteq Nat, S # {}
  PROVE  \E m \in S : \A n \in S : m <= n
<1>1. PICK x \in S : \A y \in S : ~ (<<y, x>> \in Order)
  BY OrderWellFounded, WFMin, Zenon
<1>2. \A y \in S : y \in Nat /\ x \in Nat /\ <<y, x>> \in Nat \X Nat
  OBVIOUS
<1>3. ASSUME NEW y \in S PROVE x <= y
  <2>1. y \in Nat /\ x \in Nat /\ <<y, x>> \in Nat \X Nat
    BY <1>2
  <2>2. <<y, x>>[1] = y /\ <<y, x>>[2] = x
    OBVIOUS
  <2>3. ~ (<<y, x>>[1] < <<y, x>>[2])
    BY <1>1, <2>1, Zenon DEF Order
  <2> QED BY <2>1, <2>2, <2>3
<1> QED BY <1>3

\* Induction: a set with 0 that has the successor of each number it has contains every number.
LEMMA InductionOn ==
  ASSUME NEW S, 0 \in S, \A n \in Nat : n \in S => n + 1 \in S
  PROVE  \A n \in Nat : n \in S
<1>1. SUFFICES ASSUME Nat \ S # {} PROVE FALSE
  OBVIOUS
<1>2. PICK m \in Nat \ S : \A n \in Nat \ S : m <= n
  BY <1>1, LeastOf, Zenon
<1>3. m # 0 /\ m - 1 \in Nat /\ m - 1 \notin Nat \ S
  BY <1>2
<1> QED BY <1>2, <1>3

\* A set of natural numbers below a bound that is not empty has a greatest element.
LEMMA GreatestOf ==
  ASSUME NEW S, S \subseteq Nat, S # {}, NEW b \in Nat, \A n \in S : n <= b
  PROVE  \E m \in S : \A n \in S : n <= m
<1> DEFINE above == {u \in Nat : \A n \in S : n <= u}
<1>1. PICK m \in above : \A u \in above : m <= u
  <2>1. b \in above /\ above \subseteq Nat
    OBVIOUS
  <2> HIDE DEF above
  <2> QED BY <2>1, LeastOf, Zenon
<1>2. m \in S
  <2>1. SUFFICES ASSUME m \notin S PROVE FALSE
    OBVIOUS
  <2>2. PICK x \in S : x <= m /\ x # m /\ x \in Nat
    BY <1>1, <2>1
  <2>3. m - 1 \in Nat /\ \A n \in S : n <= m - 1
    BY <1>1, <2>1, <2>2
  <2> QED BY <1>1, <2>3
<1> QED BY <1>1, <1>2

\* A value at the number a, and how to come from a number to the next up to b; the values are in T.
Recursion(T, a, b, c, step) ==
  a \in Nat /\ b \in Nat /\ a <= b /\ c \in T /\ \A n \in a + 1 .. b : \A t \in T : step[<<n, t>>] \in T
\* The function that takes these values.
Solves(f, T, a, b, c, step) ==
  f \in [a .. b -> T] /\ f[a] = c /\ \A n \in a + 1 .. b : f[n] = step[<<n, f[n - 1]>>]

\* There is such a function.
LEMMA RecursionOn ==
  ASSUME NEW T, NEW a, NEW b, NEW c, NEW step, Recursion(T, a, b, c, step)
  PROVE  \E f : Solves(f, T, a, b, c, step)
<1> DEFINE S == {k \in Nat : a + k <= b => \E f : Solves(f, T, a, a + k, c, step)}
<1>1. a \in Nat /\ b \in Nat /\ a <= b /\ c \in T /\ \A n \in a + 1 .. b : \A t \in T : step[<<n, t>>] \in T
  BY DEF Recursion
<1>2. 0 \in S
  <2>1. a + 0 = a
    BY <1>1
  <2>2. Solves([n \in a .. a |-> c], T, a, a, c, step)
    BY <1>1 DEF Solves
  <2> QED BY <2>1, <2>2
<1>3. ASSUME NEW k \in Nat, k \in S, a + (k + 1) <= b
      PROVE  \E f : Solves(f, T, a, a + (k + 1), c, step)
  <2>1. a + k <= b
    BY <1>1, <1>3
  <2>2. PICK f : Solves(f, T, a, a + k, c, step)
    BY <1>3, <2>1
  <2>3. f \in [a .. a + k -> T] /\ f[a] = c /\ \A n \in a + 1 .. a + k : f[n] = step[<<n, f[n - 1]>>]
    BY <2>2 DEF Solves
  <2> DEFINE m == a + (k + 1)
             g == [n \in a .. m |-> IF n = m THEN step[<<m, f[m - 1]>>] ELSE f[n]]
  <2>4. f[m - 1] \in T /\ m \in a + 1 .. b
    BY <1>1, <1>3, <2>3
  <2>5. g \in [a .. m -> T]
    BY <1>1, <2>3, <2>4
  <2>6. g[a] = c
    BY <1>1, <2>3
  <2>7. ASSUME NEW n \in a + 1 .. m PROVE g[n] = step[<<n, g[n - 1]>>]
    <3>1. CASE n = m
      <4>1. m - 1 \in a .. m /\ m \in a .. m /\ m - 1 # m
        BY <1>1
      <4>2. g[m - 1] = f[m - 1]
        BY <4>1
      <4>3. g[m] = step[<<m, f[m - 1]>>]
        BY <4>1
      <4> QED BY <3>1, <4>2, <4>3
    <3>2. CASE n # m
      <4>0. n \in a .. m /\ n - 1 \in a .. m /\ n - 1 # m /\ n \in a + 1 .. a + k
        BY <1>1, <3>2
      <4>1. g[n] = f[n] /\ g[n - 1] = f[n - 1]
        BY <3>2, <4>0
      <4> QED BY <2>3, <4>0, <4>1
    <3> QED BY <3>1, <3>2
  <2>8. Solves(g, T, a, m, c, step)
    <3> HIDE DEF g
    <3> QED BY <2>5, <2>6, <2>7 DEF Solves
  <2> HIDE DEF g
  <2> QED BY <2>8
<1>4. \A k \in Nat : k \in S => k + 1 \in S
  <2>1. ASSUME NEW k \in Nat, k \in S PROVE k + 1 \in S
    <3>1. ASSUME a + (k + 1) <= b PROVE \E f : Solves(f, T, a, a + (k + 1), c, step)
      BY <2>1, <3>1, <1>3
    <3>2. k + 1 \in Nat
      OBVIOUS
    <3> QED BY <3>1, <3>2
  <2> QED BY <2>1
<1>5. b - a \in S
  <2>1. b - a \in Nat
    BY <1>1
  <2> HIDE DEF S
  <2> QED BY <1>2, <1>4, <2>1, InductionOn, Zenon
<1>6. a + (b - a) = b
  BY <1>1
<1> QED BY <1>1, <1>5, <1>6
================================================================================
