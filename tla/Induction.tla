------------------------------- MODULE Induction -------------------------------
(***************************************************************************)
(* Induction and recursion over the naturals, in a form that takes a set   *)
(* or a function where the library's theorems take an operator: a property *)
(* P of numbers is handed over as {n \in Nat : P(n)}.                      *)
(***************************************************************************)
EXTENDS Integers, WellFoundedInduction, TLAPS

\* Every set of naturals that is not empty has a least element.
THEOREM LeastNumber ==
  ASSUME NEW S \in SUBSET Nat, S # {}
  PROVE  \E m \in S : \A k \in S : m <= k
<1> DEFINE R == OpToRel(<, Nat)
<1>1. IsWellFoundedOn(R, Nat)
  BY NatLessThanWellFounded
<1>2. \A y \in Nat, x \in Nat : <<y, x>> \in R <=> y < x
  BY DEF OpToRel
<1> HIDE DEF R
<1>3. PICK m \in S : \A y \in S : ~(<<y, m>> \in R)
  BY <1>1, WFMin
<1>4. ASSUME NEW k \in S PROVE m <= k
  <2>1. ~(k < m)
    BY <1>2, <1>3
  <2> QED
    BY <2>1
<1> QED
  BY <1>4

\* A set that contains 0, and n + 1 with n, contains every natural number.
THEOREM Induction ==
  ASSUME NEW S, 0 \in S, \A n \in Nat : n \in S => n + 1 \in S
  PROVE  Nat \subseteq S
<1> SUFFICES ASSUME Nat \ S # {} PROVE FALSE
  OBVIOUS
<1>1. PICK m \in Nat \ S : \A k \in Nat \ S : m <= k
  BY LeastNumber
<1>2. m # 0 /\ m - 1 \in Nat /\ m - 1 \in S
  BY <1>1
<1> QED
  BY <1>1, <1>2

Iterates(f, first, step) ==
  f[0] = first /\ \A n \in Nat : f[n + 1] = step[<<n, f[n]>>]

\* A first value and a step from each value to the next define a function.
THEOREM Recursion ==
  ASSUME NEW T, NEW first \in T, NEW step \in [Nat \X T -> T]
  PROVE  \E f \in [Nat -> T] : Iterates(f, first, step)
<1> DEFINE Upto(n, f) ==
      f \in [0..n -> T] /\ f[0] = first /\ \A k \in 0..(n - 1) : f[k + 1] = step[<<k, f[k]>>]
<1>1. ASSUME NEW n \in Nat PROVE \E f : Upto(n, f)
  <2> DEFINE S == {k \in Nat : \E f : Upto(k, f)}
  <2>1. Upto(0, [k \in 0..0 |-> first])
    OBVIOUS
  <2>2. ASSUME NEW k \in Nat, NEW f, Upto(k, f) PROVE \E g : Upto(k + 1, g)
    <3> DEFINE g == [i \in 0..(k + 1) |-> IF i <= k THEN f[i] ELSE step[<<k, f[k]>>]]
    <3>1. \A i \in 0..(k + 1) : g[i] \in T
      BY <2>2
    <3>2. g[0] = first
      BY <2>2
    <3>3. ASSUME NEW i \in 0..((k + 1) - 1) PROVE g[i + 1] = step[<<i, g[i]>>]
      <4>1. g[i] = f[i] /\ i \in 0..k
        OBVIOUS
      <4>2. CASE i = k
        BY <4>1, <4>2
      <4>3. CASE i # k
        <5>1. i \in 0..(k - 1) /\ i + 1 \in 0..k
          BY <4>1, <4>3
        <5> QED
          BY <2>2, <4>1, <5>1
      <4> QED
        BY <4>2, <4>3
    <3>4. Upto(k + 1, g)
      <4> HIDE DEF g
      <4>1. g \in [0..(k + 1) -> T]
        BY <3>1 DEF g
      <4> QED
        BY <3>2, <3>3, <4>1
    <3> QED
      BY <3>4
  <2> HIDE DEF Upto
  <2>3. 0 \in S /\ \A k \in Nat : k \in S => k + 1 \in S
    BY <2>1, <2>2
  <2> HIDE DEF S
  <2>4. Nat \subseteq S
    BY <2>3, Induction
  <2> QED
    BY <2>4 DEF S
<1>2. ASSUME NEW n \in Nat, NEW m \in Nat, NEW f, NEW g, Upto(n, f), Upto(m, g), n <= m
      PROVE  f[n] = g[n]
  <2> DEFINE S == {k \in Nat : k <= n => f[k] = g[k]}
  <2>1. 0 \in S
    BY <1>2
  <2>2. ASSUME NEW k \in Nat, k \in S PROVE k + 1 \in S
    <3> SUFFICES ASSUME k + 1 <= n PROVE f[k + 1] = g[k + 1]
      OBVIOUS
    <3>1. k \in 0..(n - 1) /\ k \in 0..(m - 1) /\ f[k] = g[k]
      BY <1>2, <2>2
    <3> QED
      BY <1>2, <3>1
  <2> HIDE DEF S, Upto
  <2>3. Nat \subseteq S
    BY <2>1, <2>2, Induction
  <2> QED
    BY <2>3 DEF S
<1> DEFINE F == [n \in Nat |-> (CHOOSE f : Upto(n, f))[n]]
<1>3. ASSUME NEW n \in Nat PROVE \E f : Upto(n, f) /\ F[n] = f[n]
  <2> HIDE DEF Upto
  <2> QED
    BY <1>1
<1>4. ASSUME NEW n \in Nat PROVE F[n] \in T
  <2>1. PICK f : Upto(n, f) /\ F[n] = f[n]
    BY <1>3
  <2> HIDE DEF F
  <2> QED
    BY <2>1
<1>5. F[0] = first
  <2>1. PICK f : Upto(0, f) /\ F[0] = f[0]
    BY <1>3
  <2> HIDE DEF F
  <2> QED
    BY <2>1
<1>6. ASSUME NEW n \in Nat PROVE F[n + 1] = step[<<n, F[n]>>]
  <2>1. PICK f : Upto(n, f) /\ F[n] = f[n]
    BY <1>3
  <2>2. PICK g : Upto(n + 1, g) /\ F[n + 1] = g[n + 1]
    <3> HIDE DEF Upto, F
    <3>1. n + 1 \in Nat
      OBVIOUS
    <3> QED
      BY <1>3, <3>1
  <2>3. f[n] = g[n]
    <3> HIDE DEF Upto, F
    <3> QED
      BY <1>2, <2>1, <2>2
  <2> HIDE DEF F
  <2> QED
    BY <2>1, <2>2, <2>3
<1> HIDE DEF F
<1>7. F \in [Nat -> T]
  BY <1>4 DEF F
<1> QED
  BY <1>5, <1>6, <1>7 DEF Iterates
(***************************************************************************)
(* A function may be defined by what it is at x, given what it is at every *)
(* y of a lower measure: body takes the function to what is said of it,    *)
(* and there is a function that body takes to itself.                      *)
(***************************************************************************)
LooksBelow(body, measure, S, T) ==
  /\ measure \in [S -> Nat]
  /\ body \in [[S -> T] -> [S -> T]]
  /\ \A f, g \in [S -> T] : \A x \in S :
       (\A y \in S : measure[y] < measure[x] => f[y] = g[y]) => body[f][x] = body[g][x]

THEOREM MeasuredRecursion ==
  ASSUME NEW S, NEW T, NEW t \in T, NEW measure, NEW body, LooksBelow(body, measure, S, T)
  PROVE  \E f \in [S -> T] : f = body[f]
<1> USE DEF LooksBelow
<1> DEFINE step == [p \in Nat \X [S -> T] |-> body[p[2]]]
<1>1. step \in [Nat \X [S -> T] -> [S -> T]]
  OBVIOUS
<1>2. \A n \in Nat, f \in [S -> T] : step[<<n, f>>] = body[f]
  OBVIOUS
<1> HIDE DEF step
<1>3. PICK R \in [Nat -> [S -> T]] : Iterates(R, [x \in S |-> t], step)
  <2>1. [x \in S |-> t] \in [S -> T]
    OBVIOUS
  <2> QED
    BY <1>1, <2>1, Recursion
<1>4. \A n \in Nat : R[n] \in [S -> T] /\ R[n + 1] = body[R[n]]
  <2> TAKE n \in Nat
  <2>1. R[n] \in [S -> T]
    BY <1>3
  <2> QED
    BY <1>2, <1>3, <2>1 DEF Iterates
<1> DEFINE Settled == {n \in Nat : \A x \in S : measure[x] < n => R[n + 1][x] = R[n][x]}
<1>5. Nat \subseteq Settled
  <2>1. 0 \in Settled
    OBVIOUS
  <2>2. ASSUME NEW n \in Nat, n \in Settled PROVE n + 1 \in Settled
    <3>1. n + 1 \in Nat
      OBVIOUS
    <3> SUFFICES ASSUME NEW x \in S, measure[x] < n + 1
                 PROVE  R[(n + 1) + 1][x] = R[n + 1][x]
      BY <3>1
    <3>2. \A y \in S : measure[y] < measure[x] => R[n + 1][y] = R[n][y]
      BY <2>2
    <3>3. body[R[n + 1]][x] = body[R[n]][x]
      BY <1>4, <3>1, <3>2
    <3> QED
      BY <1>4, <3>1, <3>3
  <2> HIDE DEF Settled
  <2> QED
    BY <2>1, <2>2, Induction
<1> DEFINE F == [x \in S |-> R[measure[x] + 1][x]]
<1>6. ASSUME NEW x \in S, NEW k \in Nat, measure[x] < k PROVE R[k][x] = F[x]
  <2> DEFINE Same == {n \in Nat : measure[x] < n => R[n][x] = F[x]}
  <2>1. 0 \in Same
    OBVIOUS
  <2>2. ASSUME NEW n \in Nat, n \in Same PROVE n + 1 \in Same
    <3> SUFFICES ASSUME measure[x] < n + 1 PROVE R[n + 1][x] = F[x]
      OBVIOUS
    <3>1. CASE measure[x] = n
      BY <3>1
    <3>2. CASE measure[x] < n
      BY <1>5, <2>2, <3>2
    <3>3. \A m \in Nat : m < n + 1 => m = n \/ m < n
      OBVIOUS
    <3>4. measure[x] \in Nat
      OBVIOUS
    <3> HIDE DEF F, Same
    <3>5. measure[x] = n \/ measure[x] < n
      BY <3>3, <3>4
    <3> QED
      BY <3>1, <3>2, <3>5
  <2> HIDE DEF Same, F
  <2>3. Nat \subseteq Same
    BY <2>1, <2>2, Induction
  <2> QED
    BY <1>6, <2>3 DEF Same
<1>7. F \in [S -> T]
  <2>1. ASSUME NEW x \in S PROVE R[measure[x] + 1][x] \in T
    <3>1. measure[x] + 1 \in Nat
      OBVIOUS
    <3>2. R[measure[x] + 1] \in [S -> T]
      BY <1>4, <3>1
    <3> QED
      BY <3>2
  <2> QED
    BY <2>1
<1>8. ASSUME NEW x \in S PROVE F[x] = body[F][x]
  <2>1. measure[x] \in Nat
    OBVIOUS
  <2>2. F[x] = body[R[measure[x]]][x]
    BY <1>4, <2>1
  <2> HIDE DEF F
  <2>3. \A y \in S : measure[y] < measure[x] => R[measure[x]][y] = F[y]
    BY <1>6, <2>1
  <2> QED
    BY <1>4, <1>7, <2>1, <2>2, <2>3
<1> HIDE DEF F
<1>9. F = body[F]
  BY <1>7, <1>8
<1> QED
  BY <1>7, <1>9
=============================================================================
