------------------------------ MODULE SumProofs ------------------------------
(***************************************************************************)
(* Induction over the natural numbers, for a set, and the laws of Total    *)
(* that follow from it.                                                    *)
(***************************************************************************)
EXTENDS Sums, WellFoundedInduction, TLAPS

-----------------------------------------------------------------------------
(* Induction.                                                              *)

(***************************************************************************)
(* Every set of naturals that is not empty has a least element.            *)
(***************************************************************************)
LEMMA LeastNumber ==
  ASSUME NEW S \in SUBSET Nat, S # {}
  PROVE  \E n \in S : \A m \in S : n <= m
  <1> DEFINE L == OpToRel(<, Nat)
  <1>1. IsWellFoundedOn(L, Nat)
    BY NatLessThanWellFounded
  <1>2. L = {p \in Nat \X Nat : p[1] < p[2]}
    BY DEF OpToRel
  <1> HIDE DEF L
  <1>3. PICK n \in S : \A m \in S : ~ (<<m, n>> \in L)
    BY <1>1, WFMin
  <1>4. ASSUME NEW m \in S, m < n PROVE FALSE
    <2>1. <<m, n>> \in Nat \X Nat /\ <<m, n>>[1] = m /\ <<m, n>>[2] = n
      OBVIOUS
    <2>2. <<m, n>>[1] < <<m, n>>[2]
      BY <1>4, <2>1
    <2> QED
      BY <1>2, <1>3, <2>1, <2>2
  <1> QED
    BY <1>4

(***************************************************************************)
(* A set that holds 0 and, with every number, its successor holds them all.*)
(***************************************************************************)
LEMMA Induction ==
  ASSUME NEW S \in SUBSET Nat, 0 \in S, \A n \in S : n + 1 \in S
  PROVE  S = Nat
  <1> SUFFICES ASSUME Nat \ S # {} PROVE FALSE
    OBVIOUS
  <1>1. PICK n \in Nat \ S : \A m \in Nat \ S : n <= m
    <2>1. Nat \ S \in SUBSET Nat
      OBVIOUS
    <2> QED
      BY <2>1, LeastNumber
  <1>2. n # 0 /\ n - 1 \in Nat
    BY <1>1
  <1>3. n - 1 \in S
    BY <1>1, <1>2
  <1> QED
    BY <1>1, <1>3

-----------------------------------------------------------------------------
(* The recursion of Total has a solution, which is unique.                 *)

\* What the recursion says of the partial sums up to n.
PartialSums(s, f, n) ==
    s[0] = 0 /\ \A k \in 1 .. n : s[k] = s[k - 1] + f[k]

LEMMA PartialSumsExist ==
  ASSUME NEW f \in [Nat -> Int]
  PROVE  \A n \in Nat : \E s \in [Nat -> Int] : PartialSums(s, f, n)
  <1> DEFINE S == {n \in Nat : \E s \in [Nat -> Int] : PartialSums(s, f, n)}
  <1>1. 0 \in S
    <2>1. [k \in Nat |-> 0] \in [Nat -> Int] /\ PartialSums([k \in Nat |-> 0], f, 0)
      BY DEF PartialSums
    <2> QED
      BY <2>1
  <1>2. ASSUME NEW n \in S PROVE n + 1 \in S
    <2>1. PICK s \in [Nat -> Int] : PartialSums(s, f, n)
      OBVIOUS
    <2> DEFINE t == [s EXCEPT ![n + 1] = s[n] + f[n + 1]]
    <2>2. n \in Nat /\ s[n] \in Int /\ f[n + 1] \in Int
      OBVIOUS
    <2>3. t \in [Nat -> Int] /\ t[n + 1] = s[n] + f[n + 1]
          /\ \A k \in Nat : k # n + 1 => t[k] = s[k]
      BY <2>2
    <2> HIDE DEF t
    <2>4. t[0] = 0 /\ t[n] = s[n]
      BY <2>1, <2>2, <2>3 DEF PartialSums
    <2>5. ASSUME NEW k \in 1 .. n + 1 PROVE t[k] = t[k - 1] + f[k]
      <3>1. CASE k = n + 1
        BY <2>2, <2>3, <2>4, <3>1
      <3>2. CASE k \in 1 .. n
        BY <2>1, <2>2, <2>3, <3>2 DEF PartialSums
      <3> QED
        BY <2>2, <3>1, <3>2
    <2>6. PartialSums(t, f, n + 1)
      BY <2>4, <2>5 DEF PartialSums
    <2> QED
      BY <2>2, <2>3, <2>6
  <1> HIDE DEF S
  <1>3. S = Nat
    <2>1. S \in SUBSET Nat
      BY DEF S
    <2> QED
      BY <1>1, <1>2, <2>1, Induction
  <1> QED
    BY <1>3 DEF S

\* Two solutions agree as far as both go.
LEMMA PartialSumsAgree ==
  ASSUME NEW f \in [Nat -> Int], NEW s, NEW t,
         NEW bound \in Nat, PartialSums(s, f, bound), PartialSums(t, f, bound)
  PROVE  \A n \in 0 .. bound : s[n] = t[n]
  <1> DEFINE S == {n \in Nat : n <= bound => s[n] = t[n]}
  <1>1. 0 \in S
    BY DEF PartialSums
  <1>2. ASSUME NEW n \in S PROVE n + 1 \in S
    <2>1. CASE n + 1 <= bound
      <3>1. n \in Nat /\ n + 1 \in 1 .. bound /\ (n + 1) - 1 = n /\ s[n] = t[n]
        BY <2>1
      <3>2. s[n + 1] = s[n] + f[n + 1] /\ t[n + 1] = t[n] + f[n + 1]
        BY <3>1 DEF PartialSums
      <3> QED
        BY <3>1, <3>2
    <2> QED
      BY <2>1
  <1> HIDE DEF S
  <1>3. S = Nat
    <2>1. S \in SUBSET Nat
      BY DEF S
    <2> QED
      BY <1>1, <1>2, <2>1, Induction
  <1> QED
    BY <1>3 DEF S

\* Total is the sum of its recursion.
LEMMA TotalRecursion ==
  ASSUME NEW f \in [Nat -> Int]
  PROVE  \E s \in [Nat -> Int] :
           /\ \A n \in Nat : Total(f, n) = s[n]
           /\ s[0] = 0
           /\ \A n \in Nat : s[n + 1] = s[n] + f[n + 1]
  <1> DEFINE Pick(n) == CHOOSE s \in [Nat -> Int] : PartialSums(s, f, n)
             sums == [n \in Nat |-> Pick(n)[n]]
  <1>1. \A n \in Nat : Pick(n) \in [Nat -> Int] /\ PartialSums(Pick(n), f, n)
    BY PartialSumsExist
  <1>2. sums \in [Nat -> Int] /\ \A n \in Nat : sums[n] = Pick(n)[n]
    BY <1>1
  <1> HIDE DEF Pick, sums
  <1>3. sums[0] = 0
    BY <1>1, <1>2 DEF PartialSums
  <1>4. ASSUME NEW n \in Nat PROVE sums[n + 1] = sums[n] + f[n + 1]
    <2>1. /\ n + 1 \in Nat /\ n + 1 \in 1 .. n + 1 /\ (n + 1) - 1 = n
          /\ n \in 0 .. n
      OBVIOUS
    <2>2. PartialSums(Pick(n + 1), f, n)
      BY <1>1, <2>1 DEF PartialSums
    <2>3. Pick(n + 1)[n] = Pick(n)[n]
      BY <1>1, <2>1, <2>2, PartialSumsAgree
    <2>4. Pick(n + 1)[n + 1] = Pick(n + 1)[n] + f[n + 1]
      BY <1>1, <2>1 DEF PartialSums
    <2> QED
      BY <1>2, <2>1, <2>3, <2>4
  <1> DEFINE Rhs(s) == [k \in Nat |-> IF k = 0 THEN 0 ELSE s[k - 1] + f[k]]
             sum == CHOOSE s : s = Rhs(s)
  <1>5. sums = Rhs(sums)
    <2>1. ASSUME NEW k \in Nat PROVE sums[k] = Rhs(sums)[k]
      <3>1. CASE k = 0
        BY <1>3, <3>1
      <3>2. CASE k # 0
        <4>1. k - 1 \in Nat /\ (k - 1) + 1 = k
          BY <3>2
        <4> QED
          BY <1>4, <3>2, <4>1
      <3> QED
        BY <3>1, <3>2
    <2> QED
      BY <1>2, <2>1
  <1>6. sum = Rhs(sum)
    BY <1>5
  <1>7. sum[0] = 0 /\ \A k \in Nat : k # 0 => sum[k] = sum[k - 1] + f[k]
    BY <1>6
  <1>8. \A n \in Nat : Total(f, n) = sum[n]
    BY DEF Total
  <1> HIDE DEF sum
  <1>9. ASSUME NEW n \in Nat PROVE sum[n] = sums[n]
    <2>1. PartialSums(sum, f, n)
      BY <1>7 DEF PartialSums
    <2>2. PartialSums(sums, f, n)
      <3>1. ASSUME NEW k \in 1 .. n PROVE sums[k] = sums[k - 1] + f[k]
        <4>1. k - 1 \in Nat /\ (k - 1) + 1 = k
          OBVIOUS
        <4> QED
          BY <1>4, <4>1
      <3> QED
        BY <1>3, <3>1 DEF PartialSums
    <2>3. n \in 0 .. n
      OBVIOUS
    <2> QED
      BY <2>1, <2>2, <2>3, PartialSumsAgree
  <1> QED
    BY <1>2, <1>3, <1>4, <1>8, <1>9
-----------------------------------------------------------------------------
(* The laws of Total.                                                      *)

(***************************************************************************)
(* The empty sum, and a sum with one term more.                            *)
(***************************************************************************)
LEMMA TotalLaws ==
  ASSUME NEW f \in [Nat -> Int]
  PROVE  /\ Total(f, 0) = 0
         /\ \A n \in Nat : Total(f, n) \in Int
         /\ \A n \in Nat : Total(f, n + 1) = Total(f, n) + f[n + 1]
  <1>1. PICK s \in [Nat -> Int] :
          /\ \A n \in Nat : Total(f, n) = s[n]
          /\ s[0] = 0
          /\ \A n \in Nat : s[n + 1] = s[n] + f[n + 1]
    BY TotalRecursion
  <1>2. ASSUME NEW n \in Nat PROVE Total(f, n + 1) = Total(f, n) + f[n + 1]
    <2>1. n + 1 \in Nat
      OBVIOUS
    <2> QED
      BY <1>1, <2>1
  <1>3. Total(f, 0) = 0 /\ \A n \in Nat : Total(f, n) \in Int
    BY <1>1
  <1> QED
    BY <1>2, <1>3

\* A sum of naturals is a natural.
LEMMA TotalNat ==
  ASSUME NEW f \in [Nat -> Nat]
  PROVE  \A n \in Nat : Total(f, n) \in Nat
  <1> DEFINE S == {n \in Nat : Total(f, n) \in Nat}
  <1>1. f \in [Nat -> Int]
    OBVIOUS
  <1>2. 0 \in S
    BY <1>1, TotalLaws
  <1>3. ASSUME NEW n \in S PROVE n + 1 \in S
    <2>1. n \in Nat /\ n + 1 \in Nat /\ Total(f, n) \in Nat /\ f[n + 1] \in Nat
      OBVIOUS
    <2>2. Total(f, n + 1) = Total(f, n) + f[n + 1]
      BY <1>1, <2>1, TotalLaws
    <2> QED
      BY <2>1, <2>2
  <1> HIDE DEF S
  <1>4. S \in SUBSET Nat
    BY DEF S
  <1>5. S = Nat
    BY <1>2, <1>3, <1>4, Induction
  <1> QED
    BY <1>5 DEF S

(***************************************************************************)
(* A sum depends on its terms alone.                                       *)
(***************************************************************************)
LEMMA TotalAgree ==
  ASSUME NEW f \in [Nat -> Int], NEW g \in [Nat -> Int], NEW bound \in Nat,
         \A k \in 1 .. bound : f[k] = g[k]
  PROVE  Total(f, bound) = Total(g, bound)
  <1> DEFINE S == {n \in Nat : n <= bound => Total(f, n) = Total(g, n)}
  <1>1. 0 \in S
    BY TotalLaws
  <1>2. ASSUME NEW n \in S PROVE n + 1 \in S
    <2>1. CASE n + 1 <= bound
      <3>1. n \in Nat /\ n + 1 \in 1 .. bound /\ Total(f, n) = Total(g, n)
        BY <2>1
      <3>2. /\ Total(f, n + 1) = Total(f, n) + f[n + 1]
            /\ Total(g, n + 1) = Total(g, n) + g[n + 1]
        BY <3>1, TotalLaws
      <3> QED
        BY <3>1, <3>2
    <2> QED
      BY <2>1
  <1> HIDE DEF S
  <1>3. S \in SUBSET Nat
    BY DEF S
  <1>4. S = Nat
    BY <1>1, <1>2, <1>3, Induction
  <1> QED
    BY <1>4 DEF S

(***************************************************************************)
(* A sum whose terms are no larger is smaller by what any one of them lost.*)
(***************************************************************************)
LEMMA TotalLess ==
  ASSUME NEW f \in [Nat -> Int], NEW g \in [Nat -> Int], NEW bound \in Nat,
         \A k \in 1 .. bound : g[k] <= f[k],
         NEW j \in 1 .. bound
  PROVE  Total(g, bound) + (f[j] - g[j]) <= Total(f, bound)
  <1> DEFINE S == {n \in Nat : n <= bound =>
                     /\ Total(g, n) <= Total(f, n)
                     /\ j <= n => Total(g, n) + (f[j] - g[j]) <= Total(f, n)}
  <1>1. 0 \in S
    BY TotalLaws
  <1>2. ASSUME NEW n \in S PROVE n + 1 \in S
    <2>1. CASE n + 1 <= bound
      <3>1. /\ n \in Nat /\ n + 1 \in 1 .. bound /\ n + 1 \in Nat
            /\ Total(g, n) <= Total(f, n)
            /\ j <= n => Total(g, n) + (f[j] - g[j]) <= Total(f, n)
        BY <2>1
      <3>2. /\ Total(f, n + 1) = Total(f, n) + f[n + 1]
            /\ Total(g, n + 1) = Total(g, n) + g[n + 1]
            /\ Total(f, n) \in Int /\ Total(g, n) \in Int
        BY <3>1, TotalLaws
      <3>3. f[n + 1] \in Int /\ g[n + 1] \in Int /\ g[n + 1] <= f[n + 1]
            /\ f[j] \in Int /\ g[j] \in Int
        BY <3>1
      <3>4. Total(g, n + 1) <= Total(f, n + 1)
        BY <3>1, <3>2, <3>3
      <3>5. ASSUME j <= n + 1
            PROVE  Total(g, n + 1) + (f[j] - g[j]) <= Total(f, n + 1)
        <4>1. CASE j <= n
          BY <3>1, <3>2, <3>3, <4>1
        <4>2. CASE j = n + 1
          BY <3>1, <3>2, <3>3, <4>2
        <4> QED
          BY <3>1, <3>5, <4>1, <4>2
      <3> QED
        BY <3>1, <3>4, <3>5
    <2> QED
      BY <2>1
  <1> HIDE DEF S
  <1>3. S \in SUBSET Nat
    BY DEF S
  <1>4. S = Nat
    BY <1>1, <1>2, <1>3, Induction
  <1> QED
    BY <1>4 DEF S

\* No term of a sum of naturals exceeds it.
LEMMA TermBelowTotal ==
  ASSUME NEW f \in [Nat -> Nat], NEW n \in Nat, NEW j \in 1 .. n
  PROVE  f[j] <= Total(f, n)
  <1> DEFINE zero == [k \in Nat |-> 0]
  <1>1. zero \in [Nat -> Nat] /\ zero \in [Nat -> Int] /\ f \in [Nat -> Int]
        /\ zero[j] = 0 /\ f[j] \in Nat /\ \A k \in 1 .. n : zero[k] <= f[k]
    OBVIOUS
  <1> HIDE DEF zero
  <1>2. Total(zero, n) \in Nat /\ Total(f, n) \in Nat
    BY <1>1, TotalNat
  <1>3. Total(zero, n) + (f[j] - zero[j]) <= Total(f, n)
    BY <1>1, TotalLess
  <1> QED
    BY <1>1, <1>2, <1>3
=============================================================================
