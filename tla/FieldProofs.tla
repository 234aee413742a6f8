----------------------------- MODULE FieldProofs -----------------------------
(***************************************************************************)
(* Proofs for FrMul and Poseidon: for every limb width, modulus and pair   *)
(* of operands the carry chains of field.rs lose nothing, and for every    *)
(* number of rounds and table the contract's hash is the reference hash.   *)
(***************************************************************************)
EXTENDS FrMul, Poseidon, SumProofs

\* The lemmas of MontgomeryProofs, about the numbers behind the limbs.
LP == INSTANCE MontgomeryProofs WITH
    a <- ValueOf(x), b <- ValueOf(y), rest <- Remaining, weight <- Weight,
    t <- Accumulated, done <- i > N

-----------------------------------------------------------------------------
(* The powers of the width of a byte.                                      *)

\* Powers of the number of values of a byte.
LEMMA PowerRecursion ==
  Power[0] = 1 /\ \A j \in 0 .. N * W - 1 : Power[j + 1] = Byte * Power[j]
  <1> DEFINE Body(f, n) == [j \in 0 .. n |-> IF j = 0 THEN 1
                                  ELSE (Byte * f[j - 1])]
             S == {n \in Nat : \E f : f = Body(f, n)}
  <1>1. 0 \in S
    <2> DEFINE g == [j \in 0 .. 0 |-> 1]
    <2>1. g = Body(g, 0)
      OBVIOUS
    <2> QED
      BY <2>1
  <1>2. ASSUME NEW n \in S PROVE n + 1 \in S
    <2>1. PICK f : f = Body(f, n)
      OBVIOUS
    <2>2. n \in Nat /\ \A j \in 0 .. n + 1 : j # 0 => j - 1 \in 0 .. n
      OBVIOUS
    <2>3. \A j \in 0 .. n : f[j] = IF j = 0 THEN 1
                                 ELSE (Byte * f[j - 1])
      BY <2>1
    <2> HIDE DEF S, Body
    <2> DEFINE g == [j \in 0 .. n + 1 |->
                       IF j = n + 1 THEN (Byte * f[n]) ELSE f[j]]
    <2>4. /\ DOMAIN g = 0 .. n + 1 /\ g = [j \in 0 .. n + 1 |-> g[j]]
          /\ g[n + 1] = (Byte * f[n])
          /\ \A j \in 0 .. n : g[j] = f[j]
      <3>1. n + 1 \in 0 .. n + 1 /\ \A j \in 0 .. n : j \in 0 .. n + 1 /\ j # n + 1
        BY <2>2
      <3>2. g[n + 1] = (Byte * f[n])
        BY <3>1, Zenon
      <3>3. \A j \in 0 .. n : g[j] = f[j]
        BY <3>1, Zenon
      <3> QED
        BY <3>2, <3>3, Zenon
    <2> HIDE DEF g
    <2>5. ASSUME NEW j \in 0 .. n + 1
          PROVE  g[j] = IF j = 0 THEN 1
                        ELSE (Byte * g[j - 1])
      <3>1. CASE j = n + 1
        <4>1. j # 0 /\ j - 1 = n /\ n \in 0 .. n
          BY <2>2, <3>1
        <4>2. g[n] = f[n]
          BY <2>4, <4>1
        <4> QED
          BY <2>4, <3>1, <4>1, <4>2
      <3>2. CASE j \in 0 .. n
        <4>1. j = 0 \/ j - 1 \in 0 .. n
          BY <2>2, <3>2
        <4>2. j # 0 => g[j - 1] = f[j - 1]
          BY <2>4, <4>1
        <4> QED
          BY <2>4, <2>3, <3>2, <4>2
      <3> QED
        BY <2>2, <3>1, <3>2
    <2>6. g = Body(g, n + 1)
      BY <2>4, <2>5 DEF Body
    <2> QED
      BY <2>2, <2>6 DEF S
  <1> HIDE DEF S
  <1>3. S = Nat
    <2>1. S \in SUBSET Nat
      BY DEF S
    <2> QED
      BY <1>1, <1>2, <2>1, Induction
  <1>4. N * W \in Nat
    BY FrAssumption DEF N
  <1>5. \E f : f = [j \in 0 .. N * W |-> IF j = 0 THEN 1
                                  ELSE (Byte * f[j - 1])]
    BY <1>3, <1>4 DEF S
  <1> DEFINE it == Power
  <1>6. it = [j \in 0 .. N * W |-> IF j = 0 THEN 1
                                  ELSE (Byte * it[j - 1])]
    BY <1>5 DEF Power
  <1>7. 0 \in 0 .. N * W /\ \A j \in 0 .. N * W - 1 :
               j + 1 \in 0 .. N * W /\ j + 1 # 0 /\ (j + 1) - 1 = j
    BY <1>4
  <1> HIDE DEF it
  <1>8. it[0] = 1 /\ \A j \in 0 .. N * W - 1 : it[j + 1] = (Byte * it[j])
    BY <1>6, <1>7
  <1> QED
    BY <1>8 DEF it

\* The value of a word, byte by byte.
LEMMA WordRecursion ==
  ASSUME NEW bytes, NEW first
  PROVE  \E w : /\ w[0] = 0
                /\ \A j \in 0 .. W - 1 : w[j + 1] = w[j] * Byte + bytes[first + j]
                /\ Word(bytes, first) = w[W]
  <1> DEFINE Body(f, n) == [j \in 0 .. n |-> IF j = 0 THEN 0
                                  ELSE (f[j - 1] * Byte + bytes[first + (j - 1)])]
             S == {n \in Nat : \E f : f = Body(f, n)}
  <1>1. 0 \in S
    <2> DEFINE g == [j \in 0 .. 0 |-> 0]
    <2>1. g = Body(g, 0)
      OBVIOUS
    <2> QED
      BY <2>1
  <1>2. ASSUME NEW n \in S PROVE n + 1 \in S
    <2>1. PICK f : f = Body(f, n)
      OBVIOUS
    <2>2. n \in Nat /\ \A j \in 0 .. n + 1 : j # 0 => j - 1 \in 0 .. n
      OBVIOUS
    <2>3. \A j \in 0 .. n : f[j] = IF j = 0 THEN 0
                                 ELSE (f[j - 1] * Byte + bytes[first + (j - 1)])
      BY <2>1
    <2> HIDE DEF S, Body
    <2> DEFINE g == [j \in 0 .. n + 1 |->
                       IF j = n + 1 THEN (f[n] * Byte + bytes[first + (n)]) ELSE f[j]]
    <2>4. /\ DOMAIN g = 0 .. n + 1 /\ g = [j \in 0 .. n + 1 |-> g[j]]
          /\ g[n + 1] = (f[n] * Byte + bytes[first + (n)])
          /\ \A j \in 0 .. n : g[j] = f[j]
      <3>1. n + 1 \in 0 .. n + 1 /\ \A j \in 0 .. n : j \in 0 .. n + 1 /\ j # n + 1
        BY <2>2
      <3>2. g[n + 1] = (f[n] * Byte + bytes[first + (n)])
        BY <3>1, Zenon
      <3>3. \A j \in 0 .. n : g[j] = f[j]
        BY <3>1, Zenon
      <3> QED
        BY <3>2, <3>3, Zenon
    <2> HIDE DEF g
    <2>5. ASSUME NEW j \in 0 .. n + 1
          PROVE  g[j] = IF j = 0 THEN 0
                        ELSE (g[j - 1] * Byte + bytes[first + (j - 1)])
      <3>1. CASE j = n + 1
        <4>1. j # 0 /\ j - 1 = n /\ n \in 0 .. n
          BY <2>2, <3>1
        <4>2. g[n] = f[n]
          BY <2>4, <4>1
        <4> QED
          BY <2>4, <3>1, <4>1, <4>2
      <3>2. CASE j \in 0 .. n
        <4>1. j = 0 \/ j - 1 \in 0 .. n
          BY <2>2, <3>2
        <4>2. j # 0 => g[j - 1] = f[j - 1]
          BY <2>4, <4>1
        <4> QED
          BY <2>4, <2>3, <3>2, <4>2
      <3> QED
        BY <2>2, <3>1, <3>2
    <2>6. g = Body(g, n + 1)
      BY <2>4, <2>5 DEF Body
    <2> QED
      BY <2>2, <2>6 DEF S
  <1> HIDE DEF S
  <1>3. S = Nat
    <2>1. S \in SUBSET Nat
      BY DEF S
    <2> QED
      BY <1>1, <1>2, <2>1, Induction
  <1>4. W \in Nat
    BY FrAssumption
  <1>5. \E f : f = [j \in 0 .. W |-> IF j = 0 THEN 0
                                  ELSE (f[j - 1] * Byte + bytes[first + (j - 1)])]
    BY <1>3, <1>4 DEF S
  <1> DEFINE it == CHOOSE f : f = [j \in 0 .. W |-> IF j = 0 THEN 0
                                  ELSE (f[j - 1] * Byte + bytes[first + (j - 1)])]
  <1>6. it = [j \in 0 .. W |-> IF j = 0 THEN 0
                                  ELSE (it[j - 1] * Byte + bytes[first + (j - 1)])]
    BY <1>5
  <1>7. 0 \in 0 .. W /\ \A j \in 0 .. W - 1 :
               j + 1 \in 0 .. W /\ j + 1 # 0 /\ (j + 1) - 1 = j
    BY <1>4
  <1>8. Word(bytes, first) = it[W]
    BY DEF Word
  <1> HIDE DEF it
  <1>9. it[0] = 0 /\ \A j \in 0 .. W - 1 : it[j + 1] = (it[j] * Byte + bytes[first + (j)])
    BY <1>6, <1>7
  <1> QED
    BY <1>8, <1>9

LEMMA PowerTyped == \A j \in 0 .. N * W : Power[j] \in Nat /\ Power[j] > 0
  <1> DEFINE S == {j \in Nat : j <= N * W => Power[j] \in Nat /\ Power[j] > 0}
  <1>0. N * W \in Nat /\ Byte \in Nat /\ Byte > 1
    BY FrAssumption DEF N
  <1> HIDE DEF N
  <1>1. 0 \in S
    BY PowerRecursion
  <1>2. ASSUME NEW j \in S PROVE j + 1 \in S
    <2>1. CASE j + 1 <= N * W
      <3>1. j \in 0 .. N * W - 1 /\ Power[j] \in Nat /\ Power[j] > 0
        BY <1>0, <2>1
      <3>2. Power[j + 1] = Byte * Power[j]
        BY <3>1, PowerRecursion
      <3>3. \A n \in Nat : n > 0 => Byte * n \in Nat /\ Byte * n > 0
        BY <1>0
      <3> QED
        BY <3>1, <3>2, <3>3
    <2>2. CASE ~(j + 1 <= N * W)
      BY <2>2
    <2> QED
      BY <2>1, <2>2
  <1> HIDE DEF S
  <1>3. S = Nat
    <2>1. S \in SUBSET Nat
      BY DEF S
    <2> QED
      BY <1>1, <1>2, <2>1, Induction
  <1> QED
    BY <1>0, <1>3 DEF S

\* Powers multiply as their exponents add.
LEMMA PowerAdds ==
    ASSUME NEW m \in Nat
    PROVE  \A j \in Nat : m + j <= N * W => Power[m + j] = Power[m] * Power[j]
  <1> DEFINE S == {j \in Nat : m + j <= N * W => Power[m + j] = Power[m] * Power[j]}
  <1>0. N * W \in Nat /\ Byte \in Nat /\ Byte > 1
    BY FrAssumption DEF N
  <1> HIDE DEF N
  <1>1. 0 \in S
    <2>1. m <= N * W => Power[m] \in Nat
      BY <1>0, PowerTyped
    <2>2. Power[0] = 1 /\ m + 0 = m
      BY PowerRecursion
    <2>3. \A n \in Nat : n * 1 = n
      OBVIOUS
    <2> QED
      BY <2>1, <2>2, <2>3
  <1>2. ASSUME NEW j \in S PROVE j + 1 \in S
    <2>1. CASE m + (j + 1) <= N * W
      <3>1. /\ m + j \in 0 .. N * W - 1 /\ j \in 0 .. N * W - 1 /\ m \in 0 .. N * W
            /\ Power[m + j] = Power[m] * Power[j] /\ m + (j + 1) = (m + j) + 1
        BY <1>0, <2>1
      <3>2. Power[m + (j + 1)] = Byte * Power[m + j] /\ Power[j + 1] = Byte * Power[j]
        BY <3>1, PowerRecursion
      <3>3. Power[m] \in Nat /\ Power[j] \in Nat
        BY <1>0, <3>1, PowerTyped
      <3>4. Byte * (Power[m] * Power[j]) = Power[m] * (Byte * Power[j])
        <4>1. \A u \in Nat, v \in Nat : Byte * (u * v) = u * (Byte * v)
          BY <1>0
        <4> QED
          BY <3>3, <4>1
      <3>5. Power[m + (j + 1)] = Power[m] * Power[j + 1] /\ j + 1 \in Nat
        BY <3>1, <3>2, <3>4
      <3> QED
        BY <3>5
    <2>2. CASE ~(m + (j + 1) <= N * W)
      BY <2>2
    <2> QED
      BY <2>1, <2>2
  <1> HIDE DEF S
  <1>3. S = Nat
    <2>1. S \in SUBSET Nat
      BY DEF S
    <2> QED
      BY <1>1, <1>2, <2>1, Induction
  <1> QED
    BY <1>0, <1>3 DEF S

-----------------------------------------------------------------------------
(* The parameters.                                                         *)

\* A limb has more values than one.
LEMMA LimbSize == B \in Nat /\ B > 1
  <1>0. W \in Nat /\ W > 0 /\ Byte \in Nat /\ Byte > 1 /\ N * W \in Nat
        /\ W <= N * W /\ W - 1 \in 0 .. N * W - 1 /\ W - 1 \in 0 .. N * W
    BY FrAssumption DEF N
  <1> HIDE DEF N
  <1>1. Power[W] = Byte * Power[W - 1] /\ Power[W - 1] \in Nat /\ Power[W - 1] > 0
    BY <1>0, PowerRecursion, PowerTyped
  <1>2. \A n \in Nat : n > 0 => Byte * n \in Nat /\ Byte * n > 1
    BY <1>0
  <1> QED
    BY <1>1, <1>2 DEF B

(***************************************************************************)
(* What FrAssumption says of P and INV is what the loop of Montgomery asks *)
(* of its parameters: INV * P is one below a multiple of B.                *)
(***************************************************************************)
LEMMA LoopParameters == LP!Parameters
  <1>1. /\ P \in Nat /\ P > 1 /\ 2 * P <= R /\ INV \in 0 .. B - 1
        /\ (INV * P + 1) % B = 0
    BY FrAssumption DEF Limb
  <1>2. B * B \in Nat /\ B * B * B \in Nat /\ R \in Nat
    BY LimbSize, LP!NatProduct DEF R
  <1>3. INV \in Nat /\ INV * P \in Nat
    BY <1>1, LimbSize, LP!NatProduct
  <1> DEFINE v == INV * P + 1
             e == v \div B
  <1>4. v \in Nat /\ v > 0 /\ v % B = 0
    BY <1>1, <1>3
  <1> HIDE DEF v
  <1>5. e \in Nat /\ v = B * e + (v % B)
    BY <1>4, LimbSize, LP!DivisionIsExact
  <1> HIDE DEF e
  <1>6. v = B * e /\ e \in Int
    BY <1>4, <1>5, LimbSize
  <1>7. e \in 1 .. v
    <2>1. e # 0
      BY <1>4, <1>6, LimbSize
    <2>2. \A n \in Nat : n > 0 => n <= B * n
      BY LimbSize
    <2> QED
      BY <1>4, <1>5, <1>6, <2>1, <2>2
  <1>8. \E f \in 1 .. INV * P + 1 : INV * P + 1 = B * f
    BY <1>6, <1>7 DEF v
  <1>9. 0 < P /\ P < R
    BY <1>1, <1>2
  <1> QED
    BY <1>1, <1>2, <1>3, <1>8, <1>9, LimbSize DEF LP!Parameters

LEMMA BaseTyped ==
    /\ B \in Nat /\ B > 1 /\ R \in Nat /\ R = B * B * B * B
    /\ P \in Nat /\ 0 < P /\ P < R /\ 2 * P <= R /\ INV \in Nat
  <1>1. 2 * P <= R
    BY FrAssumption
  <1> QED
    BY <1>1, LoopParameters DEF LP!Parameters, R

-----------------------------------------------------------------------------
(* Digits and carries.                                                     *)

\* A double word is the sum of its halves.
LEMMA HalvesExact ==
    ASSUME NEW v \in Nat
    PROVE  \E lo \in 0 .. B - 1, hi \in Nat :
               Halves(v) = [lo |-> lo, hi |-> hi] /\ lo + B * hi = v
  <1>1. B \in Nat /\ B > 0
    BY BaseTyped
  <1>2. v % B \in 0 .. B - 1 /\ v \div B \in Nat /\ (v % B) + B * (v \div B) = v
    BY <1>1, LP!DivisionIsExact
  <1> QED
    BY <1>2 DEF Halves

\* A carry that goes on into the next limb.
LEMMA CarryStep ==
    ASSUME NEW lo \in Int, NEW hi \in Int, NEW c \in Int, NEW s \in Int,
           NEW v \in Int, lo + B * hi = s + c
    PROVE  lo + B * (v + hi) = (s + B * v) + c
  <1>1. B \in Int
    BY BaseTyped
  <1>2. B * (v + hi) = B * v + B * hi
    BY <1>1
  <1>3. B * v \in Int /\ B * hi \in Int
    BY <1>1
  <1> QED
    BY <1>2, <1>3

-----------------------------------------------------------------------------
(* Numbers in limbs, and the carries of an addition to an accumulator.     *)

ValueOfAccumulator(u) == ValueOf(u) + R * u[5]

\* The sum of an accumulator and four numbers, each with the weight of a limb.
Ripple(u, z) ==
    LET p0 == Halves(u[1] + z[1])
        p1 == Halves(u[2] + z[2] + p0.hi)
        p2 == Halves(u[3] + z[3] + p1.hi)
        p3 == Halves(u[4] + z[4] + p2.hi)
        p4 == Halves(u[5] + p3.hi)
    IN  [t |-> <<p0.lo, p1.lo, p2.lo, p3.lo, p4.lo>>, over |-> p4.hi]

\* One more digit below a number that is below n.
LEMMA BelowNextPower ==
    ASSUME NEW n \in Nat, NEW d \in 0 .. B - 1, NEW v \in 0 .. n - 1
    PROVE  d + B * v \in 0 .. B * n - 1
  <1>1. B \in Nat
    BY BaseTyped
  <1>2. v * B <= (n - 1) * B
    <2>1. n - 1 \in Nat /\ v \in Nat /\ v <= n - 1
      OBVIOUS
    <2> QED
      BY <1>1, <2>1, LP!ProductMonotone
  <1>3. v * B = B * v /\ (n - 1) * B = B * n - B
    BY <1>1
  <1>4. B * v \in Nat /\ B * n \in Nat
    BY <1>1, LP!NatProduct
  <1> QED
    BY <1>1, <1>2, <1>3, <1>4

LEMMA LimbsTyped ==
    ASSUME NEW u \in Limbs
    PROVE  /\ u[1] \in 0 .. B - 1 /\ u[2] \in 0 .. B - 1
           /\ u[3] \in 0 .. B - 1 /\ u[4] \in 0 .. B - 1
           /\ ValueOf(u) \in 0 .. R - 1
  <1>1. /\ u[1] \in 0 .. B - 1 /\ u[2] \in 0 .. B - 1
        /\ u[3] \in 0 .. B - 1 /\ u[4] \in 0 .. B - 1
    BY DEF Limbs, Limb
  <1>2. PICK u1 \in 0 .. B - 1, u2 \in 0 .. B - 1, u3 \in 0 .. B - 1, u4 \in 0 .. B - 1 :
            u[1] = u1 /\ u[2] = u2 /\ u[3] = u3 /\ u[4] = u4
    BY <1>1
  <1>3. u3 + B * u4 \in 0 .. B * B - 1
    BY BelowNextPower, BaseTyped
  <1>4. u2 + B * (u3 + B * u4) \in 0 .. B * (B * B) - 1
    <2>1. B * B \in Nat
      BY BaseTyped
    <2> QED
      BY <1>3, <2>1, BelowNextPower
  <1>5. u1 + B * (u2 + B * (u3 + B * u4)) \in 0 .. B * (B * (B * B)) - 1
    <2>1. B * (B * B) \in Nat
      BY BaseTyped
    <2> QED
      BY <1>4, <2>1, BelowNextPower
  <1>6. B * (B * (B * B)) = R
    BY BaseTyped
  <1> QED
    BY <1>1, <1>2, <1>5, <1>6 DEF ValueOf

(***************************************************************************)
(* The carries lose nothing: the number in the five limbs and the last     *)
(* carry is the sum.                                                       *)
(***************************************************************************)
RippleIsSum(u, z) ==
    LET sum == Ripple(u, z) IN
    /\ sum.t \in Accumulator
    /\ sum.over \in Nat
    /\ ValueOfAccumulator(sum.t) + (R * B) * sum.over
         = ValueOfAccumulator(u) + ValueOf(z)

LEMMA AccumulatorTyped ==
    ASSUME NEW u \in Accumulator
    PROVE  ValueOfAccumulator(u) \in Nat
  <1>1. PICK u1 \in Nat, u2 \in Nat, u3 \in Nat, u4 \in Nat, u5 \in Nat :
            u[1] = u1 /\ u[2] = u2 /\ u[3] = u3 /\ u[4] = u4 /\ u[5] = u5
    BY BaseTyped, SMTT(60) DEF Accumulator, Limb
  <1>2. (u1 + B * (u2 + B * (u3 + B * u4))) + R * u5 \in Nat
    <2>1. \A n \in Nat, c \in Nat : c + B * n \in Nat
      <3> TAKE n \in Nat, c \in Nat
      <3>1. B * n \in Nat
        BY BaseTyped, LP!NatProduct
      <3> QED
        BY <3>1
    <2>2. R * u5 \in Nat
      BY BaseTyped, LP!NatProduct
    <2>3. u1 + B * (u2 + B * (u3 + B * u4)) \in Nat
      <3>1. u3 + B * u4 \in Nat
        BY <2>1
      <3>2. u2 + B * (u3 + B * u4) \in Nat
        BY <2>1, <3>1
      <3> QED
        BY <2>1, <3>2
    <2> QED
      BY <2>2, <2>3
  <1> QED
    BY <1>1, <1>2 DEF ValueOfAccumulator, ValueOf

LEMMA RippleOfNumbers ==
    ASSUME NEW u1 \in Nat, NEW u2 \in Nat, NEW u3 \in Nat, NEW u4 \in Nat,
           NEW u5 \in Nat,
           NEW z1 \in Nat, NEW z2 \in Nat, NEW z3 \in Nat, NEW z4 \in Nat
    PROVE  RippleIsSum(<<u1, u2, u3, u4, u5>>, <<z1, z2, z3, z4>>)
  <1>0. B \in Nat
    BY BaseTyped
  <1>1. PICK l0 \in 0 .. B - 1, h0 \in Nat :
            Halves(u1 + z1) = [lo |-> l0, hi |-> h0] /\ l0 + B * h0 = u1 + z1
    <2>1. u1 + z1 \in Nat
      OBVIOUS
    <2> QED
      BY <2>1, HalvesExact
  <1>2. PICK l1 \in 0 .. B - 1, h1 \in Nat :
            Halves(u2 + z2 + h0) = [lo |-> l1, hi |-> h1] /\ l1 + B * h1 = u2 + z2 + h0
    <2>1. u2 + z2 + h0 \in Nat
      OBVIOUS
    <2> QED
      BY <2>1, HalvesExact
  <1>3. PICK l2 \in 0 .. B - 1, h2 \in Nat :
            Halves(u3 + z3 + h1) = [lo |-> l2, hi |-> h2] /\ l2 + B * h2 = u3 + z3 + h1
    <2>1. u3 + z3 + h1 \in Nat
      OBVIOUS
    <2> QED
      BY <2>1, HalvesExact
  <1>4. PICK l3 \in 0 .. B - 1, h3 \in Nat :
            Halves(u4 + z4 + h2) = [lo |-> l3, hi |-> h3] /\ l3 + B * h3 = u4 + z4 + h2
    <2>1. u4 + z4 + h2 \in Nat
      OBVIOUS
    <2> QED
      BY <2>1, HalvesExact
  <1>5. PICK l4 \in 0 .. B - 1, h4 \in Nat :
            Halves(u5 + h3) = [lo |-> l4, hi |-> h4] /\ l4 + B * h4 = u5 + h3
    <2>1. u5 + h3 \in Nat
      OBVIOUS
    <2> QED
      BY <2>1, HalvesExact
  <1>6. l0 \in Nat /\ l1 \in Nat /\ l2 \in Nat /\ l3 \in Nat /\ l4 \in Nat
    BY <1>0
  <1>7. Ripple(<<u1, u2, u3, u4, u5>>, <<z1, z2, z3, z4>>)
          = [t |-> <<l0, l1, l2, l3, l4>>, over |-> h4]
    BY <1>1, <1>2, <1>3, <1>4, <1>5 DEF Ripple
  <1>8. l0 + B * (l1 + B * (l2 + B * (l3 + B * (l4 + B * h4))))
          = (u1 + z1) + B * ((u2 + z2) + B * ((u3 + z3) + B * ((u4 + z4) + B * u5)))
    <2>1. l3 + B * (l4 + B * h4) = ((u4 + z4) + B * u5) + h2
      BY <1>4, <1>5, <1>6, CarryStep
    <2>2. l2 + B * (l3 + B * (l4 + B * h4))
            = ((u3 + z3) + B * ((u4 + z4) + B * u5)) + h1
      <3> DEFINE v == (u4 + z4) + B * u5
      <3>1. v \in Int
        BY <1>0
      <3> HIDE DEF v
      <3>2. l2 + B * (v + h2) = ((u3 + z3) + B * v) + h1
        BY <1>3, <1>6, <3>1, CarryStep
      <3> QED
        BY <2>1, <3>2 DEF v
    <2>3. l1 + B * (l2 + B * (l3 + B * (l4 + B * h4)))
            = ((u2 + z2) + B * ((u3 + z3) + B * ((u4 + z4) + B * u5))) + h0
      <3> DEFINE v == (u3 + z3) + B * ((u4 + z4) + B * u5)
      <3>1. v \in Int
        BY <1>0
      <3> HIDE DEF v
      <3>2. l1 + B * (v + h1) = ((u2 + z2) + B * v) + h0
        BY <1>2, <1>6, <3>1, CarryStep
      <3> QED
        BY <2>2, <3>2 DEF v
    <2>4. l0 + B * (l1 + B * (l2 + B * (l3 + B * (l4 + B * h4))))
            = ((u1 + z1) + B * ((u2 + z2) + B * ((u3 + z3) + B * ((u4 + z4) + B * u5)))) + 0
      <3> DEFINE v == (u2 + z2) + B * ((u3 + z3) + B * ((u4 + z4) + B * u5))
      <3>1. v \in Int
        BY <1>0
      <3> HIDE DEF v
      <3>2. l0 + B * h0 = (u1 + z1) + 0
        BY <1>1
      <3>3. l0 + B * (v + h0) = ((u1 + z1) + B * v) + 0
        BY <1>6, <3>1, <3>2, CarryStep
      <3> QED
        BY <2>3, <3>3 DEF v
    <2> QED
      BY <1>0, <2>4
  <1>9. <<l0, l1, l2, l3, l4>> \in Accumulator
    BY DEF Accumulator, Limb
  <1>10. ValueOfAccumulator(<<l0, l1, l2, l3, l4>>)
           = (l0 + B * (l1 + B * (l2 + B * l3))) + R * l4
    BY DEF ValueOfAccumulator, ValueOf
  <1>11. l0 + B * (l1 + B * (l2 + B * (l3 + B * (l4 + B * h4))))
           = (l0 + B * (l1 + B * (l2 + B * l3))) + R * l4 + (R * B) * h4
    BY <1>6, BaseTyped
  <1>12. ValueOfAccumulator(<<u1, u2, u3, u4, u5>>) + ValueOf(<<z1, z2, z3, z4>>)
           = (u1 + z1) + B * ((u2 + z2) + B * ((u3 + z3) + B * ((u4 + z4) + B * u5)))
    <2>1. /\ ValueOfAccumulator(<<u1, u2, u3, u4, u5>>)
               = (u1 + B * (u2 + B * (u3 + B * u4))) + R * u5
          /\ ValueOf(<<z1, z2, z3, z4>>) = z1 + B * (z2 + B * (z3 + B * z4))
      BY DEF ValueOfAccumulator, ValueOf
    <2>2. ((u1 + B * (u2 + B * (u3 + B * u4))) + R * u5)
               + (z1 + B * (z2 + B * (z3 + B * z4)))
           = (u1 + z1) + B * ((u2 + z2) + B * ((u3 + z3) + B * ((u4 + z4) + B * u5)))
      BY BaseTyped
    <2> QED
      BY <2>1, <2>2
  <1> QED
    BY <1>7, <1>8, <1>9, <1>10, <1>11, <1>12 DEF RippleIsSum

LEMMA RippleExact ==
    ASSUME NEW u \in Accumulator, NEW z \in Nat \X Nat \X Nat \X Nat
    PROVE  RippleIsSum(u, z)
  <1>1. PICK u1 \in Nat, u2 \in Nat, u3 \in Nat, u4 \in Nat, u5 \in Nat :
            u = <<u1, u2, u3, u4, u5>>
    <2>1. u = <<u[1], u[2], u[3], u[4], u[5]>>
      BY DEF Accumulator
    <2>2. /\ u[1] \in Nat /\ u[2] \in Nat /\ u[3] \in Nat /\ u[4] \in Nat
          /\ u[5] \in Nat
      BY BaseTyped DEF Accumulator, Limb
    <2> QED
      BY <2>1, <2>2, Zenon
  <1>2. PICK z1 \in Nat, z2 \in Nat, z3 \in Nat, z4 \in Nat : z = <<z1, z2, z3, z4>>
    OBVIOUS
  <1>3. RippleIsSum(<<u1, u2, u3, u4, u5>>, <<z1, z2, z3, z4>>)
    BY RippleOfNumbers
  <1> QED
    BY <1>1, <1>2, <1>3

-----------------------------------------------------------------------------
(* The two halves of a step.                                               *)

LEMMA ScaledLimbs ==
    ASSUME NEW e \in Limbs, NEW d \in Nat
    PROVE  /\ <<e[1] * d, e[2] * d, e[3] * d, e[4] * d>> \in Nat \X Nat \X Nat \X Nat
           /\ ValueOf(<<e[1] * d, e[2] * d, e[3] * d, e[4] * d>>) = ValueOf(e) * d
  <1>0. B \in Nat
    BY BaseTyped
  <1>1. PICK e1 \in Nat, e2 \in Nat, e3 \in Nat, e4 \in Nat :
            e[1] = e1 /\ e[2] = e2 /\ e[3] = e3 /\ e[4] = e4
    BY LimbsTyped, BaseTyped
  <1>2. e1 * d \in Nat /\ e2 * d \in Nat /\ e3 * d \in Nat /\ e4 * d \in Nat
    BY LP!NatProduct
  <1>3. (e1 * d) + B * ((e2 * d) + B * ((e3 * d) + B * (e4 * d)))
          = (e1 + B * (e2 + B * (e3 + B * e4))) * d
    BY <1>0
  <1> QED
    BY <1>1, <1>2, <1>3 DEF ValueOf

\* A product with a digit is added without loss.
LEMMA AddProductExact ==
    ASSUME NEW u \in Accumulator, NEW e \in Limbs, NEW d \in Nat
    PROVE  /\ AddProduct(u, e, d).t \in Accumulator
           /\ AddProduct(u, e, d).over \in Nat
           /\ ValueOfAccumulator(AddProduct(u, e, d).t) + (R * B) * AddProduct(u, e, d).over
                = ValueOfAccumulator(u) + ValueOf(e) * d
  <1> DEFINE z == <<e[1] * d, e[2] * d, e[3] * d, e[4] * d>>
  <1>1. AddProduct(u, e, d) = Ripple(u, z)
    <2>1. (u[1] + e[1] * d) + 0 = u[1] + e[1] * d /\ u[5] + 0 = u[5]
      <3>1. e[1] \in Nat /\ u[1] \in Nat /\ u[5] \in Nat
        BY BaseTyped DEF Accumulator, Limbs, Limb
      <3>2. e[1] * d \in Nat
        BY <3>1, LP!NatProduct
      <3> QED
        BY <3>1, <3>2
    <2> QED
      BY <2>1 DEF AddProduct, Ripple, Mac, Adc
  <1> QED
    BY <1>1, ScaledLimbs, RippleExact, SMTT(60) DEF RippleIsSum

\* Division with remainder has one answer.
LEMMA RemainderIsUniqueFor ==
    ASSUME NEW n \in Nat, n > 0, NEW q \in Int, NEW low \in 0 .. n - 1
    PROVE  (n * q + low) % n = low
  <1> DEFINE v == n * q + low
             q1 == v \div n
             r1 == v % n
  <1>0. v \in Int
    OBVIOUS
  <1>1. q1 \in Int /\ r1 \in 0 .. n - 1 /\ v = n * q1 + r1
    <2> HIDE DEF v
    <2> QED
      BY <1>0
  <1>2. n * (q - q1) = r1 - low
    <2>1. n * q + low = n * q1 + r1
      BY <1>1
    <2> HIDE DEF q1, r1
    <2>2. n * (q - q1) = n * q - n * q1 /\ n * q \in Int /\ n * q1 \in Int
      BY <1>0, <1>1
    <2> QED
      BY <1>0, <1>1, <2>1, <2>2
  <1> HIDE DEF q1, r1, v
  <1>3. n * (q - q1) < n * 1 /\ n * (-1) < n * (q - q1)
    BY <1>0, <1>1, <1>2
  <1>4. q - q1 < 1 /\ -1 < q - q1
    BY <1>0, <1>1, <1>3, LP!QuotientBound
  <1>5. q - q1 = 0
    BY <1>1, <1>4
  <1>6. n * (q - q1) = 0
    BY <1>0, <1>5
  <1>7. r1 = low
    BY <1>1, <1>2, <1>6
  <1> QED
    BY <1>7 DEF r1, v

LEMMA RemainderIsUnique ==
    ASSUME NEW q \in Int, NEW low \in 0 .. B - 1
    PROVE  (B * q + low) % B = low
  <1>1. B \in Nat /\ B > 0
    BY BaseTyped
  <1> HIDE DEF B
  <1> QED
    BY <1>1, RemainderIsUniqueFor

\* A remainder does not see multiples of the divisor.
LEMMA RemainderOfShift ==
    ASSUME NEW v \in Int, NEW k \in Int
    PROVE  (v + B * k) % B = v % B
  <1>0. B \in Nat /\ B > 0
    BY BaseTyped
  <1>1. PICK q \in Int, low \in 0 .. B - 1 : v = B * q + low
    <2>1. v \div B \in Int /\ v % B \in 0 .. B - 1 /\ v = B * (v \div B) + (v % B)
      BY <1>0
    <2> QED
      BY <2>1
  <1>2. v + B * k = B * (q + k) + low
    BY <1>0, <1>1
  <1>3. v % B = low
    BY <1>0, <1>1, RemainderIsUnique
  <1>4. q + k \in Int
    OBVIOUS
  <1>5. (B * (q + k) + low) % B = low
    BY <1>0, <1>4, RemainderIsUnique
  <1> QED
    BY <1>2, <1>3, <1>5

\* A number below R is in its limbs.
LEMMA LimbsOfExact ==
    ASSUME NEW v \in 0 .. R - 1
    PROVE  LimbsOf(v) \in Limbs /\ ValueOf(LimbsOf(v)) = v
  <1>0. B \in Nat /\ B > 0 /\ v \in Nat
    BY BaseTyped
  <1>1. PICK v1 \in Nat : v1 = v \div B /\ v % B \in 0 .. B - 1 /\ v = B * v1 + (v % B)
    BY <1>0, LP!DivisionIsExact
  <1>2. PICK v2 \in Nat : v2 = v1 \div B /\ v1 % B \in 0 .. B - 1 /\ v1 = B * v2 + (v1 % B)
    BY <1>0, LP!DivisionIsExact
  <1>3. PICK v3 \in Nat : v3 = v2 \div B /\ v2 % B \in 0 .. B - 1 /\ v2 = B * v3 + (v2 % B)
    BY <1>0, LP!DivisionIsExact
  <1>4. v3 < B
    <2>1. B * v1 < B * (B * B * B)
      BY <1>0, <1>1, BaseTyped
    <2>2. v1 < B * B * B
      BY <1>0, <2>1, LP!QuotientBound
    <2>3. B * v2 < B * (B * B)
      BY <1>0, <1>2, <2>2
    <2>4. v2 < B * B
      BY <1>0, <2>3, LP!QuotientBound
    <2>5. B * v3 < B * B
      BY <1>0, <1>3, <2>4
    <2> QED
      BY <1>0, <2>5, LP!QuotientBound
  <1>5. v3 % B = v3
    BY <1>0, <1>4
  <1>6. LimbsOf(v) = <<v % B, v1 % B, v2 % B, v3>>
    BY <1>1, <1>2, <1>3, <1>5 DEF LimbsOf, Upper
  <1>7. (v % B) + B * ((v1 % B) + B * ((v2 % B) + B * v3)) = v
    BY <1>0, <1>1, <1>2, <1>3
  <1>8. <<v % B, v1 % B, v2 % B, v3>> \in Limbs
    BY <1>0, <1>1, <1>2, <1>3, <1>4 DEF Limbs, Limb
  <1>9. ValueOf(<<v % B, v1 % B, v2 % B, v3>>)
          = (v % B) + B * ((v1 % B) + B * ((v2 % B) + B * v3))
    BY DEF ValueOf
  <1> QED
    BY <1>6, <1>7, <1>8, <1>9

LEMMA ModulusExact == MODULUS \in Limbs /\ ValueOf(MODULUS) = P
  BY LimbsOfExact, BaseTyped DEF MODULUS

(***************************************************************************)
(* The second half of a step: the limb that is shifted out is zero, the    *)
(* wrapping addition does not wrap, and the five limbs hold the quotient.  *)
(***************************************************************************)
LEMMA CancelLowLimbExact ==
    ASSUME NEW u \in Accumulator, NEW over \in Nat,
           NEW v \in Nat, v = ValueOfAccumulator(u) + (R * B) * over,
           NEW e \in 0 .. R - 1, NEW d \in 0 .. B - 1, NEW s \in Nat,
           s < e + P, v = s + e * d
    PROVE  /\ CancelLowLimb(u, over) \in Accumulator
           /\ ValueOfAccumulator(CancelLowLimb(u, over))
                = (v + LP!Correction(v) * P) \div B
  <1> DEFINE m == (u[1] * INV) % B
             z == <<MODULUS[1] * m, MODULUS[2] * m, MODULUS[3] * m, MODULUS[4] * m>>
             q == Ripple(u, z)
             w == (v + m * P) \div B
  <1>0. B \in Nat /\ B > 1 /\ P \in Nat /\ R \in Nat /\ P < R /\ INV \in Nat
    BY BaseTyped
  <1>1. PICK u1 \in 0 .. B - 1, u2 \in Nat, u3 \in Nat, u4 \in Nat, u5 \in Nat :
            u[1] = u1 /\ u[2] = u2 /\ u[3] = u3 /\ u[4] = u4 /\ u[5] = u5
    BY <1>0, SMTT(60) DEF Accumulator, Limb
  <1>2. m = LP!Correction(v) /\ m \in 0 .. B - 1
    <2> DEFINE k == (u2 + B * (u3 + B * u4)) + (B * B * B) * u5 + R * over
    <2>1. k \in Int
      BY <1>0
    <2>2. v = u1 + B * k
      <3>1. v = (u1 + B * (u2 + B * (u3 + B * u4))) + R * u5 + (R * B) * over
        BY <1>1 DEF ValueOfAccumulator, ValueOf
      <3> QED
        BY <3>1, BaseTyped
    <2> HIDE DEF k
    <2>3. v * INV = u1 * INV + B * (k * INV)
      BY <1>0, <2>1, <2>2
    <2>4. u1 * INV \in Nat /\ k * INV \in Int
      BY <1>0, <2>1, LP!NatProduct
    <2>5. (v * INV) % B = (u1 * INV) % B
      BY <2>3, <2>4, RemainderOfShift
    <2>6. (u1 * INV) % B \in 0 .. B - 1
      BY <1>0, <2>4, LP!DivisionIsExact
    <2> QED
      BY <1>1, <2>5, <2>6 DEF LP!Correction
  <1> HIDE DEF m
  <1>3. /\ z \in Nat \X Nat \X Nat \X Nat
        /\ ValueOf(z) = P * m
    BY <1>0, <1>2, ModulusExact, ScaledLimbs
  <1>4. /\ q.t \in Accumulator
        /\ q.over \in Nat
        /\ ValueOfAccumulator(q.t) + (R * B) * q.over = ValueOfAccumulator(u) + P * m
    BY <1>3, RippleExact, SMTT(60) DEF RippleIsSum
  <1>5. CancelLowLimb(u, over)
          = <<q.t[2], q.t[3], q.t[4], q.t[5], (q.over + over) % B>>
    <2>1. /\ MODULUS[1] \in Nat /\ MODULUS[2] \in Nat /\ MODULUS[3] \in Nat
          /\ MODULUS[4] \in Nat /\ m \in Nat
      BY <1>0, <1>2, ModulusExact, LimbsTyped
    <2>2. /\ MODULUS[1] * m = m * MODULUS[1] /\ MODULUS[2] * m = m * MODULUS[2]
          /\ MODULUS[3] * m = m * MODULUS[3] /\ MODULUS[4] * m = m * MODULUS[4]
      BY <2>1
    <2>3. (u[1] + m * MODULUS[1]) + 0 = u[1] + m * MODULUS[1]
      <3>1. m * MODULUS[1] \in Nat
        BY <2>1, LP!NatProduct
      <3> QED
        BY <1>1, <3>1
    <2>4. \A c : Adc(u[5], c, 0) = Halves((u[5] + c) + 0)
      BY DEF Adc
    <2>5. \A c \in Nat : (u[5] + c) + 0 = u[5] + c
      BY <1>1
    <2> DEFINE p0 == Halves(u[1] + z[1])
               p1 == Halves(u[2] + z[2] + p0.hi)
               p2 == Halves(u[3] + z[3] + p1.hi)
               p3 == Halves(u[4] + z[4] + p2.hi)
               p4 == Halves(u[5] + p3.hi)
    <2>6. q = [t |-> <<p0.lo, p1.lo, p2.lo, p3.lo, p4.lo>>, over |-> p4.hi]
      BY DEF Ripple
    <2>7. /\ Mac(u[1], m, MODULUS[1], 0) = p0
          /\ Mac(u[2], m, MODULUS[2], p0.hi) = p1
          /\ Mac(u[3], m, MODULUS[3], p1.hi) = p2
          /\ Mac(u[4], m, MODULUS[4], p2.hi) = p3
      BY <2>2, <2>3 DEF Mac
    <2>8. p3.hi \in Nat
      <3>1. z[1] \in Nat /\ z[2] \in Nat /\ z[3] \in Nat /\ z[4] \in Nat
        BY <1>3
      <3>2. \A c \in Nat : Halves(c).hi \in Nat
        <4> TAKE c \in Nat
        <4>1. PICK lo \in 0 .. B - 1, hi \in Nat : Halves(c) = [lo |-> lo, hi |-> hi]
          BY HalvesExact
        <4> QED
          BY <4>1
      <3>3. p0.hi \in Nat
        <4>1. u[1] + z[1] \in Nat
          BY <1>1, <3>1
        <4> QED
          BY <4>1, <3>2
      <3>4. p1.hi \in Nat
        <4> HIDE DEF p0, z
        <4>1. u[2] + z[2] + p0.hi \in Nat
          BY <1>1, <3>1, <3>3
        <4> QED
          BY <4>1, <3>2
      <3>5. p2.hi \in Nat
        <4> HIDE DEF p1, z
        <4>1. u[3] + z[3] + p1.hi \in Nat
          BY <1>1, <3>1, <3>4
        <4> QED
          BY <4>1, <3>2
      <3> HIDE DEF p2, z
      <3>6. u[4] + z[4] + p2.hi \in Nat
        BY <1>1, <3>1, <3>5
      <3> QED
        BY <3>6, <3>2
    <2> HIDE DEF p0, p1, p2, p3, z, q
    <2>9. Adc(u[5], p3.hi, 0) = p4
      BY <2>4, <2>5, <2>8
    <2> HIDE DEF p4
    <2> QED
      BY <2>6, <2>7, <2>9 DEF CancelLowLimb, CancelWith, m
  <1> HIDE DEF z, q
  <1>6. w \in Nat /\ B * w = v + m * P
    BY <1>2, LoopParameters, LP!CorrectionCancels
  <1> HIDE DEF w
  <1>7. w < e + P
    <2>1. e \in Nat
      BY <1>0
    <2> QED
      BY <1>0, <1>2, <1>6, <2>1, LoopParameters, LP!AccumulatorBound
  <1>8. PICK l0 \in 0 .. B - 1, l1 \in 0 .. B - 1, l2 \in 0 .. B - 1,
             l3 \in 0 .. B - 1, l4 \in 0 .. B - 1 :
            q.t = <<l0, l1, l2, l3, l4>>
    <2>1. PICK g \in Accumulator : g = q.t
      BY <1>4
    <2>2. g = <<g[1], g[2], g[3], g[4], g[5]>>
      BY DEF Accumulator
    <2> /\ g[1] \in 0 .. B - 1 /\ g[2] \in 0 .. B - 1 /\ g[3] \in 0 .. B - 1
          /\ g[4] \in 0 .. B - 1 /\ g[5] \in 0 .. B - 1
      BY DEF Accumulator, Limb
    <2>4. q.t = <<g[1], g[2], g[3], g[4], g[5]>>
      BY <2>1, <2>2
    <2> WITNESS g[1] \in 0 .. B - 1, g[2] \in 0 .. B - 1, g[3] \in 0 .. B - 1,
                g[4] \in 0 .. B - 1, g[5] \in 0 .. B - 1
    <2> QED
      BY <2>4
  <1>9. PICK h \in Nat : h = q.over + over
    BY <1>4
  <1> DEFINE y0 == (l1 + B * (l2 + B * (l3 + B * l4))) + R * h
  <1>10. y0 \in Nat
    BY <1>0
  <1>11. l0 + B * y0 = B * w
    <2>1. PICK g \in Nat : g = q.over
      BY <1>4
    <2>2. (l0 + B * (l1 + B * (l2 + B * l3))) + R * l4 + (R * B) * g
            = ValueOfAccumulator(u) + P * m
      BY <1>4, <1>8, <2>1 DEF ValueOfAccumulator, ValueOf
    <2>3. PICK n \in Int : n = ValueOfAccumulator(u)
      <3>1. (u1 + B * (u2 + B * (u3 + B * u4))) + R * u5 \in Int
        BY <1>0
      <3> QED
        BY <1>1, <3>1 DEF ValueOfAccumulator, ValueOf
    <2>4. v = n + (R * B) * over
      BY <2>3
    <2>5. l0 + B * y0 = (l0 + B * (l1 + B * (l2 + B * l3))) + R * l4 + (R * B) * g
                          + (R * B) * over
      <3>1. h = g + over
        BY <1>9, <2>1
      <3> QED
        BY <3>1, BaseTyped
    <2>6. m \in Nat
      BY <1>0, <1>2
    <2> HIDE DEF y0
    <2>7. l0 + B * y0 = n + P * m + (R * B) * over
      BY <2>2, <2>3, <2>5
    <2>8. B * w = n + (R * B) * over + m * P
      BY <1>6, <2>4
    <2>9. m * P = P * m /\ P * m \in Int /\ (R * B) * over \in Int
      BY <1>0, <2>6
    <2> QED
      BY <2>7, <2>8, <2>9
  <1>12. w = y0
    <2> HIDE DEF y0
    <2>1. (B * y0 + l0) % B = l0
      BY <1>10, RemainderIsUnique
    <2>2. (B * w + 0) % B = 0
      <3>1. 0 \in 0 .. B - 1
        BY <1>0
      <3> QED
        BY <1>6, <3>1, RemainderIsUnique
    <2>3. B * y0 + l0 = B * w + 0
      <3>1. B * y0 \in Int /\ B * w \in Int
        BY <1>0, <1>6, <1>10
      <3> QED
        BY <3>1, <1>11
    <2>4. l0 = 0
      BY <2>1, <2>2, <2>3
    <2>5. B * y0 = B * w
      <3>1. B * y0 \in Int /\ B * w \in Int
        BY <1>0, <1>6, <1>10
      <3> QED
        BY <3>1, <2>3, <2>4
    <2>6. (B * y0) \div B = y0 /\ (B * w) \div B = w
      BY <1>0, <1>6, <1>10, LP!ExactQuotient
    <2> QED
      BY <2>5, <2>6
  <1>13. h < B
    <2>1. PICK n \in Nat : n = l1 + B * (l2 + B * (l3 + B * l4))
      BY <1>0
    <2>2. w = n + R * h
      BY <1>12, <2>1
    <2>3. R * h < R * 2
      <3>1. R * h \in Nat
        BY <1>0
      <3> QED
        BY <1>0, <1>7, <2>2, <3>1
    <2>4. h < 2 /\ R > 0
      <3>1. R > 0
        BY <1>0
      <3> QED
        BY <1>0, <2>3, <3>1, LP!QuotientBound
    <2> QED
      BY <1>0, <2>4
  <1>14. CancelLowLimb(u, over) = <<l1, l2, l3, l4, h>>
    <2>1. h % B = h
      BY <1>0, <1>13
    <2> QED
      BY <1>5, <1>8, <1>9, <2>1
  <1>15. <<l1, l2, l3, l4, h>> \in Accumulator
    BY <1>0, <1>13 DEF Accumulator, Limb
  <1>16. ValueOfAccumulator(<<l1, l2, l3, l4, h>>) = y0
    BY DEF ValueOfAccumulator, ValueOf
  <1> QED
    BY <1>2, <1>12, <1>14, <1>15, <1>16 DEF w

(***************************************************************************)
(* A whole step: with the accumulator below the first operand plus P, it   *)
(* is the step of the whole-number loop.                                   *)
(***************************************************************************)
LEMMA MulStepExact ==
    ASSUME NEW u \in Accumulator, NEW e \in Limbs, NEW d \in 0 .. B - 1,
           ValueOfAccumulator(u) < ValueOf(e) + P,
           NEW v \in Nat, v = ValueOfAccumulator(u) + ValueOf(e) * d
    PROVE  /\ MulStep(u, e, d) \in Accumulator
           /\ ValueOfAccumulator(MulStep(u, e, d))
                = (v + LP!Correction(v) * P) \div B
  <1> DEFINE sum == AddProduct(u, e, d)
  <1>1. d \in Nat
    BY BaseTyped
  <1>2. /\ sum.t \in Accumulator
        /\ sum.over \in Nat
        /\ v = ValueOfAccumulator(sum.t) + (R * B) * sum.over
    BY <1>1, AddProductExact
  <1>3. ValueOf(e) \in 0 .. R - 1
    BY LimbsTyped
  <1>4. ValueOfAccumulator(u) \in Nat
    BY AccumulatorTyped
  <1>5. MulStep(u, e, d) = CancelLowLimb(sum.t, sum.over)
    BY DEF MulStep
  <1> HIDE DEF sum
  <1> QED
    BY <1>2, <1>3, <1>4, <1>5, CancelLowLimbExact

-----------------------------------------------------------------------------
(* Differences and sums.                                                   *)

\* One subtraction with a borrow.
SbbIsExact(d, e, c) ==
    \E lo \in 0 .. B - 1, next \in 0 .. 1 :
        Sbb(d, e, c) = [lo |-> lo, borrow |-> next] /\ lo - B * next = d - e - c

LEMMA SbbExact ==
    ASSUME NEW d \in 0 .. B - 1, NEW e \in 0 .. B - 1, NEW c \in 0 .. 1
    PROVE  SbbIsExact(d, e, c)
  <1>0. B \in Nat /\ B > 1
    BY BaseTyped
  <1>1. CASE d < e + c
    <2>1. PICK lo \in 0 .. B - 1 : lo = d - e - c + B
      BY <1>0, <1>1
    <2>2. d - e - c = B * (-1) + lo
      BY <1>0, <2>1
    <2>3. (d - e - c) % B = lo
      BY <2>2, RemainderIsUnique
    <2>4. Sbb(d, e, c) = [lo |-> lo, borrow |-> 1]
      BY <1>1, <2>3 DEF Sbb
    <2>5. lo - B * 1 = d - e - c
      BY <1>0, <2>1
    <2> QED
      BY <2>4, <2>5 DEF SbbIsExact
  <1>2. CASE ~(d < e + c)
    <2>1. PICK lo \in 0 .. B - 1 : lo = d - e - c
      BY <1>0, <1>2
    <2>2. d - e - c = B * 0 + lo
      BY <1>0, <2>1
    <2>3. (d - e - c) % B = lo
      BY <2>2, RemainderIsUnique
    <2>4. Sbb(d, e, c) = [lo |-> lo, borrow |-> 0]
      BY <1>2, <2>3 DEF Sbb
    <2>5. lo - B * 0 = d - e - c
      BY <1>0, <2>1
    <2> QED
      BY <2>4, <2>5 DEF SbbIsExact
  <1> QED
    BY <1>1, <1>2

\* What sub_limbs returns, of numbers.
SubIsDifference(u, w) ==
    /\ SubLimbs(u, w).limbs \in Limbs
    /\ SubLimbs(u, w).wrapped <=> ValueOf(u) < ValueOf(w)
    /\ ValueOf(SubLimbs(u, w).limbs)
         = ValueOf(u) - ValueOf(w) + (IF ValueOf(u) < ValueOf(w) THEN R ELSE 0)

LEMMA SubOfNumbers ==
    ASSUME NEW u1 \in 0 .. B - 1, NEW u2 \in 0 .. B - 1, NEW u3 \in 0 .. B - 1,
           NEW u4 \in 0 .. B - 1,
           NEW w1 \in 0 .. B - 1, NEW w2 \in 0 .. B - 1, NEW w3 \in 0 .. B - 1,
           NEW w4 \in 0 .. B - 1
    PROVE  SubIsDifference(<<u1, u2, u3, u4>>, <<w1, w2, w3, w4>>)
  <1> DEFINE u == <<u1, u2, u3, u4>>
             w == <<w1, w2, w3, w4>>
  <1>0. B \in Nat /\ B > 1 /\ R \in Nat /\ R = B * B * B * B
    BY BaseTyped
  <1>1. PICK l0 \in 0 .. B - 1, c0 \in 0 .. 1 :
            Sbb(u1, w1, 0) = [lo |-> l0, borrow |-> c0] /\ l0 - B * c0 = u1 - w1 - 0
    <2>1. SbbIsExact(u1, w1, 0)
      BY SbbExact
    <2> QED
      BY <2>1 DEF SbbIsExact
  <1>2. PICK l1 \in 0 .. B - 1, c1 \in 0 .. 1 :
            Sbb(u2, w2, c0) = [lo |-> l1, borrow |-> c1] /\ l1 - B * c1 = u2 - w2 - c0
    <2>1. SbbIsExact(u2, w2, c0)
      BY SbbExact
    <2> QED
      BY <2>1 DEF SbbIsExact
  <1>3. PICK l2 \in 0 .. B - 1, c2 \in 0 .. 1 :
            Sbb(u3, w3, c1) = [lo |-> l2, borrow |-> c2] /\ l2 - B * c2 = u3 - w3 - c1
    <2>1. SbbIsExact(u3, w3, c1)
      BY SbbExact
    <2> QED
      BY <2>1 DEF SbbIsExact
  <1>4. PICK l3 \in 0 .. B - 1, c3 \in 0 .. 1 :
            Sbb(u4, w4, c2) = [lo |-> l3, borrow |-> c3] /\ l3 - B * c3 = u4 - w4 - c2
    <2>1. SbbIsExact(u4, w4, c2)
      BY SbbExact
    <2> QED
      BY <2>1 DEF SbbIsExact
  <1>5. SubLimbs(u, w) = [limbs |-> <<l0, l1, l2, l3>>, wrapped |-> c3 = 1]
    BY <1>1, <1>2, <1>3, <1>4 DEF SubLimbs
  <1>6. u \in Limbs /\ w \in Limbs /\ <<l0, l1, l2, l3>> \in Limbs
    BY DEF Limbs, Limb
  <1>7. /\ ValueOf(u) = u1 + B * (u2 + B * (u3 + B * u4))
        /\ ValueOf(w) = w1 + B * (w2 + B * (w3 + B * w4))
        /\ ValueOf(<<l0, l1, l2, l3>>) = l0 + B * (l1 + B * (l2 + B * l3))
    BY DEF ValueOf
  <1>8. PICK nu \in 0 .. R - 1, nw \in 0 .. R - 1, nl \in 0 .. R - 1 :
            ValueOf(u) = nu /\ ValueOf(w) = nw /\ ValueOf(<<l0, l1, l2, l3>>) = nl
    BY <1>6, LimbsTyped
  <1>9. nl - R * c3 = nu - nw
    <2>1. /\ l0 = (u1 - w1) + B * c0
          /\ l1 = (u2 - w2 - c0) + B * c1
          /\ l2 = (u3 - w3 - c1) + B * c2
          /\ l3 = (u4 - w4 - c2) + B * c3
      <3>1. B * c0 \in Int /\ B * c1 \in Int /\ B * c2 \in Int /\ B * c3 \in Int
        BY <1>0
      <3> QED
        BY <1>0, <1>1, <1>2, <1>3, <1>4, <3>1
    <2> DEFINE vu == u1 + B * (u2 + B * (u3 + B * u4))
               vw == w1 + B * (w2 + B * (w3 + B * w4))
               vl == l0 + B * (l1 + B * (l2 + B * l3))
    <2>2. vl - R * c3 = vu - vw
      BY <1>0, <2>1
    <2>3. nu = vu /\ nw = vw /\ nl = vl
      BY <1>7, <1>8
    <2> HIDE DEF vu, vw, vl
    <2> QED
      BY <2>2, <2>3
  <1> HIDE DEF u, w
  <1>91. SubLimbs(u, w).limbs = <<l0, l1, l2, l3>>
    BY <1>5
  <1>92. SubLimbs(u, w).wrapped <=> c3 = 1
    <2>1. SubLimbs(u, w).wrapped = (c3 = 1)
      BY <1>5
    <2> QED
      BY <2>1
  <1>10. CASE c3 = 0
    <2>1. nl = nu - nw
      BY <1>0, <1>9, <1>10
    <2>2. ~(nu < nw)
      BY <1>0, <2>1
    <2>3. nl = nu - nw + (IF nu < nw THEN R ELSE 0)
      BY <1>0, <2>1, <2>2
    <2>4. SubIsDifference(u, w)
      BY <1>6, <1>8, <1>10, <1>91, <1>92, <2>2, <2>3 DEF SubIsDifference
    <2> QED
      BY <2>4 DEF u, w
  <1>11. CASE c3 = 1
    <2>1. nl = nu - nw + R
      BY <1>0, <1>9, <1>11
    <2>2. nu < nw
      BY <1>0, <2>1
    <2>3. nl = nu - nw + (IF nu < nw THEN R ELSE 0)
      BY <1>0, <2>1, <2>2
    <2>4. SubIsDifference(u, w)
      BY <1>6, <1>8, <1>11, <1>91, <1>92, <2>2, <2>3 DEF SubIsDifference
    <2> QED
      BY <2>4 DEF u, w
  <1> QED
    BY <1>10, <1>11

LEMMA SubLimbsExact ==
    ASSUME NEW u \in Limbs, NEW w \in Limbs
    PROVE  SubIsDifference(u, w)
  <1>1. /\ u = <<u[1], u[2], u[3], u[4]>> /\ w = <<w[1], w[2], w[3], w[4]>>
    BY DEF Limbs
  <1>2. SubIsDifference(<<u[1], u[2], u[3], u[4]>>, <<w[1], w[2], w[3], w[4]>>)
    BY LimbsTyped, SubOfNumbers
  <1> QED
    BY <1>1, <1>2

\* The modulus is subtracted when it can be.
LEMMA ConditionalReduceExact ==
    ASSUME NEW u \in Limbs
    PROVE  /\ ConditionalReduce(u) \in Limbs
           /\ ValueOf(ConditionalReduce(u))
                = IF ValueOf(u) >= P THEN ValueOf(u) - P ELSE ValueOf(u)
  <1>1. PICK n \in 0 .. R - 1 : ValueOf(u) = n
    BY LimbsTyped
  <1>2. SubIsDifference(u, MODULUS) /\ MODULUS \in Limbs /\ ValueOf(MODULUS) = P
    BY SubLimbsExact, ModulusExact
  <1>3. P \in Nat /\ R \in Nat
    BY BaseTyped
  <1>4. CASE n < P
    <2>1. ConditionalReduce(u) = u
      BY <1>1, <1>2, <1>4 DEF SubIsDifference, ConditionalReduce
    <2> QED
      BY <1>1, <1>3, <1>4, <2>1
  <1>5. CASE ~(n < P)
    <2>1. ConditionalReduce(u) = SubLimbs(u, MODULUS).limbs
      BY <1>1, <1>2, <1>5 DEF SubIsDifference, ConditionalReduce
    <2> QED
      BY <1>1, <1>2, <1>3, <1>5, <2>1 DEF SubIsDifference
  <1> QED
    BY <1>4, <1>5

\* The same, of a number that is named.
ReducesOnce(u, n) ==
    ValueOf(ConditionalReduce(u)) = IF n >= P THEN n - P ELSE n

LEMMA ReduceOfNumber ==
    ASSUME NEW u \in Limbs, NEW n \in Nat, ValueOf(u) = n
    PROVE  ReducesOnce(u, n)
  BY ConditionalReduceExact DEF ReducesOnce

\* The end of mul: below 2 * P the fifth limb is zero.
LEMMA FinishExact ==
    ASSUME NEW u \in Accumulator, ValueOfAccumulator(u) < 2 * P
    PROVE  /\ Finish(u) \in Limbs
           /\ ValueOf(Finish(u)) = IF ValueOfAccumulator(u) >= P
                                      THEN ValueOfAccumulator(u) - P
                                      ELSE ValueOfAccumulator(u)
  <1> DEFINE low == <<u[1], u[2], u[3], u[4]>>
  <1>0. R \in Nat /\ P \in Nat /\ 0 < P /\ 2 * P <= R
    BY BaseTyped
  <1>1. low \in Limbs
    BY DEF Accumulator, Limbs, Limb
  <1>2. PICK n \in 0 .. R - 1 : ValueOf(low) = n
    BY <1>1, LimbsTyped
  <1>3. PICK top \in Nat : u[5] = top
    BY BaseTyped DEF Accumulator, Limb
  <1>4. ValueOfAccumulator(u) = n + R * top
    BY <1>2, <1>3 DEF ValueOfAccumulator, ValueOf
  <1>5. top = 0
    <2>1. R * top < R * 1
      <3>1. R * top \in Nat
        BY <1>0, LP!NatProduct
      <3> QED
        BY <1>0, <1>4, <3>1
    <2>2. top < 1
      BY <1>0, <2>1, LP!QuotientBound
    <2> QED
      BY <2>2
  <1>6. ValueOfAccumulator(u) = ValueOf(low)
    BY <1>0, <1>2, <1>4, <1>5
  <1>7. Finish(u) = ConditionalReduce(low)
    BY <1>3, <1>5 DEF Finish
  <1> HIDE DEF low
  <1> QED
    BY <1>1, <1>6, <1>7, ConditionalReduceExact

(***************************************************************************)
(* Four additions with carries: the dropped carry weighs R.                *)
(***************************************************************************)
LEMMA AddLimbsExact ==
    ASSUME NEW u \in Limbs, NEW w \in Limbs
    PROVE  /\ AddLimbs(u, w) \in Limbs
           /\ \E c \in Nat : ValueOf(AddLimbs(u, w)) + R * c = ValueOf(u) + ValueOf(w)
  <1> DEFINE e == <<u[1], u[2], u[3], u[4], 0>>
             q == Ripple(e, w)
  <1>0. B \in Nat /\ B > 1 /\ R \in Nat
    BY BaseTyped
  <1>1. /\ u[1] \in 0 .. B - 1 /\ u[2] \in 0 .. B - 1 /\ u[3] \in 0 .. B - 1
        /\ u[4] \in 0 .. B - 1
        /\ w[1] \in Nat /\ w[2] \in Nat /\ w[3] \in Nat /\ w[4] \in Nat
    BY <1>0, LimbsTyped
  <1>2. e \in Accumulator /\ w \in Nat \X Nat \X Nat \X Nat
    <2>1. e \in Accumulator
      BY <1>0, <1>1 DEF Accumulator, Limb
    <2>2. w = <<w[1], w[2], w[3], w[4]>>
      BY DEF Limbs
    <2> QED
      BY <1>1, <2>1, <2>2
  <1>3. ValueOfAccumulator(e) = ValueOf(u)
    <2>1. PICK n \in 0 .. R - 1 : ValueOf(u) = n
      BY LimbsTyped
    <2>2. ValueOf(e) = ValueOf(u) /\ e[5] = 0
      BY DEF ValueOf
    <2> HIDE DEF e
    <2>3. ValueOfAccumulator(e) = n + R * 0
      BY <2>1, <2>2 DEF ValueOfAccumulator
    <2> QED
      BY <1>0, <2>1, <2>3
  <1>4. /\ q.t \in Accumulator /\ q.over \in Nat
        /\ ValueOfAccumulator(q.t) + (R * B) * q.over = ValueOf(u) + ValueOf(w)
    BY <1>2, <1>3, RippleExact, SMTT(60) DEF RippleIsSum
  <1>5. AddLimbs(u, w) = <<q.t[1], q.t[2], q.t[3], q.t[4]>>
    <2>1. (u[1] + w[1]) + 0 = u[1] + w[1]
      BY <1>0, <1>1
    <2> QED
      BY <2>1 DEF AddLimbs, Adc, Ripple
  <1> HIDE DEF q, e
  <1>6. AddLimbs(u, w) \in Limbs
    BY <1>4, <1>5 DEF Accumulator, Limbs
  <1>7. ValueOf(AddLimbs(u, w)) + R * (q.t[5] + B * q.over) = ValueOf(u) + ValueOf(w)
    <2>1. PICK n \in 0 .. R - 1 : ValueOf(AddLimbs(u, w)) = n
      BY <1>6, LimbsTyped
    <2>2. PICK top \in Nat, over \in Nat : q.t[5] = top /\ q.over = over
      BY <1>0, <1>4 DEF Accumulator, Limb
    <2>3. ValueOfAccumulator(q.t) = n + R * top
      <3>1. ValueOf(AddLimbs(u, w)) = ValueOf(q.t)
        BY <1>5 DEF ValueOf
      <3> QED
        BY <2>1, <2>2, <3>1 DEF ValueOfAccumulator
    <2>4. n + R * (top + B * over) = (n + R * top) + (R * B) * over
      BY <1>0
    <2> QED
      BY <1>4, <2>1, <2>2, <2>3, <2>4
  <1>8. q.t[5] + B * q.over \in Nat
    <2>1. q.t[5] \in Nat /\ q.over \in Nat
      BY <1>0, <1>4 DEF Accumulator, Limb
    <2>2. B * q.over \in Nat
      BY <1>0, <2>1, LP!NatProduct
    <2> QED
      BY <2>1, <2>2
  <1> QED
    BY <1>6, <1>7, <1>8

\* Two sums: below R, and between R and 2 * R.
LEMMA SumOfLimbs ==
    ASSUME NEW u \in Limbs, NEW w \in Limbs
    PROVE  /\ AddLimbs(u, w) \in Limbs
           /\ ValueOf(AddLimbs(u, w)) = IF ValueOf(u) + ValueOf(w) < R
                                           THEN ValueOf(u) + ValueOf(w)
                                           ELSE ValueOf(u) + ValueOf(w) - R
  <1>0. R \in Nat /\ R > 0
    BY BaseTyped
  <1>1. PICK nu \in 0 .. R - 1, nw \in 0 .. R - 1, n \in 0 .. R - 1 :
            ValueOf(u) = nu /\ ValueOf(w) = nw /\ ValueOf(AddLimbs(u, w)) = n
    BY LimbsTyped, AddLimbsExact
  <1>2. PICK c \in Nat : n + R * c = nu + nw
    BY <1>1, AddLimbsExact
  <1>3. c < 2
    <2>1. R * c \in Nat
      BY <1>0, LP!NatProduct
    <2>2. R * c < R * 2
      BY <1>0, <1>2, <2>1
    <2> QED
      BY <1>0, <2>2, LP!QuotientBound
  <1>4. CASE c = 0
    <2>1. n = nu + nw
      BY <1>0, <1>2, <1>4
    <2> QED
      BY <1>0, <1>1, <2>1, AddLimbsExact
  <1>5. CASE c = 1
    <2>1. n = nu + nw - R
      BY <1>0, <1>2, <1>5
    <2> QED
      BY <1>0, <1>1, <2>1, AddLimbsExact
  <1> QED
    BY <1>3, <1>4, <1>5

\* A sum that is R or more loses R.
WrapsOnce(u, w, n, k) == n + k >= R => ValueOf(AddLimbs(u, w)) = n + k - R

LEMMA SumOfNumbers ==
    ASSUME NEW u \in Limbs, NEW w \in Limbs, NEW n \in Int, NEW k \in Int,
           ValueOf(u) = n, ValueOf(w) = k
    PROVE  WrapsOnce(u, w, n, k)
  <1>1. R \in Nat
    BY BaseTyped
  <1> QED
    BY <1>1, SumOfLimbs DEF WrapsOnce

\* Sums of two reduced elements.
LEMMA AddExact ==
    ASSUME NEW u \in Canonical, NEW w \in Canonical
    PROVE  ValueOf(Add(u, w)) = (ValueOf(u) + ValueOf(w)) % P
  <1>0. P \in Nat /\ 0 < P /\ R \in Nat /\ 2 * P <= R
    BY BaseTyped
  <1>1. u \in Limbs /\ w \in Limbs /\ ValueOf(u) < P /\ ValueOf(w) < P
    BY DEF Canonical
  <1>2. PICK nu \in 0 .. P - 1, nw \in 0 .. P - 1 : ValueOf(u) = nu /\ ValueOf(w) = nw
    BY <1>0, <1>1, LimbsTyped
  <1>3. AddLimbs(u, w) \in Limbs /\ ValueOf(AddLimbs(u, w)) = nu + nw
    BY <1>0, <1>1, <1>2, SumOfLimbs
  <1>4. PICK total \in Nat : total = nu + nw
    BY <1>0
  <1>5. ReducesOnce(AddLimbs(u, w), total)
    BY <1>3, <1>4, ReduceOfNumber
  <1>6. CASE total >= P
    <2>1. ValueOf(Add(u, w)) = total - P
      BY <1>5, <1>6 DEF ReducesOnce, Add
    <2>2. total = P * 1 + (total - P) /\ total - P \in 0 .. P - 1
      BY <1>0, <1>4, <1>6
    <2>3. total % P = total - P
      BY <1>0, <2>2, RemainderIsUniqueFor
    <2> QED
      BY <1>2, <1>4, <2>1, <2>3
  <1>7. CASE ~(total >= P)
    <2>1. ValueOf(Add(u, w)) = total
      BY <1>5, <1>7 DEF ReducesOnce, Add
    <2>2. total = P * 0 + total /\ total \in 0 .. P - 1
      BY <1>0, <1>7
    <2>3. total % P = total
      BY <1>0, <2>2, RemainderIsUniqueFor
    <2> QED
      BY <1>2, <1>4, <2>1, <2>3
  <1> QED
    BY <1>6, <1>7

\* Differences of two reduced elements: the dropped carry undoes the borrow.
LEMMA SubExact ==
    ASSUME NEW u \in Canonical, NEW w \in Canonical
    PROVE  ValueOf(Sub(u, w)) = (ValueOf(u) - ValueOf(w)) % P
  <1>0. P \in Nat /\ 0 < P /\ R \in Nat /\ P < R
    BY BaseTyped
  <1>1. u \in Limbs /\ w \in Limbs /\ ValueOf(u) < P /\ ValueOf(w) < P
    BY DEF Canonical
  <1>2. PICK nu \in 0 .. P - 1, nw \in 0 .. P - 1 : ValueOf(u) = nu /\ ValueOf(w) = nw
    BY <1>0, <1>1, LimbsTyped
  <1> DEFINE d == SubLimbs(u, w)
  <1>3. /\ d.limbs \in Limbs
        /\ d.wrapped <=> nu < nw
        /\ ValueOf(d.limbs) = nu - nw + (IF nu < nw THEN R ELSE 0)
    BY <1>1, <1>2, SubLimbsExact DEF SubIsDifference
  <1>4. CASE nu < nw
    <2>1. Sub(u, w) = AddLimbs(d.limbs, MODULUS)
      BY <1>3, <1>4 DEF Sub
    <2> HIDE DEF d
    <2>2. ValueOf(d.limbs) = nu - nw + R
      BY <1>3, <1>4
    <2>3. ValueOf(Sub(u, w)) = nu - nw + P
      <3>1. PICK n \in Int : n = nu - nw + R
        BY <1>0
      <3>2. WrapsOnce(d.limbs, MODULUS, n, P)
        BY <1>0, <1>3, <2>2, <3>1, ModulusExact, SumOfNumbers
      <3>3. n + P >= R /\ n + P - R = nu - nw + P
        BY <1>0, <3>1
      <3>4. ValueOf(AddLimbs(d.limbs, MODULUS)) = n + P - R
        BY <3>2, <3>3 DEF WrapsOnce
      <3> QED
        BY <2>1, <3>3, <3>4
    <2>4. nu - nw = P * (-1) + (nu - nw + P) /\ nu - nw + P \in 0 .. P - 1
      BY <1>0, <1>4
    <2>5. (nu - nw) % P = nu - nw + P
      BY <1>0, <2>4, RemainderIsUniqueFor
    <2> QED
      BY <1>2, <2>3, <2>5
  <1>5. CASE ~(nu < nw)
    <2>1. Sub(u, w) = d.limbs
      BY <1>3, <1>5 DEF Sub
    <2> HIDE DEF d
    <2>2. ValueOf(Sub(u, w)) = nu - nw
      BY <1>3, <1>5, <2>1
    <2>3. nu - nw = P * 0 + (nu - nw) /\ nu - nw \in 0 .. P - 1
      BY <1>0, <1>5
    <2>4. (nu - nw) % P = nu - nw
      BY <1>0, <2>3, RemainderIsUniqueFor
    <2> QED
      BY <1>2, <2>2, <2>4
  <1> QED
    BY <1>4, <1>5

-----------------------------------------------------------------------------
(* The whole of mul, on values.                                            *)

\* So far the digits of `part` are used; w is the weight of the next one.
PartialProduct(u, e, part, w) ==
    /\ u \in Accumulator
    /\ ValueOfAccumulator(u) < ValueOf(e) + P
    /\ \E q \in 0 .. w - 1 :
          w * ValueOfAccumulator(u) = ValueOf(e) * part + q * P

LEMMA PartialProductStep ==
    ASSUME NEW u, NEW e \in Limbs, NEW part \in Nat, NEW w \in Nat, w > 0,
           PartialProduct(u, e, part, w), NEW d \in 0 .. B - 1
    PROVE  PartialProduct(MulStep(u, e, d), e, part + w * d, w * B)
  <1>0. B \in Nat /\ B > 1 /\ P \in Nat /\ 0 < P /\ R \in Nat /\ d \in Nat
    BY BaseTyped
  <1>1. PICK a \in Nat, s \in Nat : ValueOf(e) = a /\ ValueOfAccumulator(u) = s
    BY LimbsTyped, AccumulatorTyped, BaseTyped DEF PartialProduct
  <1>2. a * d \in Nat
    BY <1>0, LP!NatProduct
  <1> DEFINE v == s + a * d
             m == LP!Correction(v)
             next == (v + m * P) \div B
  <1>3. v \in Nat
    BY <1>2
  <1>4. m \in 0 .. B - 1 /\ next \in Nat /\ B * next = v + m * P
    BY <1>3, LoopParameters, LP!CorrectionCancels
  <1>5. s < a + P
    BY <1>1 DEF PartialProduct
  <1>6. /\ MulStep(u, e, d) \in Accumulator
        /\ ValueOfAccumulator(MulStep(u, e, d)) = next
    BY <1>1, <1>3, <1>5, MulStepExact DEF PartialProduct
  <1>7. v = s + a * d
    OBVIOUS
  <1> HIDE DEF v, m, next
  <1>8. next < a + P
    BY <1>4, <1>5, <1>7, LoopParameters, LP!AccumulatorBound
  <1>9. PICK q \in 0 .. w - 1 : w * s = a * part + q * P
    BY <1>1 DEF PartialProduct
  <1>10. (w * B) * next = a * (part + w * d) + (q + w * m) * P
    <2>1. (w * B) * next = w * (B * next)
      BY <1>0, <1>4
    <2>2. B * next = (s + a * d) + m * P
      BY <1>4, <1>7
    <2>3. w * ((s + a * d) + m * P) = w * s + a * (w * d) + (w * m) * P
      BY <1>0, <1>4
    <2>4. a * (part + w * d) = a * part + a * (w * d)
      BY <1>0
    <2>5. (q + w * m) * P = q * P + (w * m) * P
      BY <1>0, <1>4
    <2>6. a * (w * d) \in Int /\ (w * m) * P \in Int /\ a * part \in Int /\ q * P \in Int
      BY <1>0, <1>4
    <2> DEFINE g == a * (w * d)
               h == (w * m) * P
               k == a * part
               l == q * P
    <2>7. /\ w * ((s + a * d) + m * P) = w * s + g + h
          /\ a * (part + w * d) = k + g /\ (q + w * m) * P = l + h /\ w * s = k + l
          /\ g \in Int /\ h \in Int /\ k \in Int /\ l \in Int
      BY <1>9, <2>3, <2>4, <2>5, <2>6
    <2> HIDE DEF g, h, k, l
    <2> QED
      BY <2>1, <2>2, <2>7
  <1>11. q + w * m \in 0 .. w * B - 1
    <2>1. m <= B - 1 /\ m \in Nat /\ B - 1 \in Nat
      BY <1>0, <1>4
    <2>2. m * w <= (B - 1) * w
      BY <2>1, LP!ProductMonotone
    <2>3. m * w \in Nat /\ m * w = w * m /\ (B - 1) * w = w * B - w /\ w * B \in Nat
      BY <1>0, <2>1, LP!NatProduct
    <2> DEFINE g == w * m
               h == w * B
    <2>4. g \in Nat /\ h \in Nat /\ g <= h - w
      BY <2>2, <2>3
    <2> HIDE DEF g, h
    <2>5. q + g \in 0 .. h - 1
      BY <2>4
    <2> QED
      BY <2>5 DEF g, h
  <1>12. \E p \in 0 .. w * B - 1 : (w * B) * next = a * (part + w * d) + p * P
    BY <1>10, <1>11
  <1> QED
    BY <1>1, <1>6, <1>8, <1>12 DEF PartialProduct

\* Two whole numbers that differ by a multiple of the modulus.
Congruent(a, b) == \E k \in Int : a = b + k * P

\* What mul promises: a reduced element, R times which is the product.
IsProduct(m, e, f) ==
    /\ m \in Canonical
    /\ Congruent(ValueOf(m) * R, ValueOf(e) * ValueOf(f))

LEMMA MulExact ==
    ASSUME NEW e \in Limbs, NEW f \in Canonical
    PROVE  IsProduct(Mul(e, f), e, f)
  <1> DEFINE Step == [s \in Accumulator \X Limb |-> MulStep(s[1], e, s[2])]
             u0 == <<0, 0, 0, 0, 0>>
             u1 == Step[<<u0, f[1]>>]
             u2 == Step[<<u1, f[2]>>]
             u3 == Step[<<u2, f[3]>>]
             u4 == Step[<<u3, f[4]>>]
  <1>0. B \in Nat /\ B > 1 /\ P \in Nat /\ 0 < P /\ P < R /\ R \in Nat /\ R = B * B * B * B
    BY BaseTyped
  <1>1. PICK f1 \in 0 .. B - 1, f2 \in 0 .. B - 1, f3 \in 0 .. B - 1, f4 \in 0 .. B - 1 :
            f[1] = f1 /\ f[2] = f2 /\ f[3] = f3 /\ f[4] = f4
    BY LimbsTyped DEF Canonical
  <1>2. Mul(e, f) = Finish(u4)
    BY DEF Mul
  <1>3. \A u \in Accumulator, d \in 0 .. B - 1 : Step[<<u, d>>] = MulStep(u, e, d)
    BY DEF Limb
  <1> HIDE DEF Step
  <1>4. PartialProduct(u0, e, 0, 1)
    <2>1. PICK a \in Nat : ValueOf(e) = a
      BY LimbsTyped, BaseTyped
    <2>2. u0 \in Accumulator /\ ValueOfAccumulator(u0) = 0
      <3>1. 0 + B * (0 + B * (0 + B * 0)) + R * 0 = 0
        BY <1>0
      <3>2. ValueOfAccumulator(u0) = 0 + B * (0 + B * (0 + B * 0)) + R * 0
        BY DEF ValueOfAccumulator, ValueOf
      <3>3. 0 \in 0 .. B - 1
        BY <1>0
      <3> QED
        BY <3>1, <3>2, <3>3 DEF Accumulator, Limb
    <2>3. 1 * 0 = a * 0 + 0 * P /\ 0 \in 0 .. 1 - 1 /\ 0 < a + P
      BY <1>0
    <2> HIDE DEF u0
    <2> QED
      BY <2>1, <2>2, <2>3 DEF PartialProduct
  <1> HIDE DEF u0
  <1>5. PartialProduct(u1, e, 0 + 1 * f1, 1 * B)
    <2>1. u1 = MulStep(u0, e, f1)
      BY <1>1, <1>3, <1>4 DEF PartialProduct
    <2>2. 0 \in Nat /\ 1 \in Nat /\ 1 > 0
      OBVIOUS
    <2> QED
      BY <1>4, <2>1, <2>2, PartialProductStep
  <1> HIDE DEF u1
  <1>6. PartialProduct(u2, e, (0 + 1 * f1) + (1 * B) * f2, (1 * B) * B)
    <2>1. u2 = MulStep(u1, e, f2)
      BY <1>1, <1>3, <1>5 DEF PartialProduct
    <2>2. 0 + 1 * f1 \in Nat /\ 1 * B \in Nat /\ 1 * B > 0
      BY <1>0
    <2> QED
      BY <1>5, <2>1, <2>2, PartialProductStep
  <1> HIDE DEF u2
  <1> DEFINE w2 == (1 * B) * B
             p2 == (0 + 1 * f1) + (1 * B) * f2
  <1>7. w2 \in Nat /\ w2 > 0 /\ p2 \in Nat
    <2>1. f1 \in Nat /\ f2 \in Nat /\ B * f2 \in Nat
      BY <1>0, LP!NatProduct
    <2> QED
      BY <1>0, <2>1
  <1>8. PartialProduct(u3, e, p2 + w2 * f3, w2 * B)
    <2>1. u3 = MulStep(u2, e, f3)
      BY <1>1, <1>3, <1>6 DEF PartialProduct
    <2>2. PartialProduct(u2, e, p2, w2)
      BY <1>6
    <2> HIDE DEF w2, p2
    <2> QED
      BY <1>7, <2>1, <2>2, PartialProductStep
  <1> HIDE DEF u3
  <1>9. PartialProduct(u4, e, (p2 + w2 * f3) + (w2 * B) * f4, (w2 * B) * B)
    <2>1. u4 = MulStep(u3, e, f4)
      BY <1>1, <1>3, <1>8 DEF PartialProduct
    <2> HIDE DEF w2, p2
    <2>2. w2 * B \in Nat /\ w2 * B > 0 /\ p2 + w2 * f3 \in Nat
      <3>1. f3 \in Nat /\ w2 * f3 \in Nat
        BY <1>0, <1>7, LP!NatProduct
      <3>2. \A n \in Nat : n > 0 => n * B \in Nat /\ n * B > 0
        BY <1>0
      <3> QED
        BY <1>7, <3>1, <3>2
    <2> QED
      BY <1>8, <2>1, <2>2, PartialProductStep
  <1> HIDE DEF u4
  <1>10. (w2 * B) * B = R /\ (p2 + w2 * f3) + (w2 * B) * f4 = ValueOf(f)
    <2>1. (w2 * B) * B = R
      BY <1>0
    <2>2. (p2 + w2 * f3) + (w2 * B) * f4 = f1 + B * (f2 + B * (f3 + B * f4))
      BY <1>0
    <2> QED
      BY <1>1, <2>1, <2>2 DEF ValueOf
  <1>11. PartialProduct(u4, e, ValueOf(f), R)
    BY <1>9, <1>10
  <1>12. PICK a \in 0 .. R - 1, b \in 0 .. P - 1, s \in Nat :
             ValueOf(e) = a /\ ValueOf(f) = b /\ ValueOfAccumulator(u4) = s
    BY <1>0, <1>11, LimbsTyped, AccumulatorTyped DEF PartialProduct, Canonical
  <1>13. PICK q \in 0 .. R - 1 : R * s = a * b + q * P
    BY <1>11, <1>12 DEF PartialProduct
  <1>14. s < 2 * P
    <2>1. a * b <= R * P - P
      <3>1. a \in Nat /\ b \in Nat /\ a <= R - 1 /\ b <= P - 1 /\ R - 1 \in Nat
        BY <1>0
      <3>2. a * b <= (R - 1) * b
        BY <3>1, LP!ProductMonotone
      <3>3. b * (R - 1) <= P * (R - 1)
        BY <1>0, <3>1, LP!ProductMonotone
      <3> QED
        BY <1>0, <3>2, <3>3
    <2>2. q * P <= R * P - P
      <3>1. q * P <= (R - 1) * P
        BY <1>0, LP!ProductMonotone
      <3> QED
        BY <1>0, <3>1
    <2>3. R * s < R * (2 * P)
      <3> DEFINE g == R * P
                 h == a * b
                 l == q * P
      <3>1. /\ g \in Int /\ h \in Int /\ l \in Int /\ R * s = h + l
            /\ h <= g - P /\ l <= g - P /\ R * (2 * P) = 2 * g
        BY <1>0, <1>13, <2>1, <2>2
      <3> HIDE DEF g, h, l
      <3>2. R * s \in Int
        BY <1>0
      <3> QED
        BY <1>0, <3>1
    <2> QED
      BY <1>0, <2>3, LP!QuotientBound
  <1>15. /\ Finish(u4) \in Limbs
         /\ ValueOf(Finish(u4)) = IF s >= P THEN s - P ELSE s
    <2>1. u4 \in Accumulator
      BY <1>11 DEF PartialProduct
    <2> QED
      BY <1>12, <1>14, <2>1, FinishExact
  <1>16. PICK n \in 0 .. P - 1, c \in {0, 1} : ValueOf(Finish(u4)) = n /\ n = s - c * P
    <2>1. CASE s >= P
      <3>1. s - P \in 0 .. P - 1 /\ s - P = s - 1 * P
        BY <1>0, <1>14, <2>1
      <3> QED
        BY <1>15, <2>1, <3>1
    <2>2. CASE ~(s >= P)
      <3>1. s \in 0 .. P - 1 /\ s = s - 0 * P
        BY <1>0, <2>2
      <3> QED
        BY <1>15, <2>2, <3>1
    <2> QED
      BY <2>1, <2>2
  <1>17. n * R = a * b + (q - c * R) * P
    <2>1. (s - c * P) * R = R * s - (c * R) * P
      BY <1>0
    <2>2. (q - c * R) * P = q * P - (c * R) * P
      BY <1>0
    <2> DEFINE g == (c * R) * P
               h == a * b
               l == q * P
    <2>3. /\ g \in Int /\ h \in Int /\ l \in Int
          /\ (s - c * P) * R = R * s - g /\ (q - c * R) * P = l - g /\ R * s = h + l
      BY <1>0, <1>13, <2>1, <2>2
    <2> HIDE DEF g, h, l
    <2> QED
      BY <1>16, <2>3 DEF h
  <1>18. Congruent(n * R, a * b)
    <2>1. q - c * R \in Int
      BY <1>0
    <2> QED
      BY <1>17, <2>1 DEF Congruent
  <1>19. Finish(u4) \in Canonical
    BY <1>0, <1>15, <1>16 DEF Canonical
  <1> QED
    BY <1>2, <1>12, <1>16, <1>18, <1>19 DEF IsProduct

-----------------------------------------------------------------------------
(* Congruence modulo P.                                                    *)

LEMMA CongruentSum ==
    ASSUME NEW a \in Int, NEW b \in Int, NEW c \in Int, NEW d \in Int,
           Congruent(a, b), Congruent(c, d)
    PROVE  Congruent(a + c, b + d)
  <1>1. PICK k \in Int, l \in Int : a = b + k * P /\ c = d + l * P
    BY DEF Congruent
  <1>2. k + l \in Int /\ a + c = (b + d) + (k + l) * P
    BY <1>1, BaseTyped
  <1> QED
    BY <1>2 DEF Congruent

LEMMA CongruentScaled ==
    ASSUME NEW a \in Int, NEW b \in Int, NEW c \in Int, Congruent(a, b)
    PROVE  Congruent(a * c, b * c)
  <1>1. PICK k \in Int : a = b + k * P
    BY DEF Congruent
  <1>2. k * c \in Int /\ a * c = b * c + (k * c) * P
    BY <1>1, BaseTyped
  <1> QED
    BY <1>2 DEF Congruent

LEMMA CongruentTransitive ==
    ASSUME NEW a \in Int, NEW b \in Int, NEW c \in Int,
           Congruent(a, b), Congruent(b, c)
    PROVE  Congruent(a, c)
  <1>1. PICK k \in Int, l \in Int : a = b + k * P /\ b = c + l * P
    BY DEF Congruent
  <1>2. k + l \in Int /\ a = c + (k + l) * P
    BY <1>1, BaseTyped
  <1> QED
    BY <1>2 DEF Congruent

LEMMA CongruentSymmetric ==
    ASSUME NEW a \in Int, NEW b \in Int, Congruent(a, b)
    PROVE  Congruent(b, a)
  <1>1. PICK k \in Int : a = b + k * P
    BY DEF Congruent
  <1>2. -k \in Int /\ b = a + (-k) * P
    BY <1>1, BaseTyped
  <1> QED
    BY <1>2 DEF Congruent

LEMMA CongruentProduct ==
    ASSUME NEW a \in Int, NEW b \in Int, NEW c \in Int, NEW d \in Int,
           Congruent(a, b), Congruent(c, d)
    PROVE  Congruent(a * c, b * d)
  <1>1. Congruent(a * c, b * c) /\ Congruent(c * b, d * b)
    BY CongruentScaled
  <1>2. c * b = b * c /\ d * b = b * d /\ a * c \in Int /\ b * c \in Int /\ b * d \in Int
    OBVIOUS
  <1> QED
    BY <1>1, <1>2, CongruentTransitive

\* The remainder is the one number below P that is congruent.
LEMMA RemainderCongruent ==
    ASSUME NEW a \in Int
    PROVE  a % P \in 0 .. P - 1 /\ Congruent(a % P, a)
  <1>1. P \in Nat /\ P > 0
    BY BaseTyped
  <1>2. a % P \in 0 .. P - 1 /\ a \div P \in Int /\ a = P * (a \div P) + (a % P)
    BY <1>1
  <1> DEFINE q == a \div P
             low == a % P
  <1>3. q \in Int /\ low \in 0 .. P - 1 /\ a = P * q + low
    BY <1>2
  <1> HIDE DEF q, low
  <1>4. -q \in Int /\ low = a + (-q) * P
    BY <1>1, <1>3
  <1>5. Congruent(low, a)
    BY <1>4 DEF Congruent
  <1> QED
    BY <1>3, <1>5 DEF low

LEMMA CongruentRemainder ==
    ASSUME NEW a \in Int, NEW n \in 0 .. P - 1, Congruent(n, a)
    PROVE  n = a % P
  <1>1. PICK k \in Int : n = a + k * P
    BY DEF Congruent
  <1>2. P \in Nat /\ P > 0
    BY BaseTyped
  <1>3. -k \in Int /\ P * (-k) + n = a
    BY <1>1, <1>2
  <1>4. (P * (-k) + n) % P = n
    BY <1>2, <1>3, RemainderIsUniqueFor
  <1> QED
    BY <1>3, <1>4

\* 1/R modulo P, the way INV gives it: B * e is one more than a multiple of P.
LEMMA InverseExists == \E z \in 1 .. P - 1 : (z * R) % P = 1
  <1>0. B \in Nat /\ P \in Nat /\ P > 1 /\ R \in Nat /\ R = B * B * B * B /\ INV \in Nat
    BY BaseTyped, FrAssumption
  <1>1. PICK e \in Nat : INV * P + 1 = B * e
    <2>1. PICK e \in 1 .. INV * P + 1 : INV * P + 1 = B * e
      BY LoopParameters DEF LP!Parameters
    <2>2. INV * P \in Nat
      BY <1>0, LP!NatProduct
    <2> QED
      BY <2>1, <2>2
  <1>2. Congruent(B * e, 1)
    <2>1. B * e = 1 + INV * P
      <3>1. INV * P \in Int
        BY <1>0
      <3> QED
        BY <1>1, <3>1
    <2> QED
      BY <1>0, <2>1 DEF Congruent
  <1>3. Congruent((B * e) * (B * e), 1)
    <2>1. B * e \in Int
      BY <1>0
    <2>2. Congruent((B * e) * (B * e), 1 * 1)
      BY <1>2, <2>1, CongruentProduct
    <2> QED
      BY <2>2
  <1> DEFINE f == (B * e) * (B * e)
             g == (e * e) * (e * e)
             z == g % P
  <1>4. f \in Int /\ g \in Int /\ z \in Int /\ f * f = g * R
    <2>1. f \in Int /\ g \in Int
      BY <1>0
    <2>2. f * f = g * R
      BY <1>0
    <2> QED
      BY <1>0, <2>1, <2>2
  <1> HIDE DEF f
  <1>5. Congruent(g * R, 1)
    <2>1. Congruent(f * f, 1 * 1)
      BY <1>3, <1>4, CongruentProduct DEF f
    <2> QED
      BY <1>4, <2>1
  <1> HIDE DEF g
  <1>6. z \in 0 .. P - 1 /\ Congruent(z, g)
    BY <1>4, RemainderCongruent
  <1> HIDE DEF z
  <1>7. Congruent(z * R, 1)
    <2>1. Congruent(z * R, g * R)
      <3>1. R \in Int
        BY <1>0
      <3> QED
        BY <1>4, <1>6, <3>1, CongruentScaled
    <2>2. z * R \in Int /\ g * R \in Int
      BY <1>0, <1>4
    <2> QED
      BY <1>5, <2>1, <2>2, CongruentTransitive
  <1>8. (z * R) % P = 1
    <2>1. z * R \in Int /\ 1 \in 0 .. P - 1
      BY <1>0, <1>4
    <2> QED
      BY <1>7, <2>1, CongruentSymmetric, CongruentRemainder
  <1>9. z # 0
    <2>1. (0 * R) % P = 0
      <3>1. 0 * R = P * 0 + 0 /\ 0 \in 0 .. P - 1 /\ P > 0
        BY <1>0
      <3> QED
        BY <1>0, <3>1, RemainderIsUniqueFor
    <2> QED
      BY <1>8, <2>1
  <1> QED
    BY <1>6, <1>8, <1>9

\* R can be cancelled.
LEMMA CancelR ==
    ASSUME NEW a \in Int, NEW b \in Int, Congruent(a * R, b * R)
    PROVE  Congruent(a, b)
  <1>0. R \in Nat /\ P \in Nat
    BY BaseTyped
  <1>1. PICK z \in 1 .. P - 1 : (z * R) % P = 1
    BY InverseExists
  <1>2. z * R \in Int /\ z \in Int
    BY <1>0
  <1>3. Congruent(1, z * R)
    BY <1>1, <1>2, RemainderCongruent
  <1>4. ASSUME NEW c \in Int PROVE Congruent(c, (c * R) * z)
    <2>1. Congruent(1 * c, (z * R) * c)
      <3>1. 1 \in Int
        OBVIOUS
      <3> QED
        BY <1>2, <1>3, <3>1, CongruentScaled
    <2>2. 1 * c = c /\ (z * R) * c = (c * R) * z
      BY <1>0, <1>2
    <2> QED
      BY <2>1, <2>2
  <1>5. a * R \in Int /\ b * R \in Int /\ (a * R) * z \in Int /\ (b * R) * z \in Int
    BY <1>0, <1>2
  <1>6. Congruent((a * R) * z, (b * R) * z)
    BY <1>2, <1>5, CongruentScaled
  <1>7. Congruent(a, (a * R) * z) /\ Congruent((b * R) * z, b)
    BY <1>4, <1>5, CongruentSymmetric
  <1> QED
    BY <1>5, <1>6, <1>7, CongruentTransitive

-----------------------------------------------------------------------------
(* Digits and bytes of a number.                                           *)

\* Quotient and remainder are the only ones.
LEMMA DivisionIsUnique ==
    ASSUME NEW n \in Nat, n > 0, NEW q \in Nat, NEW d \in 0 .. n - 1,
           NEW v, v = n * q + d
    PROVE  v \div n = q /\ v % n = d
  <1>1. v \in Nat
    <2>1. n * q \in Nat
      BY LP!NatProduct
    <2> QED
      BY <2>1
  <1> DEFINE p == v \div n
  <1>2. v % n = d
    BY RemainderIsUniqueFor
  <1>3. p \in Nat /\ v = n * p + (v % n)
    BY <1>1, LP!DivisionIsExact
  <1> HIDE DEF p
  <1>4. n * p = n * q
    <2>1. n * p \in Int /\ n * q \in Int
      BY <1>3
    <2> QED
      BY <1>2, <1>3, <2>1
  <1>5. p = q
    BY <1>3, <1>4
  <1> QED
    BY <1>2, <1>5 DEF p

(***************************************************************************)
(* A number in the mixed base of a and b.                                  *)
(***************************************************************************)
LEMMA SplitNumber ==
    ASSUME NEW v \in Nat, NEW a \in Nat, a > 0, NEW b \in Nat, b > 0
    PROVE  /\ (v \div a) \div b = v \div (a * b)
           /\ (v % (a * b)) \div a = (v \div a) % b
           /\ v % (a * b) = a * ((v \div a) % b) + (v % a)
           /\ (v % (a * b)) % a = v % a
  <1>1. PICK q1 \in Nat, r1 \in 0 .. a - 1 :
            v = a * q1 + r1 /\ v \div a = q1 /\ v % a = r1
    BY LP!DivisionIsExact
  <1>2. PICK q2 \in Nat, r2 \in 0 .. b - 1 :
            q1 = b * q2 + r2 /\ q1 \div b = q2 /\ q1 % b = r2
    BY LP!DivisionIsExact
  <1>3. a * b \in Nat /\ a * b > 0
    OBVIOUS
  <1>4. a * r2 + r1 \in 0 .. a * b - 1
    <2>1. r2 \in Nat /\ r2 <= b - 1 /\ b - 1 \in Nat
      OBVIOUS
    <2>2. r2 * a <= (b - 1) * a
      BY <2>1, LP!ProductMonotone
    <2>3. (b - 1) * a = a * b - a /\ r2 * a = a * r2 /\ a * r2 \in Nat
      BY <2>1, LP!NatProduct
    <2> DEFINE g == a * r2
               h == a * b
    <2>4. g \in Nat /\ h \in Nat /\ g <= h - a
      BY <1>3, <2>2, <2>3
    <2> HIDE DEF g, h
    <2>5. g + r1 \in 0 .. h - 1
      BY <2>4
    <2> QED
      BY <2>5 DEF g, h
  <1>5. v = (a * b) * q2 + (a * r2 + r1)
    <2>1. a * (b * q2 + r2) = (a * b) * q2 + a * r2
      OBVIOUS
    <2>2. (a * b) * q2 \in Int /\ a * r2 \in Int
      OBVIOUS
    <2> QED
      BY <1>1, <1>2, <2>1, <2>2
  <1>6. v \div (a * b) = q2 /\ v % (a * b) = a * r2 + r1
    BY <1>3, <1>4, <1>5, DivisionIsUnique
  <1>7. (a * r2 + r1) \div a = r2 /\ (a * r2 + r1) % a = r1
    <2>1. r2 \in Nat
      OBVIOUS
    <2> QED
      BY <2>1, DivisionIsUnique
  <1> QED
    BY <1>1, <1>2, <1>6, <1>7

(***************************************************************************)
(* The word that starts e bytes before the end holds the digits from e     *)
(* bytes down to e - W.                                                    *)
(***************************************************************************)
LEMMA WordOfBytes ==
    ASSUME NEW v \in Nat, NEW e \in Nat, W <= e, e <= N * W
    PROVE  Word(BytesOf(v), N * W - e + 1) = (v \div Power[e - W]) % B
  <1>0. W \in Nat /\ W > 0 /\ N * W \in Nat /\ Byte \in Nat /\ Byte > 1
    BY FrAssumption DEF N
  <1> DEFINE nw == N * W
             first == nw - e + 1
  <1>1. nw \in Nat /\ e <= nw /\ first \in 1 .. nw
    BY <1>0
  <1>2. PICK w : /\ w[0] = 0
                 /\ \A j \in 0 .. W - 1 :
                       w[j + 1] = w[j] * Byte + BytesOf(v)[first + j]
                 /\ Word(BytesOf(v), first) = w[W]
    BY WordRecursion
  <1>3. \A j \in 0 .. nw : Power[j] \in Nat /\ Power[j] > 0
    BY PowerTyped
  <1>4. Power[0] = 1 /\ \A j \in 0 .. nw - 1 : Power[j + 1] = Byte * Power[j]
    BY PowerRecursion
  <1>5. \A n \in 1 .. nw : BytesOf(v)[n] = (v \div Power[nw - n]) % Byte
    BY DEF BytesOf
  <1> HIDE DEF nw, first
  <1> DEFINE S == {j \in Nat : j <= W => w[j] = (v \div Power[e - j]) % Power[j]}
  <1>6. 0 \in S
    <2>1. \A n \in Nat : n % 1 = 0
      OBVIOUS
    <2>2. e - 0 \in 0 .. nw
      BY <1>1
    <2>3. v \div Power[e - 0] \in Nat
      BY <1>3, <2>2, LP!DivisionIsExact
    <2> QED
      BY <1>2, <1>4, <2>1, <2>3
  <1>7. ASSUME NEW j \in S PROVE j + 1 \in S
    <2>1. CASE j + 1 <= W
      <3>1. /\ j \in Nat /\ j \in 0 .. W - 1 /\ j \in 0 .. nw - 1 /\ j \in 0 .. nw
            /\ w[j] = (v \div Power[e - j]) % Power[j]
        BY <1>0, <1>1, <2>1
      <3>2. /\ e - (j + 1) \in 0 .. nw - 1 /\ e - (j + 1) \in 0 .. nw
            /\ (e - (j + 1)) + 1 = e - j
            /\ first + j \in 1 .. nw /\ nw - (first + j) = e - (j + 1)
        BY <1>0, <1>1, <2>1, <3>1 DEF first
      <3> HIDE DEF S
      <3> DEFINE low == Power[e - (j + 1)]
                 pow == Power[j]
                 u == v \div low
      <3>3. low \in Nat /\ low > 0 /\ pow \in Nat /\ pow > 0
        BY <1>3, <3>1, <3>2
      <3>4. Power[e - j] = Byte * low /\ Power[j + 1] = Byte * pow
        BY <1>4, <3>1, <3>2
      <3>5. w[j + 1] = w[j] * Byte + (u % Byte)
        BY <1>2, <1>5, <3>1, <3>2
      <3> HIDE DEF low, pow
      <3>6. u \in Nat
        BY <3>3, LP!DivisionIsExact
      <3>7. u \div Byte = v \div Power[e - j]
        <4>1. Byte > 0 /\ Byte * low = low * Byte
          BY <1>0, <3>3
        <4> QED
          BY <1>0, <3>3, <3>4, <4>1, SplitNumber
      <3> HIDE DEF u
      <3>8. u % (Byte * pow) = Byte * ((u \div Byte) % pow) + (u % Byte)
        <4>1. Byte > 0
          BY <1>0
        <4> QED
          BY <1>0, <3>3, <3>6, <4>1, SplitNumber, SMTT(60)
      <3>9. w[j] = (u \div Byte) % pow
        BY <3>1, <3>7 DEF pow
      <3>10. w[j] * Byte = Byte * w[j]
        <4>1. (u \div Byte) \in Nat
          BY <1>0, <3>6, LP!DivisionIsExact
        <4>2. w[j] \in Int
          BY <3>3, <3>9, <4>1, LP!DivisionIsExact
        <4> QED
          BY <1>0, <4>2
      <3>11. w[j + 1] = u % Power[j + 1]
        BY <3>4, <3>5, <3>8, <3>9, <3>10
      <3> QED
        BY <3>1, <3>11 DEF S, u, low
    <2>2. CASE ~(j + 1 <= W)
      BY <2>2
    <2> QED
      BY <2>1, <2>2
  <1> HIDE DEF S
  <1>8. S = Nat
    <2>1. S \in SUBSET Nat
      BY DEF S
    <2> QED
      BY <1>6, <1>7, <2>1, Induction
  <1>9. w[W] = (v \div Power[e - W]) % Power[W]
    BY <1>0, <1>8 DEF S
  <1> QED
    BY <1>2, <1>9 DEF B, first, nw

\* The four words of a byte array, lowest first.
WordsOf(bytes) ==
    <<Word(bytes, 3 * W + 1), Word(bytes, 2 * W + 1), Word(bytes, W + 1), Word(bytes, 1)>>

LEMMA LimbPowers ==
    /\ Power[0] = 1 /\ Power[W] = B /\ Power[2 * W] = B * B
    /\ Power[3 * W] = (B * B) * B
  <1>0. W \in Nat /\ N * W = 4 * W
    BY FrAssumption DEF N
  <1>1. Power[0] = 1
    BY PowerRecursion
  <1>2. Power[W + W] = Power[W] * Power[W]
    BY <1>0, PowerAdds
  <1>3. Power[2 * W + W] = Power[2 * W] * Power[W]
    <2>1. 2 * W \in Nat /\ 2 * W + W <= N * W
      BY <1>0
    <2> QED
      BY <1>0, <2>1, PowerAdds
  <1>4. W + W = 2 * W /\ 2 * W + W = 3 * W
    BY <1>0
  <1> QED
    BY <1>1, <1>2, <1>3, <1>4 DEF B

\* The words of the bytes of a number are its limbs.
LEMMA WordsAreLimbs ==
    ASSUME NEW v \in Nat
    PROVE  WordsOf(BytesOf(v)) = LimbsOf(v)
  <1>0. W \in Nat /\ W > 0 /\ N * W = 4 * W
    BY FrAssumption DEF N
  <1>1. B \in Nat /\ B > 0 /\ B * B \in Nat /\ B * B > 0
    BY LimbSize
  <1>2. /\ N * W - W + 1 = 3 * W + 1 /\ N * W - 2 * W + 1 = 2 * W + 1
        /\ N * W - 3 * W + 1 = W + 1 /\ N * W - 4 * W + 1 = 1
        /\ W - W = 0 /\ 2 * W - W = W /\ 3 * W - W = 2 * W /\ 4 * W - W = 3 * W
    BY <1>0
  <1>3. Word(BytesOf(v), N * W - W + 1) = (v \div Power[W - W]) % B
    BY <1>0, WordOfBytes
  <1>4. Word(BytesOf(v), N * W - 2 * W + 1) = (v \div Power[2 * W - W]) % B
    <2>1. 2 * W \in Nat /\ W <= 2 * W /\ 2 * W <= N * W
      BY <1>0
    <2> QED
      BY <2>1, WordOfBytes
  <1>5. Word(BytesOf(v), N * W - 3 * W + 1) = (v \div Power[3 * W - W]) % B
    <2>1. 3 * W \in Nat /\ W <= 3 * W /\ 3 * W <= N * W
      BY <1>0
    <2> QED
      BY <2>1, WordOfBytes
  <1>6. Word(BytesOf(v), N * W - 4 * W + 1) = (v \div Power[4 * W - W]) % B
    <2>1. 4 * W \in Nat /\ W <= 4 * W /\ 4 * W <= N * W
      BY <1>0
    <2> QED
      BY <2>1, WordOfBytes
  <1>7. v \div 1 = v
    OBVIOUS
  <1>8. v \div (B * B) = Upper(Upper(v))
    BY <1>1, SplitNumber DEF Upper
  <1>9. v \div ((B * B) * B) = Upper(Upper(Upper(v)))
    BY <1>1, <1>8, SplitNumber DEF Upper
  <1> QED
    BY <1>2, <1>3, <1>4, <1>5, <1>6, <1>7, <1>8, <1>9, LimbPowers
       DEF WordsOf, LimbsOf, Upper

\* The limbs are the only digits of their number.
LEMMA LimbsAreDigits ==
    ASSUME NEW m \in Limbs, NEW v, v = ValueOf(m)
    PROVE  /\ v \in Nat
           /\ m[1] = v % B /\ m[2] = Upper(v) % B /\ m[3] = Upper(Upper(v)) % B
           /\ m[4] = Upper(Upper(Upper(v))) % B
  <1>0. B \in Nat /\ B > 0
    BY LimbSize
  <1>1. PICK m1 \in 0 .. B - 1, m2 \in 0 .. B - 1, m3 \in 0 .. B - 1, m4 \in 0 .. B - 1 :
            m[1] = m1 /\ m[2] = m2 /\ m[3] = m3 /\ m[4] = m4
    BY LimbsTyped
  <1> DEFINE v3 == m3 + B * m4
             v2 == m2 + B * v3
  <1>2. v3 \in Nat /\ v2 \in Nat /\ m4 \in Nat
    <2>1. \A n \in Nat, c \in 0 .. B - 1 : c + B * n \in Nat
      <3> TAKE n \in Nat, c \in 0 .. B - 1
      <3>1. B * n \in Nat
        BY <1>0, LP!NatProduct
      <3> QED
        BY <3>1
    <2> QED
      BY <2>1
  <1>3. v = m1 + B * v2
    BY <1>1 DEF ValueOf
  <1>4. \A n \in Nat, c \in 0 .. B - 1 :
            c + B * n \in Nat /\ (c + B * n) \div B = n /\ (c + B * n) % B = c
    <2> TAKE n \in Nat, c \in 0 .. B - 1
    <2>1. c + B * n = B * n + c /\ B * n \in Nat
      BY <1>0, LP!NatProduct
    <2> QED
      BY <1>0, <2>1, DivisionIsUnique
  <1>5. v3 \div B = m4 /\ v3 % B = m3
    BY <1>2, <1>4
  <1>6. v2 \div B = v3 /\ v2 % B = m2
    <2> HIDE DEF v3
    <2> QED
      BY <1>2, <1>4
  <1> HIDE DEF v2, v3
  <1>7. v \in Nat /\ v \div B = v2 /\ v % B = m1
    BY <1>2, <1>3, <1>4
  <1>8. m4 % B = m4
    <2>1. m4 = B * 0 + m4
      BY <1>0
    <2> QED
      BY <1>0, <2>1, RemainderIsUnique
  <1> QED
    BY <1>1, <1>5, <1>6, <1>7, <1>8 DEF Upper

(***************************************************************************)
(* One byte of a limb is the byte of the number at the limb's place: with  *)
(* the limb at lw, c bytes of it are below this one and s above.           *)
(***************************************************************************)
LEMMA ByteOfLimb ==
    ASSUME NEW v \in Nat, NEW lw \in Nat, lw + W <= N * W,
           NEW c \in Nat, NEW s \in Nat, c + (s + 1) = W
    PROVE  (((v \div Power[lw]) % B) \div Power[c]) % Byte
             = (v \div Power[lw + c]) % Byte
  <1>0. /\ W \in Nat /\ Byte \in Nat /\ Byte > 0 /\ N * W \in Nat /\ W <= N * W
        /\ lw + c <= N * W
    BY FrAssumption DEF N
  <1>1. /\ c \in 0 .. N * W /\ s \in 0 .. N * W /\ s \in 0 .. N * W - 1
        /\ lw \in 0 .. N * W /\ c + (s + 1) <= N * W /\ s + 1 \in Nat
    BY <1>0
  <1> HIDE DEF N
  <1> DEFINE u == v \div Power[lw]
             low == Power[c]
             top == Power[s]
  <1>2. /\ Power[lw] \in Nat /\ Power[lw] > 0
        /\ low \in Nat /\ low > 0 /\ top \in Nat /\ top > 0
    BY <1>1, PowerTyped
  <1>3. B = low * (Byte * top)
    <2>1. Power[c + (s + 1)] = Power[c] * Power[s + 1]
      BY <1>1, PowerAdds
    <2>2. Power[s + 1] = Byte * Power[s]
      BY <1>1, PowerRecursion
    <2> QED
      BY <2>1, <2>2 DEF B
  <1>4. u \in Nat
    BY <1>2, LP!DivisionIsExact
  <1>5. u \div low = v \div Power[lw + c]
    <2>1. Power[lw + c] = Power[lw] * low
      BY <1>0, PowerAdds
    <2> QED
      BY <1>2, <2>1, SplitNumber
  <1> HIDE DEF u, low, top
  <1>6. Byte * top \in Nat /\ Byte * top > 0
    BY <1>0, <1>2
  <1>7. (u % B) \div low = (u \div low) % (Byte * top)
    BY <1>2, <1>3, <1>4, <1>6, SplitNumber
  <1>8. u \div low \in Nat
    BY <1>2, <1>4, LP!DivisionIsExact
  <1>9. ((u \div low) % (Byte * top)) % Byte = (u \div low) % Byte
    <2> DEFINE k == u \div low
    <2>1. k \in Nat
      BY <1>8
    <2> HIDE DEF k
    <2>2. (k % (Byte * top)) % Byte = k % Byte
      <3>1. Byte \in Nat /\ Byte > 0 /\ top \in Nat /\ top > 0
        BY <1>0, <1>2
      <3> DEFINE g == Byte * top
      <3>2. g = Byte * top /\ g \in Nat /\ g > 0
        BY <1>6
      <3> HIDE DEF g
      <3>3. PICK h \in Nat, d \in 0 .. g - 1 : k = g * h + d /\ k % g = d
        BY <2>1, <3>2, LP!DivisionIsExact
      <3>4. PICK e \in Nat, f \in 0 .. Byte - 1 : d = Byte * e + f /\ d % Byte = f
        <4>1. d \in Nat
          BY <3>2
        <4> QED
          BY <3>1, <4>1, LP!DivisionIsExact
      <3> DEFINE q == top * h + e
      <3>5. q \in Nat /\ k = Byte * q + f
        <4>1. top * h \in Nat /\ Byte * (top * h + e) = Byte * (top * h) + Byte * e
          BY <3>1, <3>3, <3>4
        <4>2. g * h = Byte * (top * h)
          <5>1. (Byte * top) * h = Byte * (top * h)
            BY <3>1, <3>3
          <5> QED
            BY <3>2, <5>1
        <4>3. Byte * (top * h) \in Int /\ Byte * e \in Int
          BY <3>1, <3>3, <3>4
        <4> QED
          BY <3>3, <3>4, <4>1, <4>2, <4>3
      <3> HIDE DEF q
      <3>6. k % Byte = f
        <4>1. (Byte * q + f) % Byte = f
          <5>1. q \in Int
            BY <3>5
          <5> QED
            BY <3>1, <5>1, RemainderIsUniqueFor
        <4> QED
          BY <3>5, <4>1
      <3>7. (k % g) % Byte = k % Byte
        BY <3>3, <3>4, <3>6
      <3> QED
        BY <3>7 DEF g
    <2> QED
      BY <2>2 DEF k
  <1> QED
    BY <1>5, <1>7, <1>9 DEF u, low

\* The place of byte n: in which limb, and how far up.
LEMMA PlaceOfByte ==
    ASSUME NEW n \in 1 .. N * W
    PROVE  \E q \in 0 .. 3, s \in 0 .. W - 1 :
              /\ (n - 1) \div W = q /\ (n - 1) % W = s
              /\ n - 1 = W * q + s
  <1>0. W \in Nat /\ W > 0 /\ n - 1 \in Nat /\ n - 1 < 4 * W
    BY FrAssumption DEF N
  <1>1. PICK q \in Nat, s \in 0 .. W - 1 :
            (n - 1) \div W = q /\ (n - 1) % W = s /\ n - 1 = W * q + s
    BY <1>0, LP!DivisionIsExact
  <1>2. W * q < W * 4
    <2>1. W * q \in Nat
      BY <1>0, LP!NatProduct
    <2> QED
      BY <1>0, <1>1, <2>1
  <1>3. q < 4
    BY <1>0, <1>2, LP!QuotientBound
  <1> QED
    BY <1>1, <1>3

(***************************************************************************)
(* to_be_bytes writes the bytes of the number that the product with one    *)
(* holds.                                                                  *)
(***************************************************************************)
LEMMA WrittenBytes ==
    ASSUME NEW e, NEW m \in Limbs, Mul(e, <<1, 0, 0, 0>>) = m,
           NEW v, v = ValueOf(m)
    PROVE  ToBytes(e) = BytesOf(v)
  <1>0. W \in Nat /\ W > 0 /\ N = 4 /\ N * W = 4 * W
    BY FrAssumption DEF N
  <1>1. B \in Nat /\ B > 0 /\ B * B \in Nat /\ B * B > 0
    BY LimbSize
  <1>2. /\ v \in Nat
        /\ m[1] = v % B /\ m[2] = Upper(v) % B /\ m[3] = Upper(Upper(v)) % B
        /\ m[4] = Upper(Upper(Upper(v))) % B
    BY LimbsAreDigits
  <1>3. /\ m[1] = (v \div Power[0]) % B /\ m[2] = (v \div Power[W]) % B
        /\ m[3] = (v \div Power[2 * W]) % B /\ m[4] = (v \div Power[3 * W]) % B
    <2>1. v \div 1 = v
      BY <1>2
    <2>2. Upper(Upper(v)) = v \div (B * B)
      BY <1>1, <1>2, SplitNumber DEF Upper
    <2>3. Upper(Upper(Upper(v))) = v \div ((B * B) * B)
      BY <1>1, <1>2, <2>2, SplitNumber DEF Upper
    <2> QED
      BY <1>2, <2>1, <2>2, <2>3, LimbPowers DEF Upper
  <1>4. ASSUME NEW n \in 1 .. N * W
        PROVE  (m[N - ((n - 1) \div W)] \div Power[W - 1 - ((n - 1) % W)]) % Byte
                 = (v \div Power[N * W - n]) % Byte
    <2>1. PICK q \in 0 .. 3, s \in 0 .. W - 1 :
              (n - 1) \div W = q /\ (n - 1) % W = s /\ n - 1 = W * q + s
      BY PlaceOfByte
    <2> DEFINE c == W - 1 - s
    <2>2. c \in Nat /\ s \in Nat /\ c + (s + 1) = W
      BY <1>0
    <2>3. PICK lw \in Nat : /\ m[N - q] = (v \div Power[lw]) % B
                            /\ lw + W <= N * W /\ lw + c = N * W - n
      <3>1. CASE q = 0
        <4>1. 3 * W \in Nat /\ 3 * W + W <= N * W /\ 3 * W + c = N * W - n /\ N - q = 4
          BY <1>0, <2>1, <3>1
        <4> QED
          BY <1>3, <4>1
      <3>2. CASE q = 1
        <4>1. 2 * W \in Nat /\ 2 * W + W <= N * W /\ 2 * W + c = N * W - n /\ N - q = 3
          BY <1>0, <2>1, <3>2
        <4> QED
          BY <1>3, <4>1
      <3>3. CASE q = 2
        <4>1. W \in Nat /\ W + W <= N * W /\ W + c = N * W - n /\ N - q = 2
          BY <1>0, <2>1, <3>3
        <4> QED
          BY <1>3, <4>1
      <3>4. CASE q = 3
        <4>1. 0 \in Nat /\ 0 + W <= N * W /\ 0 + c = N * W - n /\ N - q = 1
          BY <1>0, <2>1, <3>4
        <4> QED
          BY <1>3, <4>1
      <3> QED
        BY <3>1, <3>2, <3>3, <3>4
    <2> HIDE DEF c
    <2>4. (((v \div Power[lw]) % B) \div Power[c]) % Byte = (v \div Power[lw + c]) % Byte
      BY <1>2, <2>2, <2>3, ByteOfLimb, ZenonT(60)
    <2> QED
      BY <2>1, <2>3, <2>4 DEF c
  <1> QED
    BY <1>4 DEF ToBytes, BytesOf

-----------------------------------------------------------------------------
(* Into Montgomery form and back.                                          *)

LEMMA R2Exact == R2 \in Canonical /\ Congruent(ValueOf(R2), R * R)
  <1>0. P \in Nat /\ R \in Nat /\ P < R /\ R * R \in Int
    BY BaseTyped
  <1>1. PICK n \in 0 .. P - 1 : n = (R * R) % P /\ Congruent(n, R * R)
    BY <1>0, RemainderCongruent
  <1>2. n \in 0 .. R - 1
    BY <1>0
  <1>3. R2 = LimbsOf(n)
    BY <1>1 DEF R2
  <1>4. LimbsOf(n) \in Limbs /\ ValueOf(LimbsOf(n)) = n
    BY <1>2, LimbsOfExact
  <1>5. n < P
    BY <1>0
  <1> QED
    BY <1>1, <1>3, <1>4, <1>5 DEF Canonical

LEMMA OneExact == <<1, 0, 0, 0>> \in Canonical /\ ValueOf(<<1, 0, 0, 0>>) = 1
  <1>0. B \in Nat /\ B > 1 /\ P > 1
    BY BaseTyped, FrAssumption
  <1>1. 1 + B * (0 + B * (0 + B * 0)) = 1
    BY <1>0
  <1>2. ValueOf(<<1, 0, 0, 0>>) = 1
    BY <1>1 DEF ValueOf
  <1>3. 0 \in 0 .. B - 1 /\ 1 \in 0 .. B - 1
    BY <1>0
  <1> QED
    BY <1>0, <1>2, <1>3 DEF Canonical, Limbs, Limb

LEMMA ZeroExact == ZERO \in Canonical /\ ValueOf(ZERO) = 0
  <1>0. B \in Nat /\ B > 1 /\ 0 < P
    BY BaseTyped, FrAssumption
  <1>1. 0 + B * (0 + B * (0 + B * 0)) = 0
    BY <1>0
  <1>2. ValueOf(<<0, 0, 0, 0>>) = 0
    BY <1>1 DEF ValueOf
  <1>3. 0 \in 0 .. B - 1
    BY <1>0
  <1>4. <<0, 0, 0, 0>> \in Canonical
    BY <1>0, <1>2, <1>3 DEF Canonical, Limbs, Limb
  <1> QED
    BY <1>2, <1>4 DEF ZERO

\* An element stands for the number of which it holds R times as much.
StandsFor(e, v) == e \in Canonical /\ Congruent(ValueOf(e), v * R)

LEMMA CanonicalValue ==
    ASSUME NEW e \in Canonical
    PROVE  e \in Limbs /\ ValueOf(e) \in 0 .. P - 1 /\ ValueOf(e) \in Int
  BY LimbsTyped, BaseTyped DEF Canonical

\* from_be_bytes of any 32 bytes.
LEMMA FromBytesExact ==
    ASSUME NEW v \in 0 .. R - 1
    PROVE  StandsFor(FromBytes(BytesOf(v)), v)
  <1>0. R \in Int /\ v \in Nat /\ v \in Int /\ R * R \in Int /\ v * R \in Int
    BY BaseTyped
  <1> DEFINE e == LimbsOf(v)
             m == Mul(e, R2)
  <1>1. FromBytes(BytesOf(v)) = m
    BY <1>0, WordsAreLimbs DEF FromBytes, WordsOf
  <1>2. e \in Limbs /\ ValueOf(e) = v
    BY LimbsOfExact
  <1> HIDE DEF e
  <1>3. m \in Canonical /\ Congruent(ValueOf(m) * R, v * ValueOf(R2))
    BY <1>2, R2Exact, MulExact DEF IsProduct
  <1> HIDE DEF m
  <1>4. PICK n \in Int, r2 \in Int : ValueOf(m) = n /\ ValueOf(R2) = r2
    BY <1>3, R2Exact, CanonicalValue
  <1>5. Congruent(r2 * v, (R * R) * v)
    BY <1>0, <1>4, R2Exact, CongruentScaled
  <1>6. r2 * v = v * r2 /\ (R * R) * v = (v * R) * R /\ v * r2 \in Int /\ (v * R) * R \in Int
        /\ n * R \in Int
    BY <1>0, <1>4
  <1>7. Congruent(n * R, (v * R) * R)
    BY <1>3, <1>4, <1>5, <1>6, CongruentTransitive
  <1>8. Congruent(n, v * R)
    BY <1>0, <1>7, CancelR
  <1> QED
    BY <1>1, <1>3, <1>4, <1>8 DEF StandsFor

\* to_be_bytes of a reduced element.
LEMMA ToBytesExact ==
    ASSUME NEW e, NEW v \in Int, StandsFor(e, v)
    PROVE  ToBytes(e) = BytesOf(v % P)
  <1> DEFINE m == Mul(e, <<1, 0, 0, 0>>)
  <1>0. R \in Int /\ v * R \in Int
    BY BaseTyped
  <1>1. m \in Canonical /\ Congruent(ValueOf(m) * R, ValueOf(e) * 1)
    BY OneExact, MulExact, CanonicalValue DEF IsProduct, StandsFor
  <1> HIDE DEF m
  <1>2. PICK n \in 0 .. P - 1, a \in Int : ValueOf(m) = n /\ ValueOf(e) = a
    BY <1>1, CanonicalValue DEF StandsFor
  <1>3. n \in Int /\ n * R \in Int /\ a * 1 = a
    BY <1>0, BaseTyped
  <1>4. Congruent(n * R, v * R)
    <2>1. Congruent(a, v * R) /\ Congruent(n * R, a)
      BY <1>1, <1>2, <1>3 DEF StandsFor
    <2> QED
      BY <1>0, <1>3, <2>1, CongruentTransitive
  <1>5. Congruent(n, v)
    BY <1>3, <1>4, CancelR
  <1>6. n = v % P
    BY <1>5, CongruentRemainder
  <1>7. m \in Limbs
    BY <1>1, CanonicalValue
  <1> QED
    BY <1>2, <1>6, <1>7, WrittenBytes DEF m

-----------------------------------------------------------------------------
(* The machine.                                                            *)

MulTypeOK ==
    /\ x \in Limbs /\ y \in Canonical
    /\ i \in 0 .. N + 1
    /\ t \in Accumulator
    /\ out \in Limbs

\* The bound on the accumulator is in the second part.
MulInv == MulTypeOK /\ LP!LoopInvariant

LEMMA InitMaps == MulInit => LP!Init /\ MulInv
  <1> SUFFICES ASSUME MulInit PROVE LP!Init /\ MulInv
    OBVIOUS
  <1>0. B \in Nat /\ B > 1 /\ R \in Nat /\ P \in Nat /\ 0 < P
    BY BaseTyped
  <1>1. x \in Limbs /\ y \in Limbs /\ ValueOf(y) < P /\ i = 0
        /\ t = <<0, 0, 0, 0, 0>> /\ out = <<0, 0, 0, 0>>
    BY DEF MulInit, Canonical, ZERO
  <1>2. ValueOf(x) \in 0 .. R - 1 /\ ValueOf(y) \in 0 .. P - 1
    BY <1>0, <1>1, LimbsTyped
  <1>3. Remaining = ValueOf(y) /\ Weight = 1 /\ Accumulated = 0
    <2>1. Remaining = ValueOf(y) /\ Weight = 1
      BY <1>1 DEF Remaining, Weight, UpperLimbs, Weights, N
    <2>2. Accumulated = (0 + B * (0 + B * (0 + B * 0))) + R * 0
      BY <1>1 DEF Accumulated, ValueOf, N
    <2> QED
      BY <1>0, <2>1, <2>2
  <1>4. (i > N) = FALSE
    BY <1>1 DEF N
  <1>5. LP!Init
    BY <1>2, <1>3, <1>4 DEF LP!Init
  <1>6. MulTypeOK
    <2>1. t \in Accumulator /\ out \in Limbs
      BY <1>0, <1>1 DEF Accumulator, Limbs, Limb
    <2> QED
      BY <1>1, <2>1 DEF MulTypeOK, MulInit, N
  <1> QED
    BY <1>5, <1>6, LoopParameters, LP!InitEstablishesLoop DEF MulInv

\* The lowest digit, and what is above it.
LEMMA LowestDigit ==
    ASSUME NEW d \in 0 .. B - 1, NEW v \in Nat
    PROVE  (d + B * v) % B = d /\ (d + B * v) \div B = v
  <1>0. B \in Nat /\ B > 0 /\ d \in Nat
    BY BaseTyped
  <1>1. PICK w \in Nat : w = B * v
    BY <1>0, LP!NatProduct
  <1>2. (d + w) % B = d
    <2>1. d + w = B * v + d
      BY <1>0, <1>1
    <2> QED
      BY <2>1, RemainderIsUnique
  <1>3. PICK g \in Nat : g = (d + w) \div B
    BY <1>0, LP!DivisionIsExact
  <1>4. d + w = B * g + d
    BY <1>0, <1>2, <1>3, LP!DivisionIsExact
  <1>5. B * g = w
    <2>1. B * g \in Nat
      BY <1>0, LP!NatProduct
    <2> QED
      BY <1>0, <1>4, <2>1
  <1>6. (B * g) \div B = g /\ (B * v) \div B = v
    BY <1>0, LP!ExactQuotient
  <1>7. g = v
    BY <1>1, <1>5, <1>6
  <1> QED
    BY <1>1, <1>2, <1>3, <1>7

\* The digits that remain, one by one.
LEMMA NextDigit ==
    ASSUME MulTypeOK, i < N
    PROVE  /\ y[i + 1] \in 0 .. B - 1
           /\ UpperLimbs[i + 1] % B = y[i + 1]
           /\ UpperLimbs[i + 1] \div B = UpperLimbs[i + 2]
           /\ Weights[i + 2] = Weights[i + 1] * B
           /\ Weights[i + 1] # R
  <1>0. B \in Nat /\ B > 1
    BY BaseTyped
  <1>1. PICK y1 \in 0 .. B - 1, y2 \in 0 .. B - 1, y3 \in 0 .. B - 1, y4 \in 0 .. B - 1 :
            y[1] = y1 /\ y[2] = y2 /\ y[3] = y3 /\ y[4] = y4
    BY LimbsTyped DEF MulTypeOK, Canonical
  <1>2. \A d \in 0 .. B - 1, v \in Nat : (d + B * v) % B = d /\ (d + B * v) \div B = v
    BY LowestDigit
  <1>3. /\ y3 + B * y4 \in Nat
        /\ y2 + B * (y3 + B * y4) \in Nat
    <2>1. \A d \in 0 .. B - 1, v \in Nat : d + B * v \in Nat
      <3> TAKE d \in 0 .. B - 1, v \in Nat
      <3>1. B * v \in Nat
        BY <1>0, LP!NatProduct
      <3> QED
        BY <1>0, <3>1
    <2>2. y4 \in Nat
      BY <1>0
    <2>3. y3 + B * y4 \in Nat
      BY <2>1, <2>2
    <2> QED
      BY <2>1, <2>3
  <1>4. /\ B * B \in Nat /\ B * B * B \in Nat
        /\ 1 < B /\ B < B * B /\ B * B < B * B * B /\ B * B * B < B * B * B * B
    <2>1. \A v \in Nat : v > 0 => v * B \in Nat /\ v < v * B
      <3> TAKE v \in Nat
      <3> HAVE v > 0
      <3>1. 2 * v <= B * v
        BY <1>0, LP!ProductMonotone
      <3>2. B * v = v * B /\ v * B \in Nat
        BY <1>0
      <3> QED
        BY <3>1, <3>2
    <2>2. B * B \in Nat /\ B < B * B
      BY <1>0, <2>1
    <2>3. (B * B) * B \in Nat /\ B * B < (B * B) * B
      BY <1>0, <2>1, <2>2
    <2>4. (B * B) * B < ((B * B) * B) * B
      BY <1>0, <2>1, <2>2, <2>3
    <2> QED
      BY <1>0, <2>2, <2>3, <2>4
  <1>5. /\ UpperLimbs[1] = y1 + B * (y2 + B * (y3 + B * y4))
        /\ UpperLimbs[2] = y2 + B * (y3 + B * y4)
        /\ UpperLimbs[3] = y3 + B * y4
        /\ UpperLimbs[4] = y4
        /\ UpperLimbs[5] = 0
        /\ Weights[1] = 1 /\ Weights[2] = B /\ Weights[3] = B * B
        /\ Weights[4] = B * B * B /\ Weights[5] = R
    BY <1>1 DEF UpperLimbs, Weights, ValueOf
  <1>6. R = B * B * B * B
    BY BaseTyped
  <1>7. y4 % B = y4 /\ y4 \div B = 0
    BY <1>0
  <1>8. i \in 0 .. 3
    BY DEF MulTypeOK, N
  <1>9. CASE i = 0
    <2>1. UpperLimbs[1] % B = y1 /\ UpperLimbs[1] \div B = UpperLimbs[2]
      BY <1>2, <1>3, <1>5
    <2>2. Weights[2] = Weights[1] * B /\ Weights[1] # R
      BY <1>0, <1>4, <1>5, <1>6
    <2>3. i + 1 = 1 /\ i + 2 = 2
      BY <1>9
    <2> QED
      BY <1>1, <2>1, <2>2, <2>3
  <1>10. CASE i = 1
    <2>1. UpperLimbs[2] % B = y2 /\ UpperLimbs[2] \div B = UpperLimbs[3]
      BY <1>2, <1>3, <1>5
    <2>2. Weights[3] = Weights[2] * B /\ Weights[2] # R
      BY <1>0, <1>4, <1>5, <1>6
    <2>3. i + 1 = 2 /\ i + 2 = 3
      BY <1>10
    <2> QED
      BY <1>1, <2>1, <2>2, <2>3
  <1>11. CASE i = 2
    <2>1. UpperLimbs[3] % B = y3 /\ UpperLimbs[3] \div B = UpperLimbs[4]
      <3>1. y4 \in Nat
        BY <1>0
      <3> QED
        BY <1>2, <1>5, <3>1
    <2>2. Weights[4] = Weights[3] * B /\ Weights[3] # R
      BY <1>0, <1>4, <1>5, <1>6
    <2>3. i + 1 = 3 /\ i + 2 = 4
      BY <1>11
    <2> QED
      BY <1>1, <2>1, <2>2, <2>3
  <1>12. CASE i = 3
    <2>1. UpperLimbs[4] % B = y4 /\ UpperLimbs[4] \div B = UpperLimbs[5]
      BY <1>5, <1>7
    <2>2. Weights[5] = Weights[4] * B /\ Weights[4] # R
      BY <1>0, <1>4, <1>5, <1>6
    <2>3. i + 1 = 4 /\ i + 2 = 5
      BY <1>12
    <2> QED
      BY <1>1, <2>1, <2>2, <2>3
  <1> QED
    BY <1>8, <1>9, <1>10, <1>11, <1>12

(***************************************************************************)
(* One limb of the second operand is one digit of the whole-number loop.   *)
(***************************************************************************)
LEMMA MultiplyMaps ==
    ASSUME MulInv, Multiply
    PROVE  LP!UseDigit /\ MulTypeOK'
  <1>1. /\ MulTypeOK /\ LP!LoopInvariant
        /\ i \in 0 .. 3 /\ i' = i + 1 /\ x' = x /\ y' = y /\ out' = out
        /\ t' = MulStep(t, x, y[i + 1])
    BY DEF MulInv, MulTypeOK, Multiply, N
  <1>2. /\ Remaining = UpperLimbs[i + 1] /\ Weight = Weights[i + 1]
        /\ Accumulated = ValueOfAccumulator(t)
    BY <1>1 DEF Remaining, Weight, Accumulated, ValueOfAccumulator, N
  <1>3. /\ Remaining' = UpperLimbs[i + 2] /\ Weight' = Weights[i + 2]
        /\ Accumulated' = ValueOfAccumulator(t')
    <2>1. i' \in 1 .. 4 /\ i' + 1 = i + 2
      BY <1>1
    <2>2. UpperLimbs' = UpperLimbs
      BY <1>1 DEF UpperLimbs
    <2>3. Weights' = Weights
      BY DEF Weights
    <2> QED
      BY <2>1, <2>2, <2>3 DEF Remaining, Weight, Accumulated, ValueOfAccumulator, N
  <1>4. /\ y[i + 1] \in 0 .. B - 1
        /\ Remaining % B = y[i + 1]
        /\ Remaining' = Remaining \div B
        /\ Weight' = Weight * B
        /\ Weight # R
    <2>1. i < N
      BY <1>1 DEF N
    <2> QED
      BY <1>1, <1>2, <1>3, <2>1, NextDigit
  <1> DEFINE v == Accumulated + ValueOf(x) * (Remaining % B)
  <1>5. v = ValueOfAccumulator(t) + ValueOf(x) * y[i + 1]
    BY <1>2, <1>4
  <1>6. /\ t \in Accumulator /\ x \in Limbs
        /\ ValueOfAccumulator(t) \in Nat /\ ValueOf(x) \in Nat
        /\ ValueOfAccumulator(t) < ValueOf(x) + P
    <2>1. t \in Accumulator /\ x \in Limbs
      BY <1>1 DEF MulTypeOK
    <2>2. ValueOfAccumulator(t) \in Nat /\ ValueOf(x) \in Nat
      BY <2>1, AccumulatorTyped, LimbsTyped, BaseTyped
    <2>3. Accumulated < ValueOf(x) + P
      BY <1>1 DEF LP!LoopInvariant
    <2> QED
      BY <1>2, <2>1, <2>2, <2>3
  <1>7. v \in Nat
    <2>1. y[i + 1] \in Nat
      BY <1>4, BaseTyped
    <2>2. ValueOf(x) * y[i + 1] \in Nat
      BY <1>6, <2>1, LP!NatProduct
    <2> QED
      BY <1>5, <1>6, <2>2
  <1> HIDE DEF v
  <1>8. /\ t' \in Accumulator
        /\ ValueOfAccumulator(t') = (v + LP!Correction(v) * P) \div B
    BY <1>1, <1>4, <1>5, <1>6, <1>7, MulStepExact
  <1>9. MulTypeOK'
    BY <1>1, <1>8 DEF MulTypeOK, N
  <1>10. (i > N) = FALSE /\ (i > N)' = FALSE
    BY <1>1 DEF N
  <1>11. ValueOf(x)' = ValueOf(x) /\ ValueOf(y)' = ValueOf(y)
    BY <1>1
  <1>12. LP!UseDigit
    BY <1>3, <1>4, <1>8, <1>10, <1>11 DEF LP!UseDigit, v
  <1> QED
    BY <1>9, <1>12

(***************************************************************************)
(* The return is the one conditional subtraction of the whole-number loop. *)
(***************************************************************************)
LEMMA ReturnMaps ==
    ASSUME MulInv, ReturnProduct
    PROVE  LP!Reduce /\ MulTypeOK'
  <1>1. /\ MulTypeOK /\ LP!LoopInvariant
        /\ i = 4 /\ i' = 5 /\ x' = x /\ y' = y /\ t' = t /\ out' = Finish(t)
    BY DEF MulInv, ReturnProduct, N
  <1>2. /\ Remaining = 0 /\ Weight = R /\ Accumulated = ValueOfAccumulator(t)
    BY <1>1 DEF Remaining, Weight, Accumulated, ValueOfAccumulator, UpperLimbs, Weights, N
  <1>3. /\ Remaining' = 0 /\ Weight' = R /\ Accumulated' = ValueOf(out')
    BY <1>1 DEF Remaining, Weight, Accumulated, N
  <1>4. (i > N) = FALSE /\ (i > N)' = TRUE
    BY <1>1 DEF N
  <1>5. Accumulated < 2 * P
    BY <1>1, <1>2, <1>4, LoopParameters, LP!AfterLastDigit
  <1>6. t \in Accumulator
    BY <1>1 DEF MulTypeOK
  <1>7. /\ out' \in Limbs
        /\ Accumulated' = IF Accumulated >= P THEN Accumulated - P ELSE Accumulated
    BY <1>1, <1>2, <1>3, <1>5, <1>6, FinishExact
  <1>8. MulTypeOK'
    BY <1>1, <1>7 DEF MulTypeOK, N
  <1>9. ValueOf(x)' = ValueOf(x) /\ ValueOf(y)' = ValueOf(y)
    BY <1>1
  <1>10. LP!Reduce
    BY <1>2, <1>3, <1>4, <1>7, <1>9 DEF LP!Reduce
  <1> QED
    BY <1>8, <1>10

LEMMA MulInvStep ==
    ASSUME MulInv, [MulNext]_mulVars
    PROVE  MulInv' /\ [LP!Next]_(LP!vars)
  <1>1. CASE Multiply
    <2>1. LP!UseDigit /\ MulTypeOK'
      BY <1>1, MultiplyMaps
    <2>2. LP!LoopInvariant'
      BY <2>1, LoopParameters, LP!UseDigitKeepsLoop DEF MulInv
    <2> QED
      BY <2>1, <2>2 DEF MulInv, LP!Next
  <1>2. CASE ReturnProduct
    <2>1. LP!Reduce /\ MulTypeOK'
      BY <1>2, ReturnMaps
    <2>2. LP!LoopInvariant'
      BY <2>1, LoopParameters, LP!ReduceKeepsLoop DEF MulInv
    <2> QED
      BY <2>1, <2>2 DEF MulInv, LP!Next
  <1>3. CASE UNCHANGED mulVars
    <2>1. x' = x /\ y' = y /\ i' = i /\ t' = t /\ out' = out
      BY <1>3 DEF mulVars
    <2>2. /\ ValueOf(x)' = ValueOf(x) /\ ValueOf(y)' = ValueOf(y)
          /\ Remaining' = Remaining /\ Weight' = Weight
          /\ Accumulated' = Accumulated /\ (i > N)' = (i > N)
      BY <2>1 DEF Remaining, Weight, Accumulated, UpperLimbs, Weights
    <2>3. MulTypeOK'
      BY <2>1 DEF MulInv, MulTypeOK
    <2>4. UNCHANGED LP!vars
      BY <2>2 DEF LP!vars
    <2>5. LP!LoopInvariant'
      BY <2>2 DEF MulInv, LP!LoopInvariant
    <2> QED
      BY <2>3, <2>4, <2>5 DEF MulInv
  <1> QED
    BY <1>1, <1>2, <1>3 DEF MulNext

(***************************************************************************)
(* Fr::mul with its limbs, carries and wrapping additions (field.rs:102-   *)
(* 155) is the whole-number Montgomery loop, for every limb width, modulus *)
(* and pair of operands of which the second is reduced.                    *)
(***************************************************************************)
THEOREM LimbsImplementMontgomery == MulSpec => ImplementsMontgomery
  <1>1. MulInit => LP!Init /\ MulInv
    BY InitMaps
  <1>2. MulInv /\ [MulNext]_mulVars => MulInv' /\ [LP!Next]_(LP!vars)
    BY MulInvStep
  <1>3. MulSpec => LP!Init /\ [][LP!Next]_(LP!vars)
    BY <1>1, <1>2, PTL DEF MulSpec
  <1>4. LP!Init <=> Loop!Init
    BY DEF LP!Init, Loop!Init
  <1>5. [LP!Next]_(LP!vars) <=> [Loop!Next]_(Loop!vars)
    BY DEF LP!Next, LP!UseDigit, LP!Reduce, LP!Correction, LP!vars,
           Loop!Next, Loop!UseDigit, Loop!Reduce, Loop!Correction, Loop!vars
  <1> QED
    BY <1>3, <1>4, <1>5, PTL DEF ImplementsMontgomery, Loop!Spec

(***************************************************************************)
(* The accumulator of limbs stands for the digits used so far times the    *)
(* first operand, up to fewer multiples of P than the weight reached.      *)
(***************************************************************************)
THEOREM LimbsKeepLoopInvariant == MulSpec => []LoopInvariant
  <1>1. MulInv => LoopInvariant
    BY DEF MulInv, LoopInvariant, LP!LoopInvariant, Loop!LoopInvariant
  <1> QED
    BY <1>1, InitMaps, MulInvStep, PTL DEF MulSpec

(***************************************************************************)
(* The four limbs that mul returns are the canonical Montgomery product,   *)
(* also for a first operand that is not reduced.                           *)
(***************************************************************************)
THEOREM LimbsAreCanonical == MulSpec => []ProductIsCanonical
  <1>1. MulInit => MulInv /\ ProductIsCanonical
    BY InitMaps DEF LP!Init, ProductIsCanonical, Loop!ProductIsCanonical
  <1>2. MulInv /\ ProductIsCanonical /\ [MulNext]_mulVars
            => MulInv' /\ ProductIsCanonical'
    <2> SUFFICES ASSUME MulInv, ProductIsCanonical, [MulNext]_mulVars
                 PROVE  MulInv' /\ ProductIsCanonical'
      OBVIOUS
    <2>0. MulInv'
      BY MulInvStep
    <2>1. CASE Multiply
      <3>1. ~(i > N)'
        BY <2>1 DEF Multiply, MulInv, MulTypeOK, N
      <3> QED
        BY <2>0, <3>1 DEF ProductIsCanonical, Loop!ProductIsCanonical
    <2>2. CASE ReturnProduct
      <3>1. LP!ProductIsCanonical'
        BY <2>2, ReturnMaps, LoopParameters, LP!ReduceKeepsLoop DEF MulInv
      <3> QED
        BY <2>0, <3>1 DEF ProductIsCanonical, Loop!ProductIsCanonical,
                          LP!ProductIsCanonical
    <2>3. CASE UNCHANGED mulVars
      <3>1. /\ ValueOf(x)' = ValueOf(x) /\ ValueOf(y)' = ValueOf(y)
            /\ Accumulated' = Accumulated /\ (i > N)' = (i > N)
        BY <2>3 DEF mulVars, Accumulated
      <3> QED
        BY <2>0, <3>1 DEF ProductIsCanonical, Loop!ProductIsCanonical
    <2> QED
      BY <2>1, <2>2, <2>3 DEF MulNext
  <1> QED
    BY <1>1, <1>2, PTL DEF MulSpec

(***************************************************************************)
(* add and sub (field.rs:77-94) are exact modulo P on reduced operands,    *)
(* for every limb width and every modulus of at most half of R.            *)
(***************************************************************************)
THEOREM AddAndSubAreExact == MulSpec => []AddSubExact
  <1>1. MulInv => AddSubExact
    <2> SUFFICES ASSUME MulInv, x \in Canonical PROVE AddSubExact
      BY DEF AddSubExact
    <2>1. y \in Canonical
      BY DEF MulInv, MulTypeOK
    <2> QED
      BY <2>1, AddExact, SubExact DEF AddSubExact
  <1> QED
    BY <1>1, InitMaps, MulInvStep, PTL DEF MulSpec


(***************************************************************************)
(* Any 32 bytes survive the way into Montgomery form and back, up to       *)
(* reduction, for every width of bytes and limbs and every modulus: what   *)
(* from_be_bytes reads is reduced, and to_be_bytes returns the canonical   *)
(* number in the same byte order (field.rs:165-203).                       *)
(***************************************************************************)
THEOREM BytesAlwaysRoundTrip == MulSpec => []BytesRoundTrip
  <1>1. MulInv => BytesRoundTrip
    <2> SUFFICES ASSUME MulInv PROVE BytesRoundTrip
      OBVIOUS
    <2> DEFINE v == ValueOf(x)
               e == FromBytes(BytesOf(v))
    <2>1. v \in 0 .. R - 1
      BY LimbsTyped DEF MulInv, MulTypeOK
    <2> HIDE DEF v
    <2>2. StandsFor(e, v)
      BY <2>1, FromBytesExact
    <2> HIDE DEF e
    <2>3. ToBytes(e) = BytesOf(v % P)
      <3>1. v \in Int
        BY <2>1, BaseTyped
      <3> QED
        BY <2>2, <3>1, ToBytesExact
    <2>4. e \in Canonical
      BY <2>2 DEF StandsFor
    <2> QED
      BY <2>3, <2>4 DEF BytesRoundTrip, v, e
  <1>2. MulInit => MulInv
    BY InitMaps
  <1>3. MulInv /\ [MulNext]_mulVars => MulInv'
    BY MulInvStep
  <1> QED
    BY <1>1, <1>2, <1>3, PTL DEF MulSpec

-----------------------------------------------------------------------------
(* What the operations do to the number that an element stands for.        *)

LEMMA Parameters ==
    /\ P \in Nat /\ P > 1 /\ P \in Int /\ R \in Nat /\ R \in Int /\ P < R
  BY BaseTyped, FrAssumption

\* Congruent numbers have the same elements.
LEMMA StandsForCongruent ==
    ASSUME NEW e, NEW a \in Int, NEW b \in Int, StandsFor(e, a), Congruent(a, b)
    PROVE  StandsFor(e, b)
  <1>1. ValueOf(e) \in Int
    BY CanonicalValue DEF StandsFor
  <1>2. Congruent(a * R, b * R)
    BY Parameters, CongruentScaled
  <1>3. a * R \in Int /\ b * R \in Int
    BY Parameters
  <1>4. Congruent(ValueOf(e), b * R)
    BY <1>1, <1>2, <1>3, CongruentTransitive DEF StandsFor
  <1> QED
    BY <1>4 DEF StandsFor

LEMMA MulStandsFor ==
    ASSUME NEW e, NEW a \in Int, StandsFor(e, a), NEW f, NEW b \in Int, StandsFor(f, b)
    PROVE  StandsFor(Mul(e, f), a * b)
  <1> DEFINE m == Mul(e, f)
  <1>1. e \in Limbs /\ f \in Canonical
    BY CanonicalValue DEF StandsFor
  <1>2. m \in Canonical /\ Congruent(ValueOf(m) * R, ValueOf(e) * ValueOf(f))
    BY <1>1, MulExact DEF IsProduct
  <1> HIDE DEF m
  <1>3. PICK ve \in Int, vf \in Int, n \in Int :
            ValueOf(e) = ve /\ ValueOf(f) = vf /\ ValueOf(m) = n
    BY <1>2, CanonicalValue DEF StandsFor
  <1>4. a * R \in Int /\ b * R \in Int
    BY Parameters
  <1>5. Congruent(ve * vf, (a * R) * (b * R))
    BY <1>3, <1>4, CongruentProduct DEF StandsFor
  <1>6. /\ (a * R) * (b * R) = ((a * b) * R) * R
        /\ ve * vf \in Int /\ n * R \in Int /\ (a * b) * R \in Int
        /\ ((a * b) * R) * R \in Int
    BY Parameters
  <1>7. Congruent(n * R, ((a * b) * R) * R)
    BY <1>2, <1>3, <1>5, <1>6, CongruentTransitive
  <1>8. Congruent(n, (a * b) * R)
    BY <1>6, <1>7, CancelR
  <1> QED
    BY <1>2, <1>3, <1>8 DEF StandsFor, m

LEMMA AddStandsFor ==
    ASSUME NEW e, NEW a \in Int, StandsFor(e, a), NEW f, NEW b \in Int, StandsFor(f, b)
    PROVE  StandsFor(Add(e, f), a + b)
  <1>1. e \in Canonical /\ f \in Canonical /\ e \in Limbs /\ f \in Limbs
    BY CanonicalValue DEF StandsFor
  <1>2. PICK ve \in Int, vf \in Int : ValueOf(e) = ve /\ ValueOf(f) = vf
    BY CanonicalValue DEF StandsFor
  <1>3. PICK n \in 0 .. P - 1 :
            ValueOf(Add(e, f)) = n /\ Congruent(n, ve + vf)
    <2>1. ve + vf \in Int
      OBVIOUS
    <2> QED
      BY <1>1, <1>2, <2>1, AddExact, RemainderCongruent
  <1>4. Add(e, f) \in Canonical
    <2>1. Add(e, f) \in Limbs
      BY <1>1, SumOfLimbs, ConditionalReduceExact DEF Add
    <2> QED
      BY <1>3, <2>1, Parameters DEF Canonical
  <1>5. a * R \in Int /\ b * R \in Int /\ ve + vf \in Int /\ n \in Int
        /\ a * R + b * R \in Int /\ a * R + b * R = (a + b) * R
    BY Parameters
  <1>6. Congruent(ve + vf, a * R + b * R)
    BY <1>2, <1>5, CongruentSum DEF StandsFor
  <1>7. Congruent(n, a * R + b * R)
    BY <1>3, <1>5, <1>6, CongruentTransitive
  <1>8. Congruent(n, (a + b) * R)
    BY <1>5, <1>7
  <1> QED
    BY <1>3, <1>4, <1>8 DEF StandsFor

LEMMA Pow5StandsFor ==
    ASSUME NEW e, NEW a \in Int, StandsFor(e, a)
    PROVE  StandsFor(Pow5(e), Reference!FifthPower(a))
  <1> DEFINE e2 == Mul(e, e)
             e4 == Mul(e2, e2)
             a2 == a * a
             a4 == a2 * a2
  <1>1. a2 \in Int /\ StandsFor(e2, a2)
    BY MulStandsFor
  <1>2. a4 \in Int /\ StandsFor(e4, a4)
    <2> HIDE DEF a2, e2
    <2> QED
      BY <1>1, MulStandsFor
  <1>3. a4 * a \in Int /\ StandsFor(Mul(e4, e), a4 * a)
    <2> HIDE DEF a4, e4
    <2> QED
      BY <1>2, MulStandsFor
  <1>4. Pow5(e) = Mul(e4, e)
    BY DEF Pow5, Square
  <1> DEFINE p1 == (a * a) % P
             p2 == (p1 * a) % P
             p3 == (p2 * a) % P
             p4 == (p3 * a) % P
  <1>5. \A b \in Int : b % P \in Int /\ Congruent(b % P, b)
    BY RemainderCongruent
  <1>6. \A b \in Int, c \in Int : b * c \in Int
    OBVIOUS
  <1>7. p1 \in Int /\ Congruent(p1, a2)
    BY <1>5, <1>6
  <1>8. ASSUME NEW b \in Int, NEW c \in Int, Congruent(b, c)
        PROVE  (b * a) % P \in Int /\ Congruent((b * a) % P, c * a)
    <2>1. (b * a) % P \in Int /\ Congruent((b * a) % P, b * a)
      BY <1>5, <1>6
    <2>2. Congruent(b * a, c * a)
      BY <1>8, CongruentScaled
    <2> QED
      BY <1>6, <2>1, <2>2, CongruentTransitive
  <1>9. p2 \in Int /\ Congruent(p2, a2 * a)
    <2> HIDE DEF p1, a2
    <2> QED
      BY <1>1, <1>7, <1>8
  <1>10. p3 \in Int /\ Congruent(p3, (a2 * a) * a)
    <2>1. a2 * a \in Int
      BY <1>1
    <2> HIDE DEF p2, a2
    <2> QED
      BY <1>9, <1>8, <2>1
  <1>11. p4 \in Int /\ Congruent(p4, ((a2 * a) * a) * a)
    <2>1. (a2 * a) * a \in Int
      BY <1>1
    <2> HIDE DEF p3, a2
    <2> QED
      BY <1>10, <1>8, <2>1
  <1>12. ((a2 * a) * a) * a = a4 * a
    OBVIOUS
  <1>13. Congruent(a4 * a, p4)
    BY <1>3, <1>11, <1>12, CongruentSymmetric
  <1>14. Reference!FifthPower(a) = p4
    BY DEF Reference!FifthPower
  <1> HIDE DEF e4, a4, p4
  <1>15. StandsFor(Mul(e4, e), p4)
    BY <1>3, <1>11, <1>13, StandsForCongruent
  <1> QED
    BY <1>4, <1>14, <1>15

\* An entry of a table, which holds its number in Montgomery form.
LEMMA EntryStandsFor ==
    ASSUME NEW n \in 0 .. P - 1
    PROVE  StandsFor(LimbsOf((n * R) % P), n)
  <1>1. n * R \in Int
    BY Parameters
  <1>2. PICK v \in 0 .. P - 1 : v = (n * R) % P /\ Congruent(v, n * R)
    BY <1>1, RemainderCongruent
  <1>3. v \in 0 .. R - 1 /\ v < P
    BY Parameters
  <1>4. LimbsOf(v) \in Limbs /\ ValueOf(LimbsOf(v)) = v
    BY <1>3, LimbsOfExact
  <1> QED
    BY <1>2, <1>3, <1>4 DEF StandsFor, Canonical

-----------------------------------------------------------------------------
(* The number of an element.                                               *)

LEMMA InverseOfR == RInverse \in 1 .. P - 1 /\ (RInverse * R) % P = 1
  BY InverseExists DEF RInverse

LEMMA NumberOfExact ==
    ASSUME NEW e, NEW a \in Int, StandsFor(e, a)
    PROVE  NumberOf(e) = a % P
  <1> DEFINE z == RInverse
  <1>1. z \in Int /\ (z * R) % P = 1
    BY InverseOfR, Parameters
  <1> HIDE DEF z
  <1>2. PICK v \in Int : ValueOf(e) = v /\ Congruent(v, a * R)
    BY CanonicalValue DEF StandsFor
  <1>3. /\ a * R \in Int /\ v * z \in Int /\ z * R \in Int /\ (a * R) * z \in Int
        /\ (a * R) * z = (z * R) * a
    BY <1>1, Parameters
  <1>4. Congruent(v * z, (a * R) * z)
    BY <1>1, <1>2, <1>3, CongruentScaled
  <1>5. Congruent((z * R) * a, a)
    <2>1. 1 \in Int /\ 1 * a = a
      OBVIOUS
    <2>2. Congruent(1, z * R)
      BY <1>1, <1>3, RemainderCongruent
    <2>3. Congruent(z * R, 1)
      BY <1>3, <2>1, <2>2, CongruentSymmetric
    <2>4. Congruent((z * R) * a, 1 * a)
      BY <1>3, <2>1, <2>3, CongruentScaled
    <2> QED
      BY <2>1, <2>4
  <1>6. Congruent(v * z, a)
    BY <1>3, <1>4, <1>5, CongruentTransitive
  <1>7. (v * z) % P \in 0 .. P - 1 /\ Congruent((v * z) % P, v * z)
    BY <1>3, RemainderCongruent
  <1>8. (v * z) % P \in Int
    BY <1>7
  <1>9. Congruent((v * z) % P, a)
    BY <1>3, <1>6, <1>7, <1>8, CongruentTransitive
  <1>10. (v * z) % P = a % P
    BY <1>7, <1>9, CongruentRemainder
  <1> QED
    BY <1>2, <1>10 DEF NumberOf, z

\* An element stands for its number.
LEMMA StandsForNumber ==
    ASSUME NEW e \in Canonical
    PROVE  NumberOf(e) \in 0 .. P - 1 /\ StandsFor(e, NumberOf(e))
  <1> DEFINE z == RInverse
  <1>1. z \in Int /\ (z * R) % P = 1
    BY InverseOfR, Parameters
  <1> HIDE DEF z
  <1>2. PICK v \in Int : ValueOf(e) = v
    BY CanonicalValue
  <1>3. v * z \in Int /\ z * R \in Int /\ (v * z) * R \in Int /\ (v * z) * R = (z * R) * v
    BY <1>1, Parameters
  <1>4. Congruent(1, z * R)
    BY <1>1, <1>3, RemainderCongruent
  <1>5. Congruent(v, (v * z) * R)
    <2>1. 1 \in Int /\ 1 * v = v
      OBVIOUS
    <2>2. Congruent(1 * v, (z * R) * v)
      BY <1>3, <1>4, <2>1, CongruentScaled
    <2> QED
      BY <1>3, <2>1, <2>2
  <1>6. StandsFor(e, v * z)
    BY <1>2, <1>5 DEF StandsFor
  <1>7. (v * z) % P \in 0 .. P - 1 /\ Congruent((v * z) % P, v * z)
    BY <1>3, RemainderCongruent
  <1>8. Congruent(v * z, (v * z) % P) /\ (v * z) % P \in Int
    BY <1>3, <1>7, CongruentSymmetric
  <1>9. StandsFor(e, (v * z) % P)
    BY <1>3, <1>6, <1>8, StandsForCongruent
  <1> QED
    BY <1>2, <1>7, <1>9 DEF NumberOf, z

-----------------------------------------------------------------------------
(* One round.                                                              *)

\* Three elements and the three numbers they stand for.
Lane == {1, 2, 3}
LanesStandFor(s, v) == \A k \in Lane : v[k] \in Int /\ StandsFor(s[k], v[k])

\* Place of a round constant in its table.
LEMMA ConstantPlace ==
    ASSUME NEW round \in 0 .. N_ROUNDS - 1, NEW k \in Lane
    PROVE  /\ round * T + k \in 1 .. N_ROUNDS * T
           /\ RoundConstants[round * T + k] \in 0 .. P - 1
           /\ StandsFor(C[round * T + k], RoundConstants[round * T + k])
  <1>1. N_ROUNDS \in Nat
    BY PoseidonAssumption DEF N_ROUNDS
  <1>2. round * T + k \in 1 .. N_ROUNDS * T
    BY <1>1 DEF T, Lane
  <1> DEFINE j == round * T + k
  <1>3. /\ j \in DOMAIN RoundConstants /\ RoundConstants[j] \in 0 .. P - 1
    BY <1>2, PoseidonAssumption
  <1> HIDE DEF j
  <1>4. C[j] = LimbsOf((RoundConstants[j] * R) % P)
    BY <1>3 DEF C
  <1>5. StandsFor(C[j], RoundConstants[j])
    BY <1>3, <1>4, EntryStandsFor
  <1> QED
    BY <1>2, <1>3, <1>5 DEF j

\* What the S-box of the reference is applied to.
WithConstant(v, round, k) == (v[k] + RoundConstants[round * T + k]) % P

LEMMA AddConstantsStandFor ==
    ASSUME NEW s, NEW v, LanesStandFor(s, v), NEW round \in 0 .. N_ROUNDS - 1,
           NEW k \in Lane
    PROVE  /\ WithConstant(v, round, k) \in Int
           /\ StandsFor(AddConstants(s, round)[k], WithConstant(v, round, k))
  <1> DEFINE n == RoundConstants[round * T + k]
             c == C[round * T + k]
  <1>1. n \in Int /\ StandsFor(c, n)
    BY ConstantPlace
  <1>2. AddConstants(s, round)[k] = Add(s[k], c)
    BY DEF AddConstants, Lane
  <1> HIDE DEF n, c
  <1>3. v[k] \in Int /\ StandsFor(s[k], v[k])
    BY DEF LanesStandFor
  <1>4. v[k] + n \in Int /\ StandsFor(Add(s[k], c), v[k] + n)
    <2>1. v[k] + n \in Int
      BY <1>1, <1>3
    <2> QED
      BY <1>1, <1>3, <2>1, AddStandsFor, Zenon
  <1>5. /\ (v[k] + n) % P \in 0 .. P - 1
        /\ Congruent((v[k] + n) % P, v[k] + n)
    BY <1>4, RemainderCongruent
  <1>6. (v[k] + n) % P \in Int /\ Congruent(v[k] + n, (v[k] + n) % P)
    BY <1>4, <1>5, CongruentSymmetric
  <1>7. StandsFor(Add(s[k], c), (v[k] + n) % P)
    BY <1>4, <1>6, StandsForCongruent
  <1> QED
    BY <1>2, <1>6, <1>7 DEF WithConstant, n

LEMMA FifthPowerTyped ==
    ASSUME NEW a \in Int
    PROVE  Reference!FifthPower(a) \in Int
  <1>1. \A b \in Int : b % P \in Int
    BY Parameters
  <1>2. \A b \in Int, c \in Int : b * c \in Int
    OBVIOUS
  <1> DEFINE p1 == (a * a) % P
             p2 == (p1 * a) % P
             p3 == (p2 * a) % P
  <1>3. p1 \in Int
    BY <1>1, <1>2
  <1>4. p2 \in Int
    <2> HIDE DEF p1
    <2> QED
      BY <1>1, <1>2, <1>3
  <1>5. p3 \in Int
    <2> HIDE DEF p2
    <2> QED
      BY <1>1, <1>2, <1>4
  <1>6. (p3 * a) % P \in Int
    <2> HIDE DEF p3
    <2> QED
      BY <1>1, <1>2, <1>5
  <1> QED
    BY <1>6 DEF Reference!FifthPower

\* Constants and S-box, of full rounds and of partial ones.
LEMMA SubstitutionStandsFor ==
    ASSUME NEW s, NEW v, LanesStandFor(s, v), NEW round \in 0 .. N_ROUNDS - 1
    PROVE  LanesStandFor(SBox(AddConstants(s, round), round),
                         Reference!Substituted(v, round))
  <1> DEFINE a == AddConstants(s, round)
             b == SBox(a, round)
             w == Reference!Substituted(v, round)
  <1> SUFFICES ASSUME NEW k \in Lane
               PROVE  w[k] \in Int /\ StandsFor(b[k], w[k])
    BY DEF LanesStandFor
  <1>1. Lane = 1 .. Reference!T
    BY DEF Lane, Reference!T
  <1>2. w[k] = IF k = 1 \/ Reference!IsFull(round)
                 THEN Reference!FifthPower(WithConstant(v, round, k))
                 ELSE WithConstant(v, round, k)
    BY <1>1 DEF Reference!Substituted, WithConstant, T, Reference!T
  <1>3. b[k] = IF k = 1 \/ Reference!IsFull(round) THEN Pow5(a[k]) ELSE a[k]
    BY DEF SBox, Reference!IsFull, HALF_F, Lane
  <1>4. /\ WithConstant(v, round, k) \in Int
        /\ StandsFor(a[k], WithConstant(v, round, k))
    BY AddConstantsStandFor
  <1> HIDE DEF a, b, w
  <1>5. /\ Reference!FifthPower(WithConstant(v, round, k)) \in Int
        /\ StandsFor(Pow5(a[k]), Reference!FifthPower(WithConstant(v, round, k)))
    BY <1>4, Pow5StandsFor, FifthPowerTyped
  <1> QED
    BY <1>2, <1>3, <1>4, <1>5

\* The matrix.
LEMMA MatrixStandsFor ==
    ASSUME NEW k \in Lane, NEW j \in Lane
    PROVE  Matrix[k][j] \in Int /\ StandsFor(M[k][j], Matrix[k][j])
  <1>1. k \in 1 .. T /\ j \in 1 .. T
    BY DEF Lane, T
  <1>2. Matrix[k][j] \in 0 .. P - 1
    BY <1>1, PoseidonAssumption
  <1>3. M[k][j] = LimbsOf((Matrix[k][j] * R) % P)
    BY <1>1 DEF M
  <1>4. Matrix[k][j] \in Int
    BY <1>2, Parameters
  <1> QED
    BY <1>2, <1>3, <1>4, EntryStandsFor

LEMMA MixStandsFor ==
    ASSUME NEW s, NEW v, LanesStandFor(s, v), NEW k \in Lane
    PROVE  /\ Mix(s)[k] \in Canonical
           /\ NumberOf(Mix(s)[k]) = Reference!Mixed(v)[k]
  <1> DEFINE Term(j) == Mul(M[k][j], s[j])
             term(j) == Matrix[k][j] * v[j]
  <1>1. \A j \in Lane : term(j) \in Int /\ StandsFor(Term(j), term(j))
    <2> TAKE j \in Lane
    <2>1. Matrix[k][j] \in Int /\ StandsFor(M[k][j], Matrix[k][j])
      BY MatrixStandsFor
    <2>2. v[j] \in Int /\ StandsFor(s[j], v[j])
      BY DEF LanesStandFor
    <2>3. Matrix[k][j] * v[j] \in Int
      BY <2>1, <2>2
    <2>4. StandsFor(Mul(M[k][j], s[j]), Matrix[k][j] * v[j])
      BY <2>1, <2>2, MulStandsFor, Zenon
    <2> QED
      BY <2>3, <2>4
  <1>2. 1 \in Lane /\ 2 \in Lane /\ 3 \in Lane
    BY DEF Lane
  <1>3. Mix(s)[k] = Add(Add(Add(ZERO, Term(1)), Term(2)), Term(3))
    BY DEF Mix, Lane
  <1>4. Reference!Mixed(v)[k] = (term(1) + term(2) + term(3)) % P
    BY DEF Reference!Mixed, Reference!T, Lane
  <1>5. StandsFor(ZERO, 0)
    <2>1. Congruent(0, 0 * R)
      <3>1. 0 = 0 * R + 0 * P /\ 0 \in Int
        BY Parameters
      <3> QED
        BY <3>1 DEF Congruent
    <2> QED
      BY <2>1, ZeroExact DEF StandsFor
  <1> HIDE DEF Term, term
  <1>6. 0 + term(1) \in Int /\ StandsFor(Add(ZERO, Term(1)), 0 + term(1))
    <2>1. 0 \in Int /\ term(1) \in Int /\ StandsFor(Term(1), term(1))
      BY <1>1, <1>2
    <2>2. 0 + term(1) \in Int
      BY <2>1
    <2> QED
      BY <1>5, <2>1, <2>2, AddStandsFor
  <1>7. /\ (0 + term(1)) + term(2) \in Int
        /\ StandsFor(Add(Add(ZERO, Term(1)), Term(2)), (0 + term(1)) + term(2))
    <2>1. term(2) \in Int /\ StandsFor(Term(2), term(2))
      BY <1>1, <1>2
    <2>2. (0 + term(1)) + term(2) \in Int
      BY <1>6, <2>1
    <2> QED
      BY <1>6, <2>1, <2>2, AddStandsFor
  <1>8. /\ ((0 + term(1)) + term(2)) + term(3) \in Int
        /\ StandsFor(Mix(s)[k], ((0 + term(1)) + term(2)) + term(3))
    <2>1. term(3) \in Int /\ StandsFor(Term(3), term(3))
      BY <1>1, <1>2
    <2>2. ((0 + term(1)) + term(2)) + term(3) \in Int
      BY <1>7, <2>1
    <2> QED
      BY <1>3, <1>7, <2>1, <2>2, AddStandsFor
  <1>9. ((0 + term(1)) + term(2)) + term(3) = term(1) + term(2) + term(3)
    <2>1. term(1) \in Int /\ term(2) \in Int /\ term(3) \in Int
      BY <1>1, <1>2
    <2> QED
      BY <2>1
  <1>10. NumberOf(Mix(s)[k]) = (((0 + term(1)) + term(2)) + term(3)) % P
    BY <1>8, NumberOfExact
  <1>11. Mix(s)[k] \in Canonical
    BY <1>8 DEF StandsFor
  <1> QED
    BY <1>4, <1>9, <1>10, <1>11

-----------------------------------------------------------------------------
(* The machine.                                                            *)

\* The numbers of the three lanes: the mapping to the reference.
Numbers(s) == [k \in 1 .. T |-> NumberOf(s[k])]

(***************************************************************************)
(* Inductive: every lane is a reduced element, and the digest is returned  *)
(* after the last round.                                                   *)
(***************************************************************************)
HashInv ==
    /\ \A k \in Lane : state[k] \in Canonical
    /\ r \in 0 .. N_ROUNDS

LEMMA RoundsTyped == N_ROUNDS \in Nat /\ N_ROUNDS = N_ROUNDS_F + N_ROUNDS_P
  BY PoseidonAssumption DEF N_ROUNDS

LEMMA NumbersStandFor ==
    ASSUME NEW s, \A k \in Lane : s[k] \in Canonical
    PROVE  LanesStandFor(s, Numbers(s))
  <1> SUFFICES ASSUME NEW k \in Lane
               PROVE  Numbers(s)[k] \in Int /\ StandsFor(s[k], Numbers(s)[k])
    BY DEF LanesStandFor
  <1>1. Numbers(s)[k] = NumberOf(s[k])
    BY DEF Numbers, Lane, T
  <1>2. NumberOf(s[k]) \in 0 .. P - 1 /\ StandsFor(s[k], NumberOf(s[k]))
    BY StandsForNumber
  <1> QED
    BY <1>1, <1>2, Parameters

\* A whole round is a round of the reference.
LEMMA RoundOfNumbers ==
    ASSUME NEW s, \A k \in Lane : s[k] \in Canonical,
           NEW round \in 0 .. N_ROUNDS - 1,
           NEW next, next = Mix(SBox(AddConstants(s, round), round))
    PROVE  /\ \A k \in Lane : next[k] \in Canonical
           /\ Numbers(next)
                = Reference!Mixed(Reference!Substituted(Numbers(s), round))
  <1> DEFINE boxed == SBox(AddConstants(s, round), round)
             w == Reference!Substituted(Numbers(s), round)
  <1>1. LanesStandFor(boxed, w)
    BY NumbersStandFor, SubstitutionStandsFor
  <1>2. next = Mix(boxed)
    OBVIOUS
  <1> HIDE DEF boxed, w
  <1>3. \A k \in Lane : /\ next[k] \in Canonical
                        /\ NumberOf(next[k]) = Reference!Mixed(w)[k]
    BY <1>1, <1>2, MixStandsFor
  <1>4. Numbers(next) = Reference!Mixed(w)
    <2>1. \A k \in 1 .. T : Numbers(next)[k] = Reference!Mixed(w)[k]
      BY <1>3 DEF Numbers, Lane, T
    <2>2. Numbers(next) = [k \in 1 .. T |-> Numbers(next)[k]]
      BY DEF Numbers
    <2>3. Reference!Mixed(w) = [k \in 1 .. T |-> Reference!Mixed(w)[k]]
      BY DEF Reference!Mixed, Reference!T, T
    <2> QED
      BY <2>1, <2>2, <2>3
  <1> QED
    BY <1>3, <1>4 DEF w

\* Three elements, as a sequence and as a function.
LEMMA TripleIsFunction ==
    ASSUME NEW f, f = [k \in 1 .. T |-> f[k]]
    PROVE  f = <<f[1], f[2], f[3]>>
  <1> DEFINE g == <<f[1], f[2], f[3]>>
  <1>1. g = [k \in 1 .. 3 |-> g[k]]
    OBVIOUS
  <1>2. \A k \in 1 .. 3 : g[k] = f[k]
    OBVIOUS
  <1> HIDE DEF g
  <1> QED
    BY <1>1, <1>2 DEF T, g

LEMMA HashInitMaps == HashInit => Reference!Init /\ HashInv
  <1> SUFFICES ASSUME HashInit PROVE Reference!Init /\ HashInv
    OBVIOUS
  <1>1. PICK l \in Lefts, h \in Rights : left = BytesOf(l) /\ right = BytesOf(h)
    BY DEF HashInit
  <1>2. l \in 0 .. R - 1 /\ h \in 0 .. R - 1
    BY PoseidonAssumption
  <1>3. /\ state[1] = ZERO /\ state[2] = FromBytes(BytesOf(l))
        /\ state[3] = FromBytes(BytesOf(h)) /\ r = 0 /\ digest = <<>>
    BY <1>1 DEF HashInit
  <1>4. l \in Int /\ h \in Int
    BY <1>2, Parameters
  <1>5. StandsFor(state[1], 0)
    <2>1. Congruent(0, 0 * R)
      <3>1. 0 = 0 * R + 0 * P /\ 0 \in Int
        BY Parameters
      <3> QED
        BY <3>1 DEF Congruent
    <2> QED
      BY <1>3, <2>1, ZeroExact DEF StandsFor
  <1>6. StandsFor(state[2], l) /\ StandsFor(state[3], h)
    BY <1>2, <1>3, FromBytesExact
  <1>7. HashInv
    <2>1. \A k \in Lane : state[k] \in Canonical
      BY <1>5, <1>6 DEF Lane, StandsFor
    <2>2. r \in 0 .. N_ROUNDS
      BY <1>3, RoundsTyped
    <2> QED
      BY <2>1, <2>2 DEF HashInv
  <1>8. /\ NumberOf(state[1]) = 0 /\ NumberOf(state[2]) = l % P
        /\ NumberOf(state[3]) = h % P
    <2>1. 0 % P = 0
      BY Parameters
    <2>2. 0 \in Int
      OBVIOUS
    <2> QED
      BY <1>4, <1>5, <1>6, <2>1, <2>2, NumberOfExact
  <1>9. Numbers(state) = <<0, l % P, h % P>>
    <2> DEFINE f == Numbers(state)
    <2>1. /\ f = [k \in 1 .. T |-> f[k]]
          /\ f[1] = 0 /\ f[2] = l % P /\ f[3] = h % P
      BY <1>8 DEF Numbers, T
    <2> HIDE DEF f
    <2> QED
      BY <2>1, TripleIsFunction DEF f
  <1>10. [k \in 1 .. T |-> NumberOf(state[k])] = <<0, l % P, h % P>>
    BY <1>9 DEF Numbers
  <1>11. (IF digest = <<>> THEN -1 ELSE Big(digest)) = -1
    BY <1>3
  <1> QED
    BY <1>3, <1>7, <1>10, <1>11 DEF Reference!Init

LEMMA RoundMaps ==
    ASSUME HashInv, Round
    PROVE  HashInv' /\ Reference!OneRound
  <1>1. r \in 0 .. N_ROUNDS - 1 /\ r' = r + 1 /\ r + 1 \in 0 .. N_ROUNDS
    BY RoundsTyped DEF HashInv, Round
  <1>2. state' = Mix(SBox(AddConstants(state, r), r)) /\ digest' = digest
    BY DEF Round
  <1> DEFINE next == state'
  <1>3. /\ \A k \in Lane : next[k] \in Canonical
        /\ Numbers(next) = Reference!Mixed(Reference!Substituted(Numbers(state), r))
    BY <1>1, <1>2, RoundOfNumbers DEF HashInv
  <1>4. HashInv'
    BY <1>1, <1>3 DEF HashInv
  <1>5. [k \in 1 .. T |-> NumberOf(state'[k])]
          = Reference!Mixed(Reference!Substituted([k \in 1 .. T |-> NumberOf(state[k])], r))
    BY <1>3 DEF Numbers
  <1>6. r < N_ROUNDS_F + N_ROUNDS_P
    BY <1>1, RoundsTyped
  <1> QED
    BY <1>1, <1>2, <1>4, <1>5, <1>6 DEF Reference!OneRound

\* The bytes of a number below R give it back, and they are not empty.
LEMMA BigOfBytes ==
    ASSUME NEW n \in 0 .. R - 1
    PROVE  Big(BytesOf(n)) = n /\ BytesOf(n) # <<>>
  <1>1. n \in Nat
    OBVIOUS
  <1>2. Big(BytesOf(n)) = ValueOf(LimbsOf(n))
    BY <1>1, WordsAreLimbs DEF Big, WordsOf
  <1>3. 1 \in DOMAIN BytesOf(n)
    <2>1. W \in Nat /\ W > 0 /\ N * W = 4 * W
      BY FrAssumption DEF N
    <2>2. 1 \in 1 .. N * W
      BY <2>1
    <2> QED
      BY <2>2 DEF BytesOf
  <1>4. 1 \notin DOMAIN <<>>
    OBVIOUS
  <1> QED
    BY <1>2, <1>3, <1>4, LimbsOfExact

LEMMA ReturnDigestMaps ==
    ASSUME HashInv, Return
    PROVE  HashInv' /\ Reference!Squeeze
  <1>1. /\ r = N_ROUNDS /\ digest = <<>> /\ digest' = ToBytes(state[1])
        /\ state' = state /\ r' = r
    BY DEF Return
  <1> DEFINE n == NumberOf(state[1])
  <1>2. n \in 0 .. P - 1 /\ StandsFor(state[1], n)
    <2>1. state[1] \in Canonical
      BY DEF HashInv, Lane
    <2> QED
      BY <2>1, StandsForNumber
  <1> HIDE DEF n
  <1>3. n \in Int /\ n % P = n /\ n \in 0 .. R - 1
    BY <1>2, Parameters
  <1>4. ToBytes(state[1]) = BytesOf(n)
    BY <1>2, <1>3, ToBytesExact
  <1>5. (IF digest' = <<>> THEN -1 ELSE Big(digest')) = n
    BY <1>1, <1>3, <1>4, BigOfBytes
  <1>6. (IF digest = <<>> THEN -1 ELSE Big(digest)) = -1
    BY <1>1
  <1>7. [k \in 1 .. T |-> NumberOf(state[k])][1] = n
    BY DEF n, T
  <1>8. HashInv'
    BY <1>1 DEF HashInv
  <1>9. [k \in 1 .. T |-> NumberOf(state'[k])] = [k \in 1 .. T |-> NumberOf(state[k])]
    BY <1>1
  <1> QED
    BY <1>1, <1>5, <1>6, <1>7, <1>8, <1>9, RoundsTyped DEF Reference!Squeeze

LEMMA HashStep ==
    ASSUME HashInv, [HashNext]_hashVars
    PROVE  HashInv' /\ [Reference!Next]_<<[k \in 1 .. T |-> NumberOf(state[k])], r,
                                          IF digest = <<>> THEN -1 ELSE Big(digest)>>
  <1>1. CASE Round
    BY <1>1, RoundMaps DEF Reference!Next
  <1>2. CASE Return
    BY <1>2, ReturnDigestMaps DEF Reference!Next
  <1>3. CASE UNCHANGED hashVars
    <2>1. state' = state /\ r' = r /\ digest' = digest
      BY <1>3 DEF hashVars
    <2>2. HashInv'
      BY <2>1 DEF HashInv
    <2> QED
      BY <2>1, <2>2
  <1> QED
    BY <1>1, <1>2, <1>3 DEF HashNext

(***************************************************************************)
(* "contract Merkle roots match client proofs" (poseidon/mod.rs:5): for    *)
(* every modulus and width of a limb, number of rounds, table of constants *)
(* and matrix, and for every 64 bytes of input, what poseidon2_be computes *)
(* limb by limb is, round by round, the hash of the circuits and clients.  *)
(***************************************************************************)
THEOREM HashImplementsReference == HashSpec => ImplementsReference
  <1>1. HashInit => Reference!Init /\ HashInv
    BY HashInitMaps
  <1>2. HashInv /\ [HashNext]_hashVars
          => HashInv' /\ [Reference!Next]_<<[k \in 1 .. T |-> NumberOf(state[k])], r,
                                            IF digest = <<>> THEN -1 ELSE Big(digest)>>
    BY HashStep
  <1> QED
    BY <1>1, <1>2, PTL DEF HashSpec, ImplementsReference, Reference!Spec

(***************************************************************************)
(* After every round every lane is below the modulus, so that the single   *)
(* corrections of add and mul (field.rs:78, field.rs:145) suffice in the   *)
(* next one.                                                               *)
(***************************************************************************)
THEOREM LanesStayReduced == HashSpec => []LanesReduced
  <1>1. HashInv => LanesReduced
    BY DEF HashInv, LanesReduced, Canonical, Lane, T
  <1>2. HashInit => HashInv
    BY HashInitMaps
  <1>3. HashInv /\ [HashNext]_hashVars => HashInv'
    BY HashStep
  <1> QED
    BY <1>1, <1>2, <1>3, PTL DEF HashSpec
=============================================================================
