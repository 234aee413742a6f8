-------------------------- MODULE ProofGateProofs ---------------------------
(***************************************************************************)
(* Proofs for ProofGate: for every group order, set of keys and calls, the *)
(* pool and the verifier accept exactly what was proved, and the two ways  *)
(* to negate a point agree.                                                *)
(***************************************************************************)
EXTENDS ProofGate, SumProofs

-----------------------------------------------------------------------------
(* Sums over sequences.                                                    *)

LEMMA TotalOfInt == ASSUME NEW s \in Seq(Int) PROVE TotalOf(s) \in Int
  <1> DEFINE f == [i \in Nat |-> IF i \in DOMAIN s THEN s[i] ELSE 0]
  <1>1. f \in [Nat -> Int] /\ Len(s) \in Nat
    OBVIOUS
  <1>2. TotalOf(s) = Total(f, Len(s))
    BY DEF TotalOf
  <1> HIDE DEF f
  <1> QED
    BY <1>1, <1>2, TotalLaws

LEMMA TotalOfFour ==
  ASSUME NEW a \in Int, NEW b \in Int, NEW c \in Int, NEW d \in Int
  PROVE  TotalOf(<<a, b, c, d>>) = a + b + c + d
  <1> DEFINE s == <<a, b, c, d>>
             f == [i \in Nat |-> IF i \in DOMAIN s THEN s[i] ELSE 0]
  <1>1. /\ Len(s) = 4 /\ DOMAIN s = 1 .. 4 /\ s \in Seq(Int)
        /\ s[1] = a /\ s[2] = b /\ s[3] = c /\ s[4] = d
    OBVIOUS
  <1> HIDE DEF s
  <1>2. f \in [Nat -> Int] /\ f[1] = a /\ f[2] = b /\ f[3] = c /\ f[4] = d
    BY <1>1
  <1>3. TotalOf(s) = Total(f, 4)
    BY <1>1 DEF TotalOf
  <1> HIDE DEF f
  <1>4. /\ Total(f, 0) = 0
        /\ Total(f, 0 + 1) = Total(f, 0) + f[0 + 1]
        /\ Total(f, 1 + 1) = Total(f, 1) + f[1 + 1]
        /\ Total(f, 2 + 1) = Total(f, 2) + f[2 + 1]
        /\ Total(f, 3 + 1) = Total(f, 3) + f[3 + 1]
    BY <1>2, TotalLaws
  <1>5. Total(f, 4) = a + b + c + d
    BY <1>2, <1>4
  <1> QED
    BY <1>3, <1>5 DEF s

-----------------------------------------------------------------------------
(* Arithmetic modulo the order of the groups.                              *)

LEMMA QTyped == Q \in Nat /\ Q > 1
  BY VerifierAssumption

\* A number is its remainder and a multiple of Q.
LEMMA Reduced ==
  ASSUME NEW v \in Int
  PROVE  /\ v % Q \in Scalar /\ v % Q \in Int
         /\ \E k \in Int : v % Q = v + k * Q
  <1>1. v % Q \in 0 .. Q - 1 /\ v \div Q \in Int /\ v = Q * (v \div Q) + (v % Q)
    BY QTyped
  <1> DEFINE k == v \div Q
  <1> HIDE DEF k
  <1>2. v % Q = v + (-k) * Q /\ -k \in Int
    <2>1. (-k) * Q = -(Q * k)
      BY <1>1, QTyped DEF k
    <2> QED
      BY <1>1, <2>1, QTyped DEF k
  <1> QED
    BY <1>1, <1>2 DEF Scalar

\* Only one multiple of Q lies strictly between -Q and Q.
LEMMA SmallMultiple ==
  ASSUME NEW k \in Int, -Q < k * Q, k * Q < Q
  PROVE  k = 0
  <1>1. k >= 1 => k * Q >= Q
    BY QTyped
  <1>2. k <= -1 => k * Q <= -Q
    BY QTyped
  <1>3. k * Q \in Int
    BY QTyped
  <1> QED
    BY <1>1, <1>2, <1>3, QTyped

\* The remainders of multiples of Q are those that vanish.
LEMMA Multiple ==
  ASSUME NEW v \in Int
  PROVE  v % Q = 0 <=> \E k \in Int : v = k * Q
  <1>1. ASSUME v % Q = 0 PROVE \E k \in Int : v = k * Q
    <2>1. PICK k \in Int : v % Q = v + k * Q
      BY Reduced
    <2>2. v = (-k) * Q /\ -k \in Int
      <3>1. (-k) * Q = -(k * Q) /\ k * Q \in Int
        BY QTyped
      <3> QED
        BY <1>1, <2>1, <3>1
    <2> QED
      BY <2>2
  <1>2. ASSUME NEW k \in Int, v = k * Q PROVE v % Q = 0
    <2>1. PICK j \in Int : v % Q = v + j * Q
      BY Reduced
    <2>2. v % Q = (k + j) * Q
      <3>1. (k + j) * Q = k * Q + j * Q
        BY QTyped
      <3> QED
        BY <1>2, <2>1, <3>1
    <2>3. v % Q \in 0 .. Q - 1
      BY Reduced DEF Scalar
    <2>4. k + j \in Int /\ -Q < (k + j) * Q /\ (k + j) * Q < Q
      BY <2>2, <2>3, QTyped
    <2>5. k + j = 0
      BY <2>4, SmallMultiple
    <2>6. 0 * Q = 0
      BY QTyped
    <2> QED
      BY <2>2, <2>5, <2>6
  <1> QED
    BY <1>1, <1>2

-----------------------------------------------------------------------------
(* The equation of Groth16.                                                *)

LEMMA KeyTyped ==
  ASSUME NEW key \in VKeys
  PROVE  /\ key.alpha \in Int /\ key.beta \in Int /\ key.gamma \in Int /\ key.delta \in Int
         /\ key.ic \in Seq(Int) /\ Len(key.ic) > 0
         /\ Invertible(key.gamma) /\ Invertible(key.delta) /\ key # NoKey
  <1>1. key \in Vkey /\ Len(key.ic) > 0 /\ Invertible(key.gamma) /\ Invertible(key.delta)
    BY VerifierAssumption
  <1>2. /\ key.alpha \in Scalar /\ key.beta \in Scalar
        /\ key.gamma \in Scalar /\ key.delta \in Scalar /\ key.ic \in Seq(Scalar)
    BY <1>1 DEF Vkey
  <1>3. \A e \in Scalar : e \in Int
    BY QTyped DEF Scalar
  <1>4. key.ic \in Seq(Int)
    BY <1>2, <1>3
  <1>5. key # NoKey
    <2>1. "ic" \in DOMAIN key
      BY <1>1 DEF Vkey
    <2> QED
      BY <2>1 DEF NoKey
  <1> QED
    BY <1>1, <1>2, <1>3, <1>4, <1>5

\* The reduction to a scalar, which leaves scalars as they are.
LEMMA FromBytesTyped ==
  /\ \A b \in Int : FrFromBytes(b) \in Scalar /\ FrFromBytes(b) \in Int
  /\ \A b \in Scalar : FrFromBytes(b) = b
  BY Reduced, QTyped DEF FrFromBytes, Scalar

\* The sum is one over scalars: what inputs reduce to have the same.
LEMMA VkXOfScalars ==
  ASSUME NEW key, NEW inputs \in Seq(Int)
  PROVE  /\ VkX(key, Scalars(inputs)) = VkX(key, inputs)
         /\ Scalars(inputs) \in Seq(Int) /\ Len(Scalars(inputs)) = Len(inputs)
  <1> DEFINE n == Len(inputs)
             reduced == Scalars(inputs)
  <1>1. n \in Nat /\ \A i \in 1 .. n : inputs[i] \in Int
    OBVIOUS
  <1>2. reduced = [i \in 1 .. n |-> FrFromBytes(inputs[i])]
    BY DEF Scalars
  <1>3. \A i \in 1 .. n : reduced[i] \in Int /\ FrFromBytes(reduced[i]) = FrFromBytes(inputs[i])
    BY <1>1, <1>2, FromBytesTyped
  <1>4. reduced \in Seq(Int) /\ Len(reduced) = n
    BY <1>1, <1>2, <1>3
  <1> HIDE DEF n, reduced
  <1>5. [i \in 1 .. n |-> FrFromBytes(reduced[i]) * key.ic[i + 1]]
          = [i \in 1 .. n |-> FrFromBytes(inputs[i]) * key.ic[i + 1]]
    BY <1>3
  <1>6. VkX(key, reduced) = VkX(key, inputs)
    BY <1>4, <1>5 DEF VkX, n
  <1> QED
    BY <1>4, <1>6 DEF reduced, n

LEMMA VkXTyped ==
  ASSUME NEW key \in VKeys, NEW inputs \in Seq(Int), Len(inputs) + 1 = Len(key.ic)
  PROVE  VkX(key, inputs) \in Scalar
  <1> DEFINE s == [i \in 1 .. Len(inputs) |-> FrFromBytes(inputs[i]) * key.ic[i + 1]]
  <1>1. key.ic \in Seq(Int) /\ Len(inputs) \in Nat
    BY KeyTyped
  <1>2. ASSUME NEW i \in 1 .. Len(inputs) PROVE FrFromBytes(inputs[i]) * key.ic[i + 1] \in Int
    <2>1. i + 1 \in 1 .. Len(key.ic) /\ i \in 1 .. Len(inputs)
      BY <1>1
    <2>2. inputs[i] \in Int /\ key.ic[i + 1] \in Int
      BY <1>1, <2>1, SMTT(60)
    <2>3. FrFromBytes(inputs[i]) \in Int
      BY <2>2, FromBytesTyped
    <2> QED
      BY <2>2, <2>3
  <1>3. s \in Seq(Int)
    BY <1>1, <1>2
  <1>4. key.ic[1] \in Int
    BY KeyTyped
  <1> HIDE DEF s
  <1>5. TotalOf(s) \in Int
    BY <1>3, TotalOfInt
  <1>6. (key.ic[1] + TotalOf(s)) % Q \in Scalar
    <2>1. key.ic[1] + TotalOf(s) \in Int
      BY <1>4, <1>5
    <2> QED
      BY <2>1, Reduced
  <1> QED
    BY <1>6 DEF VkX, s

\* The pairing check of four pairs.
LEMMA FourPairings ==
  ASSUME NEW g1 \in Int \X Int \X Int \X Int, NEW g2 \in Int \X Int \X Int \X Int
  PROVE  PairingCheck(g1, g2)
           <=> (g1[1] * g2[1] + g1[2] * g2[2] + g1[3] * g2[3] + g1[4] * g2[4]) % Q = 0
  <1> DEFINE s == [i \in 1 .. Len(g1) |-> g1[i] * g2[i]]
  <1>1. Len(g1) = 4
    OBVIOUS
  <1>2. s = <<g1[1] * g2[1], g1[2] * g2[2], g1[3] * g2[3], g1[4] * g2[4]>>
    BY <1>1
  <1>3. /\ g1[1] * g2[1] \in Int /\ g1[2] * g2[2] \in Int
        /\ g1[3] * g2[3] \in Int /\ g1[4] * g2[4] \in Int
    OBVIOUS
  <1> HIDE DEF s
  <1>4. TotalOf(s) = g1[1] * g2[1] + g1[2] * g2[2] + g1[3] * g2[3] + g1[4] * g2[4]
    <2> DEFINE a == g1[1] * g2[1]
               b == g1[2] * g2[2]
               c == g1[3] * g2[3]
               d == g1[4] * g2[4]
    <2>1. a \in Int /\ b \in Int /\ c \in Int /\ d \in Int /\ s = <<a, b, c, d>>
      BY <1>2, <1>3
    <2> HIDE DEF a, b, c, d
    <2>2. TotalOf(s) = a + b + c + d
      BY <2>1, TotalOfFour
    <2> QED
      BY <2>2 DEF a, b, c, d
  <1>5. PairingCheck(g1, g2) <=> TotalOf(s) % Q = 0
    BY DEF PairingCheck, s
  <1> QED
    BY <1>4, <1>5

\* delta and the number that a prover's key stands in for cancel.
LEMMA DeltaCancels ==
  ASSUME NEW key \in VKeys
  PROVE  /\ DeltaInverse[key] \in Int
         /\ \E k \in Int : DeltaInverse[key] * key.delta = 1 + k * Q
  <1> DEFINE d == DeltaInverse[key]
  <1>1. d = CHOOSE inverse \in Scalar : (inverse * key.delta) % Q = 1
    BY DEF DeltaInverse
  <1>2. d \in Scalar /\ (d * key.delta) % Q = 1
    BY <1>1, KeyTyped DEF Invertible
  <1> HIDE DEF d
  <1>3. d \in Int /\ key.delta \in Int /\ d * key.delta \in Int
    BY <1>2, KeyTyped, QTyped DEF Scalar
  <1>4. PICK k \in Int : (d * key.delta) % Q = d * key.delta + k * Q
    BY <1>3, Reduced
  <1>5. d * key.delta = 1 + (-k) * Q /\ -k \in Int
    <2>1. (-k) * Q = -(k * Q) /\ k * Q \in Int
      BY QTyped
    <2> QED
      BY <1>2, <1>3, <1>4, <2>1
  <1> QED
    BY <1>3, <1>5 DEF d

(***************************************************************************)
(* An honest proof satisfies the equation of its key with the inputs that  *)
(* have the same sum over the key's elements as the signals it is a proof  *)
(* of, and with no others.                                                 *)
(***************************************************************************)
LEMMA HonestEquation ==
  ASSUME NEW key \in VKeys, NEW signals, NEW inputs, NEW blind \in Int,
         VkX(key, signals) \in Scalar, VkX(key, inputs) \in Scalar
  PROVE  Equation(key, HonestPoints(key, signals, blind), inputs)
           <=> VkX(key, inputs) = VkX(key, signals)
  <1> DEFINE x == VkX(key, signals)
             y == VkX(key, inputs)
             ab == key.alpha * key.beta
             rest == (blind - key.alpha * key.beta - x * key.gamma) % Q
             d == DeltaInverse[key]
             c == (rest * d) % Q
             neg == Neg(blind)
  <1>1. /\ key.alpha \in Int /\ key.beta \in Int /\ key.gamma \in Int /\ key.delta \in Int
        /\ Invertible(key.gamma)
    BY KeyTyped
  <1>2. x \in 0 .. Q - 1 /\ y \in 0 .. Q - 1 /\ x \in Int /\ y \in Int /\ Q \in Int
    BY QTyped DEF Scalar
  <1>3. LET points == HonestPoints(key, signals, blind)
        IN  points.a = blind /\ points.b = 1 /\ points.c = c
    BY DEF HonestPoints
  <1> HIDE DEF x, y
  <1>4. ab \in Int /\ blind - ab - x * key.gamma \in Int
    BY <1>1, <1>2
  <1>5. /\ rest \in Int
        /\ \E k \in Int : rest = (blind - ab - x * key.gamma) + k * Q
    <2> DEFINE v == blind - ab - x * key.gamma
    <2>1. v \in Int /\ rest = v % Q
      BY <1>4
    <2> HIDE DEF v, rest
    <2>2. rest \in Int /\ \E k \in Int : rest = v + k * Q
      BY <2>1, Reduced
    <2> QED
      BY <2>2 DEF v
  <1>6. d \in Int /\ \E k \in Int : d * key.delta = 1 + k * Q
    BY DeltaCancels
  <1> HIDE DEF rest, d
  <1>7. c \in Int /\ \E k \in Int : c = rest * d + k * Q
    <2> DEFINE v == rest * d
    <2>1. v \in Int /\ c = v % Q
      BY <1>5, <1>6
    <2> HIDE DEF v, c
    <2>2. c \in Int /\ \E k \in Int : c = v + k * Q
      BY <2>1, Reduced
    <2> QED
      BY <2>2 DEF v
  <1>8. neg \in Int /\ \E k \in Int : neg = -blind + k * Q
    <2> DEFINE v == -blind
    <2>1. v \in Int /\ neg = v % Q
      BY DEF Neg
    <2> HIDE DEF v, neg
    <2>2. neg \in Int /\ \E k \in Int : neg = v + k * Q
      BY <2>1, Reduced
    <2> QED
      BY <2>2 DEF v
  <1> HIDE DEF c, neg
  <1> DEFINE sum == neg * 1 + key.alpha * key.beta + y * key.gamma + c * key.delta
  <1>9. Equation(key, HonestPoints(key, signals, blind), inputs) <=> sum % Q = 0
    <2>1. PairingCheck(<<neg, key.alpha, y, c>>, <<1, key.beta, key.gamma, key.delta>>)
            <=> sum % Q = 0
      <3> DEFINE g1 == <<neg, key.alpha, y, c>>
                 g2 == <<1, key.beta, key.gamma, key.delta>>
      <3>1. /\ g1 \in Int \X Int \X Int \X Int /\ g2 \in Int \X Int \X Int \X Int
            /\ g1[1] = neg /\ g1[2] = key.alpha /\ g1[3] = y /\ g1[4] = c
            /\ g2[1] = 1 /\ g2[2] = key.beta /\ g2[3] = key.gamma /\ g2[4] = key.delta
        BY <1>1, <1>2, <1>7, <1>8
      <3> HIDE DEF g1, g2
      <3>2. PairingCheck(g1, g2) <=> sum % Q = 0
        BY <3>1, FourPairings
      <3> QED
        BY <3>2 DEF g1, g2
    <2> QED
      BY <1>3, <2>1 DEF Equation, neg, y
  <1>10. PICK k \in Int : sum = (y - x) * key.gamma + k * Q
    <2> HIDE DEF ab
    <2>1. PICK k1 \in Int, k2 \in Int, k3 \in Int, k4 \in Int :
            /\ neg = -blind + k1 * Q /\ rest = (blind - ab - x * key.gamma) + k2 * Q
            /\ c = rest * d + k3 * Q /\ d * key.delta = 1 + k4 * Q
      BY <1>5, <1>6, <1>7, <1>8
    <2> DEFINE gamma == key.gamma
               delta == key.delta
    <2>2. /\ blind \in Int /\ ab \in Int /\ x \in Int /\ y \in Int /\ gamma \in Int /\ delta \in Int
          /\ d \in Int /\ rest \in Int /\ c \in Int /\ neg \in Int
          /\ neg = -blind + k1 * Q /\ rest = (blind - ab - x * gamma) + k2 * Q
          /\ c = rest * d + k3 * Q /\ d * delta = 1 + k4 * Q
      BY <1>1, <1>2, <1>4, <1>5, <1>6, <1>7, <1>8, <2>1
    <2> HIDE DEF gamma, delta, sum
    <2> USE <2>2
    <2>3. Q \in Int
      BY QTyped
    <2>4. c * delta = rest * (d * delta) + (k3 * delta) * Q
      BY <2>3
    <2>5. rest * (d * delta) = rest + (rest * k4) * Q
      <3>1. \A u \in Int : rest * (1 + u) = rest + rest * u
        OBVIOUS
      <3>2. rest * (k4 * Q) = (rest * k4) * Q /\ k4 * Q \in Int
        BY <2>3
      <3> QED
        BY <3>1, <3>2
    <2>6. (y - x) * gamma = y * gamma - x * gamma
      OBVIOUS
    <2> DEFINE j1 == k1 * Q
               j2 == k2 * Q
               j3 == (k3 * delta) * Q
               j4 == (rest * k4) * Q
               k == k1 + k2 + k3 * delta + rest * k4
    <2>7. /\ j1 \in Int /\ j2 \in Int /\ j3 \in Int /\ j4 \in Int /\ k \in Int
          /\ x * gamma \in Int /\ y * gamma \in Int /\ c * delta \in Int
      BY <2>3
    <2>8. k * Q = j1 + j2 + j3 + j4
      <3> DEFINE u == k3 * delta
                 v == rest * k4
      <3>1. u \in Int /\ v \in Int
        OBVIOUS
      <3> HIDE DEF u, v
      <3>2. (k1 + k2 + u + v) * Q = k1 * Q + k2 * Q + u * Q + v * Q
        BY <2>3, <3>1
      <3> QED
        BY <3>2 DEF u, v
    <2>9. c * delta = (blind - ab - x * gamma) + j2 + j3 + j4
      BY <2>4, <2>5, <2>7
    <2>10. neg = -blind + j1 /\ neg * 1 = neg
      OBVIOUS
    <2> HIDE DEF j1, j2, j3, j4, k
    <2>11. neg * 1 + ab + y * gamma + c * delta = (y - x) * gamma + k * Q
      BY <2>6, <2>7, <2>8, <2>9, <2>10
    <2> QED
      BY <2>7, <2>11 DEF ab, gamma, delta, sum
  <1>11. sum \in Int /\ (y - x) * key.gamma \in Int
    BY <1>1, <1>2, <1>7, <1>8
  <1> HIDE DEF sum
  <1>12. ASSUME y = x PROVE sum % Q = 0
    <2>1. (y - x) * key.gamma = 0
      BY <1>1, <1>2, <1>12
    <2>2. sum = k * Q
      BY <1>2, <1>10, <2>1
    <2> QED
      BY <1>11, <2>2, Multiple
  <1>13. ASSUME sum % Q = 0 PROVE y = x
    <2>1. PICK m \in Int : sum = m * Q
      BY <1>11, <1>13, Multiple
    <2>2. PICK g \in Scalar : (g * key.gamma) % Q = 1
      BY <1>1 DEF Invertible
    <2>3. g \in Int /\ g * key.gamma \in Int
      BY <1>1, <2>2, QTyped DEF Scalar
    <2>4. PICK j \in Int : 1 = g * key.gamma + j * Q
      BY <2>2, <2>3, Reduced
    <2> DEFINE z == y - x
    <2>5. z \in Int
      BY <1>2
    <2> HIDE DEF z
    <2>6. z * key.gamma = (m - k) * Q
      <3>1. (m - k) * Q = m * Q - k * Q /\ m * Q \in Int /\ k * Q \in Int
        BY <1>2
      <3> QED
        BY <1>10, <1>11, <2>1, <3>1 DEF z
    <2>7. z = (g * (m - k) + z * j) * Q
      <3>1. z * (g * key.gamma) = g * (z * key.gamma)
        BY <1>1, <2>3, <2>5
      <3>2. g * ((m - k) * Q) = (g * (m - k)) * Q
        BY <1>2, <2>3
      <3>3. z * 1 = z * (g * key.gamma) + (z * j) * Q
        <4> DEFINE u == g * key.gamma
        <4>1. u \in Int /\ 1 = u + j * Q
          BY <2>3, <2>4
        <4> HIDE DEF u
        <4>2. z * (u + j * Q) = z * u + (z * j) * Q
          BY <1>2, <2>5, <4>1
        <4> QED
          BY <4>1, <4>2 DEF u
      <3>4. (g * (m - k) + z * j) * Q = (g * (m - k)) * Q + (z * j) * Q
        <4>1. \A u, v \in Int : (u + v) * Q = u * Q + v * Q
          BY <1>2
        <4>2. g * (m - k) \in Int /\ z * j \in Int
          BY <2>3, <2>5
        <4> QED
          BY <4>1, <4>2
      <3>5. z * 1 = z
        BY <2>5
      <3> QED
        BY <2>6, <3>1, <3>2, <3>3, <3>4, <3>5
    <2> DEFINE n == g * (m - k) + z * j
    <2>8. n \in Int
      BY <2>3, <2>5
    <2> HIDE DEF n
    <2>9. z = n * Q
      BY <2>7 DEF n
    <2>10. -Q < z /\ z < Q
      BY <1>2 DEF z
    <2>11. n = 0
      BY <2>8, <2>9, <2>10, SmallMultiple
    <2>12. z = 0
      BY <1>2, <2>9, <2>11
    <2> QED
      BY <1>2, <2>12 DEF z
  <1> QED
    BY <1>9, <1>12, <1>13 DEF x, y

-----------------------------------------------------------------------------
(* The pool's encoding of a call.                                          *)

\* "Safe: callers guard v >= 0" (shielded_pool/src/lib.rs:472).
LEMMA EncodesGuarded ==
  ASSUME NEW v \in I128, v >= 0
  PROVE  I128ToFr(v) = v /\ v \in Scalar
  <1>1. /\ TwoTo128 \in Nat /\ TwoTo128 > 1 /\ TwoTo128 < Q /\ v \in Int
        /\ v <= (TwoTo128 \div 2) - 1
    BY GateAssumption DEF I128
  <1>2. TwoTo128 \div 2 <= TwoTo128
    BY <1>1
  <1>3. v \in 0 .. TwoTo128 - 1
    BY <1>1, <1>2
  <1>4. v % TwoTo128 = v
    BY <1>1, <1>3
  <1>5. v \in 0 .. Q - 1
    BY <1>1, <1>3, QTyped
  <1> QED
    BY <1>4, <1>5 DEF I128ToFr, Scalar

\* A sequence in scalars, written out.
LEMMA ScalarsOf ==
  /\ \A a, b : Scalars(<<a, b>>) = <<FrFromBytes(a), FrFromBytes(b)>>
  /\ \A a, b, c, d : Scalars(<<a, b, c, d>>)
                        = <<FrFromBytes(a), FrFromBytes(b), FrFromBytes(c), FrFromBytes(d)>>
  /\ \A a, b, c, d, e, f, g, h, i :
       Scalars(<<a, b, c, d, e, f, g, h, i>>)
         = <<FrFromBytes(a), FrFromBytes(b), FrFromBytes(c), FrFromBytes(d), FrFromBytes(e),
             FrFromBytes(f), FrFromBytes(g), FrFromBytes(h), FrFromBytes(i)>>
  BY DEF Scalars

\* The inputs of a call that is let through reduce to the signals of its claim.
LEMMA InputsAreSignals ==
  ASSUME NEW circuit \in Circuits, NEW now \in Chains, NEW c \in Calls[circuit],
         Admitted(circuit, now, c)
  PROVE  /\ PublicInputs(circuit, now, c) \in Seq(Int)
         /\ Scalars(PublicInputs(circuit, now, c))
              = PublicSignals(circuit, Claim(circuit, now, c))
         /\ Claim(circuit, now, c) \in StatementType(circuit)
  <1> DEFINE s == Claim(circuit, now, c)
  <1>1. c \in CallType(circuit) /\ now \in [root : Scalar, yes : Reserve, no : Reserve]
    BY GateAssumption
  <1>2. now.root \in Scalar /\ now.yes \in Reserve /\ now.no \in Reserve
    BY <1>1
  <1> DEFINE fr(b) == FrFromBytes(b)
  <1>0. /\ \A b \in Bytes32 : b \in Int /\ fr(b) \in Scalar
        /\ \A b \in Scalar : b \in Int /\ fr(b) = b
    BY FromBytesTyped, QTyped DEF Bytes32, Scalar
  <1> HIDE DEF fr
  <1>3. CASE circuit = SHIELD
    <2>0. circuit # UNSHIELD /\ circuit # PRIVSWAP
      BY <1>3 DEF SHIELD, UNSHIELD, PRIVSWAP
    <2>1. c \in [amount : I128, commitment : Bytes32] /\ c.amount > 0
      BY <1>1, <1>3, <2>0 DEF CallType, Admitted
    <2>2. c.amount \in I128 /\ c.commitment \in Bytes32
      BY <2>1
    <2>3. I128ToFr(c.amount) = c.amount /\ c.amount \in Scalar
      <3>1. c.amount >= 0
        BY <2>1, <2>2 DEF I128
      <3> QED
        BY <2>2, <3>1, EncodesGuarded
    <2>4. s = [amount |-> c.amount, commitment |-> fr(c.commitment)]
      BY <1>3, <2>0 DEF Claim, fr
    <2>5. PublicInputs(circuit, now, c) = <<I128ToFr(c.amount), c.commitment>>
      BY <1>3, <2>0 DEF PublicInputs, ShieldInputs
    <2>6. Scalars(PublicInputs(circuit, now, c)) = <<fr(c.amount), fr(c.commitment)>>
      BY <2>3, <2>5, ScalarsOf DEF fr
    <2>7. PublicSignals(circuit, s) = <<s.amount, s.commitment>>
      BY <1>3, <2>0 DEF PublicSignals
    <2>8. s \in StatementType(circuit)
      BY <1>0, <1>3, <2>0, <2>2, <2>3, <2>4 DEF StatementType
    <2> HIDE DEF s
    <2> QED
      BY <1>0, <2>2, <2>3, <2>4, <2>5, <2>6, <2>7, <2>8 DEF s
  <1>4. CASE circuit = UNSHIELD
    <2>0. circuit # SHIELD /\ circuit # PRIVSWAP
      BY <1>4 DEF SHIELD, UNSHIELD, PRIVSWAP
    <2>1. /\ c \in [root : Bytes32, nullifier : Bytes32, withdrawAmount : I128,
                    recipientField : Bytes32]
          /\ c.withdrawAmount > 0
      BY <1>1, <1>4, <2>0 DEF CallType, Admitted
    <2>2. /\ c.root \in Bytes32 /\ c.nullifier \in Bytes32
          /\ c.withdrawAmount \in I128 /\ c.recipientField \in Bytes32
      BY <2>1
    <2>3. I128ToFr(c.withdrawAmount) = c.withdrawAmount /\ c.withdrawAmount \in Scalar
      <3>1. c.withdrawAmount >= 0
        BY <2>1, <2>2 DEF I128
      <3> QED
        BY <2>2, <3>1, EncodesGuarded
    <2>4. s = [root |-> fr(c.root), nullifier |-> fr(c.nullifier),
               withdrawAmount |-> c.withdrawAmount, recipient |-> fr(c.recipientField)]
      BY <1>4, <2>0 DEF Claim, fr
    <2>5. PublicInputs(circuit, now, c)
            = <<c.root, c.nullifier, I128ToFr(c.withdrawAmount), c.recipientField>>
      BY <1>4, <2>0 DEF PublicInputs, UnshieldInputs
    <2>6. Scalars(PublicInputs(circuit, now, c))
            = <<fr(c.root), fr(c.nullifier), fr(c.withdrawAmount), fr(c.recipientField)>>
      BY <2>3, <2>5, ScalarsOf DEF fr
    <2>7. PublicSignals(circuit, s) = <<s.root, s.nullifier, s.withdrawAmount, s.recipient>>
      BY <1>4, <2>0 DEF PublicSignals
    <2>8. s \in StatementType(circuit)
      BY <1>0, <1>4, <2>0, <2>2, <2>3, <2>4 DEF StatementType
    <2> HIDE DEF s
    <2> QED
      BY <1>0, <2>2, <2>3, <2>4, <2>5, <2>6, <2>7, <2>8 DEF s
  <1>5. CASE circuit = PRIVSWAP
    <2>0. circuit # SHIELD /\ circuit # UNSHIELD
      BY <1>5 DEF SHIELD, UNSHIELD, PRIVSWAP
    <2>1. /\ c \in [nullifierIn : Bytes32, outCommitment : Bytes32, changeCommitment : Bytes32,
                    reserveInBefore : I128, reserveOutBefore : I128,
                    reserveInAfter : I128, reserveOutAfter : I128, assetOut : Nat]
          /\ c.assetOut \in {ASSET_YES, ASSET_NO}
          /\ c.reserveInAfter >= 0 /\ c.reserveOutAfter >= 0
          /\ <<c.reserveInBefore, c.reserveOutBefore>> = ReservesFor(now, c.assetOut)
      BY <1>1, <1>5, <2>0 DEF CallType, Admitted
    <2>2. /\ c.nullifierIn \in Bytes32 /\ c.outCommitment \in Bytes32
          /\ c.changeCommitment \in Bytes32
          /\ c.reserveInBefore \in I128 /\ c.reserveOutBefore \in I128
          /\ c.reserveInAfter \in I128 /\ c.reserveOutAfter \in I128
      BY <2>1
    <2>3. c.reserveInBefore >= 0 /\ c.reserveOutBefore >= 0
      BY <1>2, <2>1 DEF ReservesFor, Reserve
    <2>4. /\ I128ToFr(c.reserveInBefore) = c.reserveInBefore /\ c.reserveInBefore \in Scalar
          /\ I128ToFr(c.reserveOutBefore) = c.reserveOutBefore /\ c.reserveOutBefore \in Scalar
          /\ I128ToFr(c.reserveInAfter) = c.reserveInAfter /\ c.reserveInAfter \in Scalar
          /\ I128ToFr(c.reserveOutAfter) = c.reserveOutAfter /\ c.reserveOutAfter \in Scalar
      BY <2>1, <2>2, <2>3, EncodesGuarded
    <2> DEFINE asset == IF c.assetOut = ASSET_YES THEN YES ELSE NO
    <2>5. c.assetOut + 1 = asset /\ asset \in Scalar
      <3>1. 2 <= Q - 1
        BY GateAssumption, QTyped
      <3> QED
        BY <2>1, <3>1, QTyped DEF ASSET_YES, ASSET_NO, YES, NO, Scalar
    <2>6. s = [root |-> now.root, nullifierIn |-> fr(c.nullifierIn),
               outCommitment |-> fr(c.outCommitment),
               changeCommitment |-> fr(c.changeCommitment),
               reserveInBefore |-> c.reserveInBefore,
               reserveOutBefore |-> c.reserveOutBefore,
               reserveInAfter |-> c.reserveInAfter,
               reserveOutAfter |-> c.reserveOutAfter,
               assetOut |-> asset]
      BY <1>5, <2>0 DEF Claim, fr
    <2>7. PublicInputs(circuit, now, c)
            = <<now.root, c.nullifierIn, c.outCommitment, c.changeCommitment,
                I128ToFr(c.reserveInBefore), I128ToFr(c.reserveOutBefore),
                I128ToFr(c.reserveInAfter), I128ToFr(c.reserveOutAfter), c.assetOut + 1>>
      BY <1>5, <2>0 DEF PublicInputs, SwapInputs
    <2>8. Scalars(PublicInputs(circuit, now, c))
             = <<fr(now.root), fr(c.nullifierIn), fr(c.outCommitment), fr(c.changeCommitment),
                 fr(c.reserveInBefore), fr(c.reserveOutBefore),
                 fr(c.reserveInAfter), fr(c.reserveOutAfter), fr(asset)>>
      BY <2>4, <2>5, <2>7, ScalarsOf DEF fr
    <2>9. PublicSignals(circuit, s)
            = <<s.root, s.nullifierIn, s.outCommitment, s.changeCommitment,
                s.reserveInBefore, s.reserveOutBefore,
                s.reserveInAfter, s.reserveOutAfter, s.assetOut>>
      BY <1>5, <2>0 DEF PublicSignals
    <2> HIDE DEF s, asset
    <2>10. s \in StatementType(circuit)
      BY <1>0, <1>2, <1>5, <2>0, <2>2, <2>4, <2>5, <2>6 DEF StatementType
    <2>11. PublicInputs(circuit, now, c) \in Seq(Int)
      BY <1>0, <1>2, <2>2, <2>4, <2>5, <2>7
    <2>12. Scalars(PublicInputs(circuit, now, c)) = PublicSignals(circuit, s)
      BY <1>0, <1>2, <2>4, <2>5, <2>6, <2>8, <2>9
    <2> QED
      BY <2>10, <2>11, <2>12 DEF s
  <1> QED
    BY <1>3, <1>4, <1>5, GateAssumption

\* The signals of a circuit determine the statement; how many they are.
LEMMA SignalsDetermine ==
  ASSUME NEW circuit \in Circuits, NEW s \in StatementType(circuit),
         NEW t \in StatementType(circuit), PublicSignals(circuit, s) = PublicSignals(circuit, t)
  PROVE  s = t
  <1>1. CASE circuit = SHIELD
    <2>0. circuit # UNSHIELD /\ circuit # PRIVSWAP
      BY <1>1 DEF SHIELD, UNSHIELD, PRIVSWAP
    <2>1. s \in [amount : Scalar, commitment : Scalar]
          /\ t \in [amount : Scalar, commitment : Scalar]
      BY <1>1, <2>0 DEF StatementType
    <2>2. <<s.amount, s.commitment>> = <<t.amount, t.commitment>>
      BY <1>1, <2>0 DEF PublicSignals
    <2> QED
      BY <2>1, <2>2
  <1>2. CASE circuit = UNSHIELD
    <2>0. circuit # SHIELD /\ circuit # PRIVSWAP
      BY <1>2 DEF SHIELD, UNSHIELD, PRIVSWAP
    <2> DEFINE type == [root : Scalar, nullifier : Scalar, withdrawAmount : Scalar,
                        recipient : Scalar]
    <2>1. s \in type /\ t \in type
      BY <1>2, <2>0 DEF StatementType
    <2>2. <<s.root, s.nullifier, s.withdrawAmount, s.recipient>>
            = <<t.root, t.nullifier, t.withdrawAmount, t.recipient>>
      BY <1>2, <2>0 DEF PublicSignals
    <2> QED
      BY <2>1, <2>2
  <1>3. CASE circuit = PRIVSWAP
    <2>0. circuit # SHIELD /\ circuit # UNSHIELD
      BY <1>3 DEF SHIELD, UNSHIELD, PRIVSWAP
    <2> DEFINE type == [root : Scalar, nullifierIn : Scalar,
                        outCommitment : Scalar, changeCommitment : Scalar,
                        reserveInBefore : Scalar, reserveOutBefore : Scalar,
                        reserveInAfter : Scalar, reserveOutAfter : Scalar, assetOut : Scalar]
    <2>1. s \in type /\ t \in type
      BY <1>3, <2>0 DEF StatementType
    <2>2. <<s.root, s.nullifierIn, s.outCommitment, s.changeCommitment,
            s.reserveInBefore, s.reserveOutBefore,
            s.reserveInAfter, s.reserveOutAfter, s.assetOut>>
            = <<t.root, t.nullifierIn, t.outCommitment, t.changeCommitment,
                t.reserveInBefore, t.reserveOutBefore,
                t.reserveInAfter, t.reserveOutAfter, t.assetOut>>
      BY <1>3, <2>0 DEF PublicSignals
    <2> QED
      BY <2>1, <2>2
  <1> QED
    BY <1>1, <1>2, <1>3, GateAssumption

\* The number of public signals of a circuit.
Arity(circuit) ==
    IF circuit = SHIELD THEN 2 ELSE IF circuit = UNSHIELD THEN 4 ELSE 9

LEMMA SignalsTyped ==
  ASSUME NEW circuit \in Circuits, NEW s \in StatementType(circuit)
  PROVE  PublicSignals(circuit, s) \in Seq(Int) /\ Len(PublicSignals(circuit, s)) = Arity(circuit)
  <1>0. \A e \in Scalar : e \in Int
    BY QTyped DEF Scalar
  <1>1. CASE circuit = SHIELD
    <2>0. circuit # UNSHIELD /\ circuit # PRIVSWAP
      BY <1>1 DEF SHIELD, UNSHIELD, PRIVSWAP
    <2>1. s \in [amount : Scalar, commitment : Scalar]
      BY <1>1, <2>0 DEF StatementType
    <2>2. PublicSignals(circuit, s) = <<s.amount, s.commitment>> /\ Arity(circuit) = 2
      BY <1>1, <2>0 DEF PublicSignals, Arity
    <2>3. s.amount \in Int /\ s.commitment \in Int
      BY <1>0, <2>1
    <2> QED
      BY <2>2, <2>3
  <1>2. CASE circuit = UNSHIELD
    <2>0. circuit # SHIELD /\ circuit # PRIVSWAP
      BY <1>2 DEF SHIELD, UNSHIELD, PRIVSWAP
    <2>1. s \in [root : Scalar, nullifier : Scalar, withdrawAmount : Scalar, recipient : Scalar]
      BY <1>2, <2>0 DEF StatementType
    <2>2. /\ PublicSignals(circuit, s) = <<s.root, s.nullifier, s.withdrawAmount, s.recipient>>
          /\ Arity(circuit) = 4
      BY <1>2, <2>0 DEF PublicSignals, Arity
    <2>3. s.root \in Int /\ s.nullifier \in Int /\ s.withdrawAmount \in Int /\ s.recipient \in Int
      BY <1>0, <2>1
    <2> QED
      BY <2>2, <2>3
  <1>3. CASE circuit = PRIVSWAP
    <2>0. circuit # SHIELD /\ circuit # UNSHIELD
      BY <1>3 DEF SHIELD, UNSHIELD, PRIVSWAP
    <2>1. s \in [root : Scalar, nullifierIn : Scalar,
                 outCommitment : Scalar, changeCommitment : Scalar,
                 reserveInBefore : Scalar, reserveOutBefore : Scalar,
                 reserveInAfter : Scalar, reserveOutAfter : Scalar, assetOut : Scalar]
      BY <1>3, <2>0 DEF StatementType
    <2>2. /\ PublicSignals(circuit, s)
               = <<s.root, s.nullifierIn, s.outCommitment, s.changeCommitment,
                   s.reserveInBefore, s.reserveOutBefore,
                   s.reserveInAfter, s.reserveOutAfter, s.assetOut>>
          /\ Arity(circuit) = 9
      BY <1>3, <2>0 DEF PublicSignals, Arity
    <2>3. /\ s.root \in Int /\ s.nullifierIn \in Int /\ s.outCommitment \in Int
          /\ s.changeCommitment \in Int
          /\ s.reserveInBefore \in Int /\ s.reserveOutBefore \in Int
          /\ s.reserveInAfter \in Int /\ s.reserveOutAfter \in Int /\ s.assetOut \in Int
      BY <1>0, <2>1
    <2> QED
      BY <2>2, <2>3
  <1> QED
    BY <1>1, <1>2, <1>3, GateAssumption

-----------------------------------------------------------------------------
(* What is accepted.                                                       *)

\* What is registered is a key, and a proof is an honest one of its circuit.
GateInv ==
    /\ DOMAIN vk = Circuits
    /\ \A circuit \in Circuits : vk[circuit] = NoKey \/ vk[circuit] \in VKeys
    /\ chain \in Chains
    /\ proof # NoProof =>
         /\ proof.circuit \in Circuits
         /\ proof.statement \in Statements[proof.circuit]
         /\ proof.key \in KeysFor[proof.circuit]
         /\ \E blind \in Blinds :
              proof.points = HonestPoints(proof.key,
                               PublicSignals(proof.circuit, proof.statement), blind)

LEMMA GateInvInit == Init => GateInv
  BY DEF Init, VerifierInit, GateInv, NoKey

LEMMA GateInvStep == GateInv /\ [Next]_gateVars => GateInv'
  <1> SUFFICES ASSUME GateInv, [Next]_gateVars PROVE GateInv'
    OBVIOUS
  <1>1. ASSUME NEW circuit \in Circuits, NEW key \in VKeys, RegisterKey(circuit, key)
        PROVE  GateInv'
    <2>1. vk' = [vk EXCEPT ![circuit] = key] /\ chain' = chain /\ proof' = proof
      BY <1>1 DEF RegisterKey, SetVk
    <2>2. DOMAIN vk' = Circuits
      BY <2>1 DEF GateInv
    <2>3. \A other \in Circuits : vk'[other] = NoKey \/ vk'[other] \in VKeys
      BY <1>1, <2>1 DEF GateInv
    <2> QED
      BY <2>1, <2>2, <2>3 DEF GateInv
  <1>2. ASSUME NEW next \in Chains, ChainMoves(next) PROVE GateInv'
    BY <1>2 DEF ChainMoves, GateInv
  <1>3. ASSUME NEW circuit \in Circuits, NEW statement \in Statements[circuit],
               NEW key \in KeysFor[circuit], NEW blind \in Blinds,
               Prove(circuit, statement, key, blind)
        PROVE  GateInv'
    <2>1. /\ vk' = vk /\ chain' = chain
          /\ proof'.circuit = circuit /\ proof'.statement = statement /\ proof'.key = key
          /\ proof'.points = HonestPoints(key, PublicSignals(circuit, statement), blind)
      BY <1>3 DEF Prove
    <2> QED
      BY <2>1 DEF GateInv
  <1>4. CASE UNCHANGED gateVars
    BY <1>4 DEF gateVars, GateInv
  <1> QED
    BY <1>1, <1>2, <1>3, <1>4 DEF Next

THEOREM GateInvariant == Spec => []GateInv
  BY GateInvInit, GateInvStep, PTL DEF Spec

\* The assumption for one key and one proof.
LEMMA SameKeySameInputs ==
  ASSUME NEW circuit \in Circuits, NEW key \in KeysFor[circuit],
         NEW statement \in Statements[circuit], NEW inputs \in InputsOf(circuit),
         VkX(key, inputs) = VkX(key, PublicSignals(circuit, statement))
  PROVE  Scalars(inputs) = PublicSignals(circuit, statement)
  BY SoundnessAssumption

LEMMA OtherKeyRefuses ==
  ASSUME NEW circuit \in Circuits, NEW key \in KeysFor[circuit],
         NEW statement \in Statements[circuit], NEW blind \in Blinds,
         NEW other \in Circuits, NEW current \in VKeys, NEW inputs \in InputsOf(other),
         Len(inputs) + 1 = Len(current.ic),
         Equation(current, HonestPoints(key, PublicSignals(circuit, statement), blind), inputs)
  PROVE  current = key
  BY SoundnessAssumption

\* The sum over the public inputs of a call, or of the signals proved.
LEMMA SumTyped ==
  ASSUME NEW circuit \in Circuits, NEW statement \in StatementType(circuit),
         NEW key \in KeysFor[circuit],
         Len(key.ic) = Len(PublicSignals(circuit, statement)) + 1
  PROVE  key \in VKeys /\ VkX(key, PublicSignals(circuit, statement)) \in Scalar
  <1>1. key \in VKeys
    BY GateAssumption
  <1> DEFINE signals == PublicSignals(circuit, statement)
  <1>2. signals \in Seq(Int)
    BY SignalsTyped
  <1> HIDE DEF signals
  <1>3. VkX(key, signals) \in Scalar
    BY <1>1, <1>2, VkXTyped DEF signals
  <1> QED
    BY <1>1, <1>3 DEF signals

(***************************************************************************)
(* Every admitted call with a proof of its claim under the current key is  *)
(* accepted, for every group order, key and call: encoding and order of    *)
(* the inputs are those of the circuit, and honest proofs satisfy the      *)
(* equation.                                                               *)
(***************************************************************************)
THEOREM ProvedClaimsAlwaysPass == Spec => []ProvedClaimsPass
  <1>1. GateInv => ProvedClaimsPass
    <2> SUFFICES ASSUME GateInv, proof # NoProof, NEW circuit \in Circuits,
                        NEW c \in Calls[circuit], ProvesClaim(circuit, c),
                        Admitted(circuit, chain, c)
                 PROVE  Verdict(circuit, c) = "accepted"
      BY DEF ProvedClaimsPass, Verdict
    <2> DEFINE key == vk[circuit]
               claim == Claim(circuit, chain, c)
               inputs == PublicInputs(circuit, chain, c)
               signals == PublicSignals(circuit, claim)
    <2>1. /\ key \in KeysFor[circuit] /\ claim \in Statements[circuit]
          /\ \E blind \in Blinds : proof.points = HonestPoints(key, signals, blind)
      BY DEF GateInv, ProvesClaim
    <2>2. /\ inputs \in Seq(Int) /\ Scalars(inputs) = signals
          /\ claim \in StatementType(circuit)
      BY InputsAreSignals DEF GateInv
    <2>3. Len(key.ic) = Len(signals) + 1
      BY <2>1, GateAssumption
    <2>4. key \in VKeys /\ VkX(key, signals) \in Scalar
      BY <2>1, <2>2, <2>3, SumTyped
    <2>5. PICK blind \in Blinds : proof.points = HonestPoints(key, signals, blind)
      BY <2>1
    <2>6. blind \in Int
      BY GateAssumption, QTyped DEF Scalar
    <2> HIDE DEF key, claim, inputs, signals
    <2>7. VkX(key, inputs) = VkX(key, signals) /\ Len(inputs) = Len(signals)
      BY <2>2, VkXOfScalars
    <2>8. Equation(key, HonestPoints(key, signals, blind), inputs)
      BY <2>4, <2>6, <2>7, HonestEquation
    <2>9. Verify(circuit, proof.points, inputs)
      BY <2>5, <2>8 DEF Verify, key
    <2>10. ~VerifyPanics(circuit, inputs)
      <3>1. key # NoKey
        BY <2>4, KeyTyped
      <3> QED
        BY <2>3, <2>7, <3>1 DEF VerifyPanics, key
    <2> QED
      BY <2>9, <2>10 DEF Verdict, inputs
  <1> QED
    BY <1>1, GateInvariant, PTL

(***************************************************************************)
(* Only a proof of what the call claims in scalars, of its circuit and     *)
(* under the key that is set now, is accepted: what the pool encodes       *)
(* determines the claim, and a proof satisfies the equation with no other  *)
(* scalars.                                                                *)
(***************************************************************************)
THEOREM OnlyProvedClaimsEverPass == Spec => []OnlyProvedClaimsPass
  <1>1. GateInv => OnlyProvedClaimsPass
    <2> SUFFICES ASSUME GateInv, proof # NoProof, NEW circuit \in Circuits,
                        NEW c \in Calls[circuit], Verdict(circuit, c) = "accepted"
                 PROVE  ProvesClaim(circuit, c)
      BY DEF OnlyProvedClaimsPass
    <2> DEFINE current == vk[circuit]
               claim == Claim(circuit, chain, c)
               inputs == PublicInputs(circuit, chain, c)
               proved == proof.circuit
               key == proof.key
               signals == PublicSignals(proved, proof.statement)
    <2>1. /\ Admitted(circuit, chain, c) /\ ~VerifyPanics(circuit, inputs)
          /\ Verify(circuit, proof.points, inputs)
      BY DEF Verdict
    <2>2. /\ proved \in Circuits /\ proof.statement \in Statements[proved]
          /\ key \in KeysFor[proved] /\ chain \in Chains
          /\ \E blind \in Blinds : proof.points = HonestPoints(key, signals, blind)
      BY DEF GateInv
    <2>3. current \in VKeys /\ Len(inputs) + 1 = Len(current.ic)
      BY <2>1 DEF VerifyPanics, GateInv
    <2>4. inputs \in InputsOf(circuit)
      BY <2>2 DEF InputsOf
    <2>5. /\ inputs \in Seq(Int) /\ Scalars(inputs) = PublicSignals(circuit, claim)
          /\ claim \in StatementType(circuit)
      BY <2>1, <2>2, InputsAreSignals
    <2>6. /\ Len(key.ic) = Len(signals) + 1
          /\ proof.statement \in StatementType(proved)
      BY <2>2, GateAssumption
    <2>7. PICK blind \in Blinds : proof.points = HonestPoints(key, signals, blind)
      BY <2>2
    <2>8. Equation(current, HonestPoints(key, signals, blind), inputs)
      BY <2>1, <2>7 DEF Verify
    <2>9. current = key
      BY <2>2, <2>3, <2>4, <2>8, OtherKeyRefuses
    <2>10. Len(inputs) = Len(Scalars(inputs)) /\ VkX(key, Scalars(inputs)) = VkX(key, inputs)
      BY <2>5, VkXOfScalars
    <2>11. circuit = proved
      <3>1. Len(inputs) = Arity(circuit) /\ Len(signals) = Arity(proved)
        BY <2>2, <2>5, <2>6, <2>10, SignalsTyped
      <3>2. Arity(circuit) = Arity(proved)
        <4>1. Arity(circuit) + 1 = Arity(proved) + 1
          BY <2>3, <2>6, <2>9, <3>1
        <4>2. Arity(circuit) \in Int /\ Arity(proved) \in Int
          BY DEF Arity
        <4> HIDE DEF proved
        <4> QED
          BY <4>1, <4>2
      <3> QED
        BY <2>2, <3>2, GateAssumption DEF Arity
    <2>12. /\ key \in VKeys /\ VkX(key, signals) \in Scalar
           /\ VkX(key, inputs) \in Scalar
      <3>1. Len(key.ic) = Len(inputs) + 1
        BY <2>3, <2>9
      <3>2. VkX(key, inputs) \in Scalar
        BY <2>3, <2>5, <2>9, <3>1, VkXTyped
      <3> QED
        BY <2>2, <2>6, <3>2, SumTyped
    <2>13. blind \in Int
      BY GateAssumption, QTyped DEF Scalar
    <2>14. VkX(key, inputs) = VkX(key, signals)
      <3> HIDE DEF key, signals, inputs, current
      <3> QED
        BY <2>8, <2>9, <2>12, <2>13, HonestEquation
    <2>15. Scalars(inputs) = signals
      BY <2>2, <2>4, <2>11, <2>14, SameKeySameInputs
    <2>16. proof.statement = claim
      BY <2>5, <2>6, <2>11, <2>15, SignalsDetermine
    <2> QED
      BY <2>9, <2>11, <2>16 DEF ProvesClaim
  <1> QED
    BY <1>1, GateInvariant, PTL

-----------------------------------------------------------------------------
(* The powers that the digits of a coordinate are worth.                   *)

\* The recursion of Power.
LEMMA PowerRecursion ==
  Power[0] = 1 /\ \A j \in 0 .. Width - 1 : Power[j + 1] = Byte * Power[j]
  <1> DEFINE Body(f, n) == [j \in 0 .. n |-> IF j = 0 THEN 1
                                  ELSE (Byte * f[j - 1])]
             S == {n \in Nat : \E f : f = Body(f, n)}
  <1>1. 0 \in S
    <2> DEFINE g == [j \in 0 .. 0 |-> 1]
    <2>1. g = Body(g, 0)
      OBVIOUS
    <2> QED
      BY <2>1
  <1>2. ASSUME NEW n \in S PROVE n + 1 \in S
    <2>1. PICK f : f = Body(f, n)
      OBVIOUS
    <2>2. n \in Nat /\ \A j \in 0 .. n + 1 : j # 0 => j - 1 \in 0 .. n
      OBVIOUS
    <2>3. \A j \in 0 .. n : f[j] = IF j = 0 THEN 1
                                 ELSE (Byte * f[j - 1])
      BY <2>1
    <2> HIDE DEF S, Body
    <2> DEFINE g == [j \in 0 .. n + 1 |->
                       IF j = n + 1 THEN (Byte * f[n]) ELSE f[j]]
    <2>4. /\ DOMAIN g = 0 .. n + 1 /\ g = [j \in 0 .. n + 1 |-> g[j]]
          /\ g[n + 1] = (Byte * f[n])
          /\ \A j \in 0 .. n : g[j] = f[j]
      <3>1. n + 1 \in 0 .. n + 1 /\ \A j \in 0 .. n : j \in 0 .. n + 1 /\ j # n + 1
        BY <2>2
      <3>2. g[n + 1] = (Byte * f[n])
        BY <3>1, Zenon
      <3>3. \A j \in 0 .. n : g[j] = f[j]
        BY <3>1, Zenon
      <3> QED
        BY <3>2, <3>3, Zenon
    <2> HIDE DEF g
    <2>5. ASSUME NEW j \in 0 .. n + 1
          PROVE  g[j] = IF j = 0 THEN 1
                        ELSE (Byte * g[j - 1])
      <3>1. CASE j = n + 1
        <4>1. j # 0 /\ j - 1 = n /\ n \in 0 .. n
          BY <2>2, <3>1
        <4>2. g[n] = f[n]
          BY <2>4, <4>1
        <4> QED
          BY <2>4, <3>1, <4>1, <4>2
      <3>2. CASE j \in 0 .. n
        <4>1. j = 0 \/ j - 1 \in 0 .. n
          BY <2>2, <3>2
        <4>2. j # 0 => g[j - 1] = f[j - 1]
          BY <2>4, <4>1
        <4> QED
          BY <2>4, <2>3, <3>2, <4>2
      <3> QED
        BY <2>2, <3>1, <3>2
    <2>6. g = Body(g, n + 1)
      BY <2>4, <2>5 DEF Body
    <2> QED
      BY <2>2, <2>6 DEF S
  <1> HIDE DEF S
  <1>3. S = Nat
    <2>1. S \in SUBSET Nat
      BY DEF S
    <2> QED
      BY <1>1, <1>2, <2>1, Induction
  <1>4. Width \in Nat
    BY VerifierAssumption
  <1>5. \E f : f = [j \in 0 .. Width |-> IF j = 0 THEN 1
                                  ELSE (Byte * f[j - 1])]
    BY <1>3, <1>4 DEF S
  <1> DEFINE it == Power
  <1>6. it = [j \in 0 .. Width |-> IF j = 0 THEN 1
                                  ELSE (Byte * it[j - 1])]
    BY <1>5 DEF Power
  <1>7. 0 \in 0 .. Width /\ \A j \in 0 .. Width - 1 :
               j + 1 \in 0 .. Width /\ j + 1 # 0 /\ (j + 1) - 1 = j
    BY <1>4
  <1> HIDE DEF it
  <1>8. it[0] = 1 /\ \A j \in 0 .. Width - 1 : it[j + 1] = (Byte * it[j])
    BY <1>6, <1>7
  <1> QED
    BY <1>8 DEF it

\* Powers are positive.
LEMMA PowerTyped == \A j \in 0 .. Width : Power[j] \in Nat /\ Power[j] > 0
  <1> DEFINE S == {j \in Nat : j <= Width => Power[j] \in Nat /\ Power[j] > 0}
  <1>0. Width \in Nat /\ Byte \in Nat /\ Byte > 1
    BY VerifierAssumption
  <1>1. 0 \in S
    BY PowerRecursion
  <1>2. ASSUME NEW j \in S PROVE j + 1 \in S
    <2>1. CASE j + 1 <= Width
      <3>1. j \in 0 .. Width - 1 /\ Power[j] \in Nat /\ Power[j] > 0
        BY <1>0, <2>1
      <3>2. Power[j + 1] = Byte * Power[j]
        BY <3>1, PowerRecursion
      <3>3. \A n \in Nat : n > 0 => Byte * n \in Nat /\ Byte * n > 0
        BY <1>0
      <3> QED
        BY <3>1, <3>2, <3>3
    <2>2. CASE ~(j + 1 <= Width)
      BY <2>2
    <2> QED
      BY <2>1, <2>2
  <1> HIDE DEF S
  <1>3. S = Nat
    <2>1. S \in SUBSET Nat
      BY DEF S
    <2> QED
      BY <1>1, <1>2, <2>1, Induction
  <1> QED
    BY <1>0, <1>3 DEF S

-----------------------------------------------------------------------------
(* Division and the digits of a difference.                                *)

\* A multiple of n and what is below n are the quotient and the remainder.
LEMMA QuotientIsUnique ==
  ASSUME NEW n \in Nat, n > 0, NEW u \in Int, NEW low \in 0 .. n - 1,
         NEW v, v = n * u + low
  PROVE  v \div n = u /\ v % n = low
  <1>1. v \in Int
    OBVIOUS
  <1> DEFINE u1 == v \div n
             low1 == v % n
  <1>2. u1 \in Int /\ low1 \in 0 .. n - 1 /\ v = n * u1 + low1
    BY <1>1
  <1> HIDE DEF u1, low1
  <1> DEFINE e == u - u1
  <1>3. n * e = low1 - low /\ e \in Int
    <2>1. n * (u - u1) = n * u - n * u1 /\ n * u \in Int /\ n * u1 \in Int
      BY <1>2
    <2> QED
      BY <1>2, <2>1
  <1> HIDE DEF e
  <1>4. e >= 1 => n * e >= n
    BY <1>3
  <1>5. e <= -1 => n * e <= -n
    BY <1>3
  <1>6. e = 0
    BY <1>2, <1>3, <1>4, <1>5
  <1>7. n * e = 0
    BY <1>6
  <1>8. u1 = u /\ low1 = low
    BY <1>2, <1>3, <1>6, <1>7 DEF e
  <1> QED
    BY <1>8 DEF u1, low1

\* The quotient and the remainder of a number.
LEMMA QuotientTyped ==
  ASSUME NEW v \in Int, NEW n \in Nat, n > 0
  PROVE  v \div n \in Int /\ v % n \in 0 .. n - 1 /\ v = n * (v \div n) + (v % n)
  OBVIOUS

\* The borrow out of the part of two numbers that is below m.
Borrows(v, w, m) == IF v % m < w % m THEN 1 ELSE 0

(***************************************************************************)
(* The quotient of a difference: that of the parts above m, less a borrow. *)
(***************************************************************************)
LEMMA QuotientOfDifference ==
  ASSUME NEW v \in Int, NEW w \in Int, NEW m \in Nat, m > 0
  PROVE  (v - w) \div m = (v \div m) - (w \div m) - Borrows(v, w, m)
  <1> DEFINE vh == v \div m
             vl == v % m
             wh == w \div m
             wl == w % m
             b  == Borrows(v, w, m)
  <1>1. /\ vh \in Int /\ vl \in 0 .. m - 1 /\ v = m * vh + vl
        /\ wh \in Int /\ wl \in 0 .. m - 1 /\ w = m * wh + wl
    BY QuotientTyped
  <1>2. b = IF vl < wl THEN 1 ELSE 0
    BY DEF Borrows
  <1> HIDE DEF vh, vl, wh, wl, b
  <1>3. b \in 0 .. 1 /\ vl - wl + m * b \in 0 .. m - 1 /\ m * b \in Int
    BY <1>1, <1>2
  <1> DEFINE e == vh - wh - b
             low == vl - wl + m * b
  <1>4. v - w = m * e + low
    <2>1. m * (vh - wh - b) = m * vh - m * wh - m * b
      BY <1>1, <1>3
    <2>2. m * vh \in Int /\ m * wh \in Int
      BY <1>1
    <2> QED
      BY <1>1, <1>3, <2>1, <2>2
  <1>5. e \in Int /\ low \in 0 .. m - 1
    BY <1>1, <1>3
  <1> HIDE DEF e, low
  <1>6. (v - w) \div m = e
    BY <1>4, <1>5, QuotientIsUnique
  <1> QED
    BY <1>6 DEF e, vh, wh, b

\* One digit more: what is below the next power.
LEMMA NextDigit ==
  ASSUME NEW v \in Nat, NEW m \in Nat, m > 0
  PROVE  /\ Byte * m \in Nat /\ Byte * m > 0
         /\ (v \div m) % Byte \in 0 .. Byte - 1
         /\ v % (Byte * m) = m * ((v \div m) % Byte) + (v % m)
  <1>0. Byte \in Nat /\ Byte > 1
    BY VerifierAssumption
  <1> DEFINE u == v \div m
             low == v % m
             d == u % Byte
             h == u \div Byte
  <1>1. u \in Int /\ low \in 0 .. m - 1 /\ v = m * u + low
    BY QuotientTyped
  <1> HIDE DEF u, low
  <1>2. h \in Int /\ d \in 0 .. Byte - 1 /\ u = Byte * h + d
    BY <1>0, <1>1, QuotientTyped
  <1> HIDE DEF h, d
  <1>3. Byte * m \in Nat /\ Byte * m > 0
    BY <1>0
  <1>4. m * d + low \in 0 .. Byte * m - 1
    <2>1. d \in Nat /\ d <= Byte - 1
      BY <1>0, <1>2
    <2>2. m * d <= m * (Byte - 1)
      <3>1. m * (Byte - 1 - d) >= 0
        <4> DEFINE e == Byte - 1 - d
        <4>1. e \in Nat
          BY <1>0, <2>1
        <4> HIDE DEF e
        <4>2. m * e >= 0
          BY <4>1
        <4> QED
          BY <4>2 DEF e
      <3>2. m * (Byte - 1 - d) = m * (Byte - 1) - m * d
        BY <1>0, <2>1
      <3>3. m * (Byte - 1) \in Int /\ m * d \in Int
        BY <1>0, <2>1
      <3> QED
        BY <3>1, <3>2, <3>3
    <2>3. m * (Byte - 1) = Byte * m - m
      BY <1>0
    <2>4. m * d \in Nat
      BY <2>1
    <2> QED
      BY <1>1, <1>3, <2>2, <2>3, <2>4
  <1>5. v = (Byte * m) * h + (m * d + low)
    <2>1. m * (Byte * h + d) = (Byte * m) * h + m * d
      BY <1>0, <1>2
    <2>2. (Byte * m) * h \in Int /\ m * d \in Int
      BY <1>2, <1>3
    <2> QED
      BY <1>1, <1>2, <2>1, <2>2
  <1>6. v % (Byte * m) = m * d + low
    BY <1>2, <1>3, <1>4, <1>5, QuotientIsUnique
  <1> QED
    BY <1>2, <1>3, <1>6 DEF d, u, low

(***************************************************************************)
(* Subtracting digit by digit: the digit of the difference, and the borrow *)
(* out of it, from the digits and the borrow into it.                      *)
(***************************************************************************)
LEMMA DigitOfDifference ==
  ASSUME NEW v \in Nat, NEW w \in Nat, NEW m \in Nat, m > 0
  PROVE  LET d == ((v \div m) % Byte) - ((w \div m) % Byte) - Borrows(v, w, m)
         IN  /\ d \in Int
             /\ ((v - w) \div m) % Byte = d % Byte
             /\ Borrows(v, w, Byte * m) = IF d < 0 THEN 1 ELSE 0
  <1>0. Byte \in Nat /\ Byte > 1
    BY VerifierAssumption
  <1> DEFINE vh == v \div m
             wh == w \div m
             vl == v % m
             wl == w % m
             vd == vh % Byte
             wd == wh % Byte
             vk1 == vh \div Byte
             wk1 == wh \div Byte
             b  == Borrows(v, w, m)
             d  == vd - wd - b
  <1>1. /\ vh \in Int /\ vl \in 0 .. m - 1
        /\ wh \in Int /\ wl \in 0 .. m - 1
    BY QuotientTyped
  <1>2. b = IF vl < wl THEN 1 ELSE 0
    BY DEF Borrows
  <1>3. (v - w) \div m = vh - wh - b
    BY QuotientOfDifference
  <1>4. /\ v % (Byte * m) = m * vd + vl
        /\ w % (Byte * m) = m * wd + wl
    BY NextDigit
  <1>5. Borrows(v, w, Byte * m) = IF m * vd + vl < m * wd + wl THEN 1 ELSE 0
    BY <1>4 DEF Borrows
  <1> HIDE DEF vh, wh, vl, wl, b
  <1>6. /\ vd \in 0 .. Byte - 1 /\ vk1 \in Int /\ vh = Byte * vk1 + vd
        /\ wd \in 0 .. Byte - 1 /\ wk1 \in Int /\ wh = Byte * wk1 + wd
    BY <1>0, <1>1, QuotientTyped
  <1> HIDE DEF vd, wd, vk1, wk1
  <1>7. b \in 0 .. 1 /\ d \in Int
    BY <1>0, <1>2, <1>6
  <1>8. (vh - wh - b) % Byte = d % Byte
    <2>1. Byte * (vk1 - wk1) = Byte * vk1 - Byte * wk1 /\ Byte * vk1 \in Int /\ Byte * wk1 \in Int
      BY <1>0, <1>6
    <2>2. vh - wh - b = d + Byte * (vk1 - wk1)
      BY <1>0, <1>6, <1>7, <2>1
    <2> DEFINE k == vk1 - wk1
               sum == vh - wh - b
               u == d \div Byte
               low == d % Byte
    <2>3. k \in Int /\ sum = d + Byte * k
      BY <1>6, <2>2
    <2> HIDE DEF d, k, sum
    <2>4. u \in Int /\ low \in 0 .. Byte - 1 /\ d = Byte * u + low
      BY <1>0, <1>7, QuotientTyped
    <2> HIDE DEF u, low
    <2>5. sum = Byte * (u + k) + low /\ u + k \in Int
      <3>1. Byte * (u + k) = Byte * u + Byte * k /\ Byte * u \in Int /\ Byte * k \in Int
        BY <1>0, <2>3, <2>4
      <3> QED
        BY <2>3, <2>4, <3>1
    <2>6. sum % Byte = low
      BY <1>0, <2>4, <2>5, QuotientIsUnique
    <2> QED
      BY <2>6 DEF sum, low
  <1>9. (m * vd + vl < m * wd + wl) <=> d < 0
    <2> DEFINE e == wd - vd
    <2>1. m * e = m * wd - m * vd /\ m * wd \in Int /\ m * vd \in Int /\ e \in Int
      BY <1>0, <1>6
    <2>2. (m * vd + vl < m * wd + wl) <=> vl - wl < m * e
      BY <1>1, <2>1
    <2>3. d = -e - b
      BY <1>0, <1>6, <1>7
    <2> HIDE DEF d, e
    <2>4. e >= 1 => m * e >= m
      BY <2>1
    <2>5. e <= -1 => m * e <= -m
      BY <2>1
    <2>6. e = 0 => m * e = 0
      BY <2>1
    <2>7. m * e \in Int
      BY <2>1
    <2> QED
      BY <1>1, <1>2, <1>7, <2>1, <2>2, <2>3, <2>4, <2>5, <2>6, <2>7
  <1>10. Borrows(v, w, Byte * m) = IF d < 0 THEN 1 ELSE 0
    BY <1>5, <1>9
  <1> QED
    BY <1>3, <1>7, <1>8, <1>10 DEF vh, wh, vd, wd, b

-----------------------------------------------------------------------------
(* The bytes of a coordinate and its complement.                           *)

\* The borrow out of the bytes after the i-th and that byte.
BorrowAt(y) == [i \in 1 .. Width + 1 |-> Borrows(Q, y, Power[Width - i + 1])]

\* Byte i of a number, and what the next power is.
LEMMA WeightOfByte ==
  ASSUME NEW i \in 1 .. Width
  PROVE  /\ Power[Width - i] \in Nat /\ Power[Width - i] > 0
         /\ Power[Width - i + 1] = Byte * Power[Width - i]
         /\ i \in Nat /\ i + 1 \in 1 .. Width + 1 /\ Width - (i + 1) + 1 = Width - i
  <1>1. Width \in Nat
    BY VerifierAssumption
  <1> DEFINE j == Width - i
  <1>2. j \in 0 .. Width - 1 /\ j \in 0 .. Width /\ i \in Nat
        /\ i + 1 \in 1 .. Width + 1 /\ Width - (i + 1) + 1 = Width - i
    BY <1>1
  <1> HIDE DEF j
  <1>3. Power[j] \in Nat /\ Power[j] > 0 /\ Power[j + 1] = Byte * Power[j]
    BY <1>2, PowerTyped, PowerRecursion
  <1> QED
    BY <1>2, <1>3 DEF j

\* The recursion of Complement for its borrows.
BorrowStep(g, y, i) ==
    g[i] = IF i <= Width /\ BytesOf(Q)[i] - BytesOf(y)[i] - g[i + 1] < 0 THEN 1 ELSE 0

\* The borrows of a byte, as the recursion has them.
LEMMA BorrowAtByte ==
  ASSUME NEW y \in Nat, NEW i \in 1 .. Width
  PROVE  LET d == BytesOf(Q)[i] - BytesOf(y)[i] - BorrowAt(y)[i + 1]
         IN  /\ d \in Int
             /\ BorrowAt(y)[i] = IF d < 0 THEN 1 ELSE 0
             /\ ((Q - y) \div Power[Width - i]) % Byte = d % Byte
  <1>0. Q \in Nat
    BY QTyped
  <1> DEFINE m == Power[Width - i]
             e == ((Q \div m) % Byte) - ((y \div m) % Byte) - Borrows(Q, y, m)
  <1>1. /\ m \in Nat /\ m > 0 /\ Power[Width - i + 1] = Byte * m
        /\ i + 1 \in 1 .. Width + 1 /\ Width - (i + 1) + 1 = Width - i
        /\ i \in 1 .. Width + 1
    <2>1. Width \in Nat
      BY VerifierAssumption
    <2>2. i \in 1 .. Width + 1
      BY <2>1
    <2> QED
      BY <2>2, WeightOfByte
  <1>2. BorrowAt(y)[i + 1] = Borrows(Q, y, m) /\ BorrowAt(y)[i] = Borrows(Q, y, Byte * m)
    BY <1>1 DEF BorrowAt
  <1>3. BytesOf(Q)[i] = (Q \div m) % Byte /\ BytesOf(y)[i] = (y \div m) % Byte
    BY DEF BytesOf
  <1> HIDE DEF m
  <1>4. /\ e \in Int
        /\ ((Q - y) \div m) % Byte = e % Byte
        /\ Borrows(Q, y, Byte * m) = IF e < 0 THEN 1 ELSE 0
    BY <1>0, <1>1, DigitOfDifference
  <1>5. BytesOf(Q)[i] - BytesOf(y)[i] - BorrowAt(y)[i + 1] = e
    BY <1>2, <1>3
  <1> HIDE DEF e
  <1> QED
    BY <1>2, <1>4, <1>5 DEF m

\* There is nothing to borrow after the last byte.
LEMMA BorrowAtEnd ==
  ASSUME NEW y \in Nat
  PROVE  BorrowAt(y)[Width + 1] = 0
  <1>1. Width \in Nat /\ Width + 1 \in 1 .. Width + 1 /\ Width - (Width + 1) + 1 = 0
    BY VerifierAssumption
  <1>2. Power[0] = 1
    BY PowerRecursion
  <1>3. BorrowAt(y)[Width + 1] = Borrows(Q, y, Power[Width - (Width + 1) + 1])
    BY <1>1 DEF BorrowAt
  <1>4. BorrowAt(y)[Width + 1] = Borrows(Q, y, 1)
    BY <1>1, <1>2, <1>3
  <1>5. Q % 1 = 0 /\ y % 1 = 0
    BY QTyped
  <1> QED
    BY <1>4, <1>5 DEF Borrows

\* BorrowAt solves the recursion.
LEMMA BorrowAtSolves ==
  ASSUME NEW y \in Nat, NEW i \in 1 .. Width + 1
  PROVE  BorrowStep(BorrowAt(y), y, i)
  <1>1. CASE i \in 1 .. Width
    <2>1. i <= Width
      BY <1>1, VerifierAssumption
    <2> QED
      BY <1>1, <2>1, BorrowAtByte DEF BorrowStep
  <1>2. CASE i = Width + 1
    <2>1. ~(i <= Width)
      BY <1>2, VerifierAssumption
    <2> QED
      BY <1>2, <2>1, BorrowAtEnd DEF BorrowStep
  <1> QED
    BY <1>1, <1>2, VerifierAssumption

\* Every solution is BorrowAt.
LEMMA BorrowsAgree ==
  ASSUME NEW y \in Nat, NEW g, \A i \in 1 .. Width + 1 : BorrowStep(g, y, i)
  PROVE  \A i \in 1 .. Width + 1 : g[i] = BorrowAt(y)[i]
  <1> DEFINE S == {k \in Nat : k <= Width => g[Width + 1 - k] = BorrowAt(y)[Width + 1 - k]}
  <1>0. Width \in Nat
    BY VerifierAssumption
  <1>1. 0 \in S
    <2>1. Width + 1 \in 1 .. Width + 1 /\ Width + 1 - 0 = Width + 1 /\ ~(Width + 1 <= Width)
      BY <1>0
    <2>2. g[Width + 1] = 0
      BY <2>1 DEF BorrowStep
    <2> QED
      BY <2>1, <2>2, BorrowAtEnd
  <1>2. ASSUME NEW k \in S PROVE k + 1 \in S
    <2>1. CASE k + 1 <= Width
      <3> DEFINE i == Width + 1 - (k + 1)
      <3>1. /\ k \in Nat /\ k <= Width /\ i \in 1 .. Width + 1 /\ i + 1 = Width + 1 - k
        BY <1>0, <2>1
      <3>2. g[i + 1] = BorrowAt(y)[i + 1]
        BY <3>1
      <3> HIDE DEF i
      <3>3. BorrowStep(g, y, i) /\ BorrowStep(BorrowAt(y), y, i)
        BY <3>1, BorrowAtSolves
      <3>4. g[i] = BorrowAt(y)[i]
        BY <3>2, <3>3 DEF BorrowStep
      <3> QED
        BY <3>1, <3>4 DEF i
    <2>2. CASE ~(k + 1 <= Width)
      BY <2>2
    <2> QED
      BY <2>1, <2>2
  <1> HIDE DEF S
  <1>3. S = Nat
    <2>1. S \in SUBSET Nat
      BY DEF S
    <2> QED
      BY <1>1, <1>2, <2>1, Induction
  <1>4. ASSUME NEW i \in 1 .. Width + 1 PROVE g[i] = BorrowAt(y)[i]
    <2>1. Width + 1 - i \in S /\ Width + 1 - i <= Width /\ Width + 1 - (Width + 1 - i) = i
      BY <1>0, <1>3
    <2> QED
      BY <2>1 DEF S
  <1> QED
    BY <1>4

(***************************************************************************)
(* Byte by byte with a borrow, the complement is the difference.           *)
(***************************************************************************)
LEMMA ComplementIsDifference ==
  ASSUME NEW y \in Nat
  PROVE  Complement(BytesOf(y)) = BytesOf(Q - y)
  <1> DEFINE bytes == BytesOf(y)
             modulus == BytesOf(Q)
             Body(f) == [i \in 1 .. Width + 1 |->
                           IF i <= Width /\ modulus[i] - bytes[i] - f[i + 1] < 0 THEN 1 ELSE 0]
             borrow == CHOOSE f : f = Body(f)
  <1>1. Complement(bytes) = [i \in 1 .. Width |-> (modulus[i] - bytes[i] - borrow[i + 1]) % Byte]
    BY Zenon DEF Complement
  <1>2. BorrowAt(y) = Body(BorrowAt(y))
    <2> DEFINE g == BorrowAt(y)
    <2>1. g = [i \in 1 .. Width + 1 |-> g[i]]
      BY DEF BorrowAt
    <2>2. \A i \in 1 .. Width + 1 :
             g[i] = IF i <= Width /\ modulus[i] - bytes[i] - g[i + 1] < 0 THEN 1 ELSE 0
      BY BorrowAtSolves DEF BorrowStep
    <2> HIDE DEF g, modulus, bytes
    <2> QED
      BY <2>1, <2>2 DEF g
  <1>3. borrow = Body(borrow)
    BY <1>2, Zenon
  <1> HIDE DEF borrow
  <1>4. \A i \in 1 .. Width + 1 : BorrowStep(borrow, y, i)
    BY <1>3 DEF BorrowStep
  <1>5. \A i \in 1 .. Width + 1 : borrow[i] = BorrowAt(y)[i]
    BY <1>4, BorrowsAgree
  <1>6. ASSUME NEW i \in 1 .. Width
        PROVE  (modulus[i] - bytes[i] - borrow[i + 1]) % Byte
                 = ((Q - y) \div Power[Width - i]) % Byte
    <2>1. i + 1 \in 1 .. Width + 1
      BY WeightOfByte
    <2> DEFINE d == modulus[i] - bytes[i] - BorrowAt(y)[i + 1]
    <2>2. ((Q - y) \div Power[Width - i]) % Byte = d % Byte
      BY BorrowAtByte
    <2>3. modulus[i] - bytes[i] - borrow[i + 1] = d
      BY <1>5, <2>1
    <2> HIDE DEF d, modulus, bytes
    <2> QED
      BY <2>2, <2>3
  <1>7. BytesOf(Q - y) = [i \in 1 .. Width |-> ((Q - y) \div Power[Width - i]) % Byte]
    BY DEF BytesOf
  <1> HIDE DEF modulus
  <1>8. Complement(bytes) = BytesOf(Q - y)
    BY <1>1, <1>6, <1>7, Zenon
  <1> QED
    BY <1>8

\* The bytes of 0 are 0.
LEMMA ZeroBytes == \A i \in DOMAIN BytesOf(0) : BytesOf(0)[i] = 0
  <1> SUFFICES ASSUME NEW i \in 1 .. Width PROVE (0 \div Power[Width - i]) % Byte = 0
    BY DEF BytesOf
  <1> DEFINE m == Power[Width - i]
  <1>1. m \in Nat /\ m > 0 /\ Byte \in Nat /\ Byte > 1
    BY WeightOfByte, VerifierAssumption
  <1> HIDE DEF m
  <1>2. 0 \div m = 0
    <2>1. 0 = m * 0 + 0
      BY <1>1
    <2> QED
      BY <1>1, <2>1, QuotientIsUnique
  <1>3. 0 % Byte = 0
    BY <1>1
  <1> QED
    BY <1>2, <1>3 DEF m

\* A coordinate of which all bytes are 0 is 0.
LEMMA ZeroFromBytes ==
  ASSUME NEW y \in Scalar, \A i \in DOMAIN BytesOf(y) : BytesOf(y)[i] = 0
  PROVE  y = 0
  <1>0. Width \in Nat /\ y \in Nat /\ y < Q /\ Q <= Power[Width] /\ Q \in Nat
    BY VerifierAssumption, QTyped DEF Scalar
  <1> DEFINE S == {k \in Nat : k <= Width => y % Power[k] = 0}
  <1>1. 0 \in S
    <2>1. Power[0] = 1
      BY PowerRecursion
    <2>2. y % 1 = 0
      BY <1>0
    <2> QED
      BY <2>1, <2>2
  <1>2. ASSUME NEW k \in S PROVE k + 1 \in S
    <2>1. CASE k + 1 <= Width
      <3> DEFINE i == Width - k
                 m == Power[k]
      <3>1. /\ k \in Nat /\ k <= Width /\ i \in 1 .. Width /\ Width - i = k
            /\ k \in 0 .. Width - 1 /\ k \in 0 .. Width
        BY <1>0, <2>1
      <3>2. m \in Nat /\ m > 0 /\ Power[k + 1] = Byte * m
        BY <3>1, PowerTyped, PowerRecursion
      <3>3. y % m = 0
        BY <3>1
      <3>4. (y \div m) % Byte = 0
        <4>1. BytesOf(y)[i] = 0 /\ BytesOf(y)[i] = (y \div Power[Width - i]) % Byte
          BY <3>1 DEF BytesOf
        <4> QED
          BY <3>1, <4>1
      <3> HIDE DEF m, i
      <3>5. y % (Byte * m) = m * 0 + 0
        BY <1>0, <3>2, <3>3, <3>4, NextDigit
      <3>6. y % (Byte * m) = 0
        BY <3>2, <3>5
      <3> QED
        BY <3>1, <3>2, <3>6
    <2>2. CASE ~(k + 1 <= Width)
      BY <2>2
    <2> QED
      BY <2>1, <2>2
  <1> HIDE DEF S
  <1>3. S = Nat
    <2>1. S \in SUBSET Nat
      BY DEF S
    <2> QED
      BY <1>1, <1>2, <2>1, Induction
  <1> DEFINE top == Power[Width]
  <1>4. y % top = 0
    BY <1>0, <1>3 DEF S
  <1>5. top \in Nat /\ top > 0 /\ y < top
    BY <1>0, PowerTyped
  <1> HIDE DEF top
  <1>6. y % top = y
    <2>1. y = top * 0 + y /\ y \in 0 .. top - 1
      BY <1>0, <1>5
    <2> QED
      BY <1>5, <2>1, QuotientIsUnique
  <1> QED
    BY <1>4, <1>6

(***************************************************************************)
(* negate_g1_bytes is the canonical negation, of every coordinate.         *)
(***************************************************************************)
LEMMA NegationOfBytes ==
  ASSUME NEW y \in Scalar
  PROVE  NegateG1Bytes(BytesOf(y)) = BytesOf(Neg(y))
  <1>0. y \in Nat /\ y < Q /\ Q \in Nat /\ Q > 1
    BY QTyped DEF Scalar
  <1>1. CASE y = 0
    <2>1. Neg(y) = 0
      BY <1>0, <1>1 DEF Neg
    <2>2. NegateG1Bytes(BytesOf(y)) = BytesOf(y)
      BY <1>1, ZeroBytes DEF NegateG1Bytes
    <2> QED
      BY <1>1, <2>1, <2>2
  <1>2. CASE y # 0
    <2>1. Neg(y) = Q - y
      <3>1. -y = Q * (-1) + (Q - y) /\ Q - y \in 0 .. Q - 1 /\ -1 \in Int
        BY <1>0, <1>2
      <3> DEFINE low == Q - y
                 v == -y
      <3>2. v = Q * (-1) + low /\ low \in 0 .. Q - 1
        BY <3>1
      <3> HIDE DEF low, v
      <3>3. v % Q = low
        BY <1>0, <3>2, QuotientIsUnique
      <3> QED
        BY <3>3 DEF Neg, v, low
    <2>2. NegateG1Bytes(BytesOf(y)) = Complement(BytesOf(y))
      BY <1>2, ZeroFromBytes DEF NegateG1Bytes
    <2> QED
      BY <1>0, <2>1, <2>2, ComplementIsDifference
  <1> QED
    BY <1>1, <1>2

(***************************************************************************)
(* negate_g1_bytes "performs the identical canonical field negation"       *)
(* (groth16_verifier/src/lib.rs:135) to the Neg that verify uses, for      *)
(* every modulus, width of a byte and number of bytes that hold it, and    *)
(* the point at infinity too.                                              *)
(***************************************************************************)
THEOREM NegationsAlwaysAgree == Spec => []NegationsAgree
  <1>1. GateInv => NegationsAgree
    <2> SUFFICES ASSUME GateInv, proof # NoProof
                 PROVE  NegateG1Bytes(BytesOf(proof.points.a)) = BytesOf(Neg(proof.points.a))
      BY DEF NegationsAgree
    <2>1. PICK blind \in Blinds :
            proof.points = HonestPoints(proof.key,
                             PublicSignals(proof.circuit, proof.statement), blind)
      BY DEF GateInv
    <2>2. proof.points.a = blind
      BY <2>1 DEF HonestPoints
    <2>3. blind \in Scalar
      BY GateAssumption
    <2> QED
      BY <2>2, <2>3, NegationOfBytes
  <1> QED
    BY <1>1, GateInvariant, PTL
=============================================================================
