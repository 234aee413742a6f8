-------------------------- MODULE MontgomeryProofs --------------------------
(***************************************************************************)
(* Proofs for Montgomery: for every modulus, digit size and operand, the   *)
(* accumulator keeps its bound and the result is canonical.                *)
(***************************************************************************)
EXTENDS Montgomery, TLAPS

\* Division with remainder, of naturals.
LEMMA DivisionIsExact ==
    ASSUME NEW x \in Nat, NEW d \in Nat, d > 0
    PROVE  /\ x \div d \in Nat
           /\ x % d \in 0 .. d - 1
           /\ x = d * (x \div d) + (x % d)
  OBVIOUS

\* A multiple divided by its factor.
LEMMA ExactQuotient ==
    ASSUME NEW d \in Nat, d > 0, NEW v \in Int
    PROVE  (d * v) \div d = v
  OBVIOUS

\* A bound is kept by division.
LEMMA QuotientBound ==
    ASSUME NEW d \in Nat, d > 0, NEW v \in Int, NEW w \in Int, d * v < d * w
    PROVE  v < w
  OBVIOUS

LEMMA NatProduct == ASSUME NEW x \in Nat, NEW y \in Nat PROVE x * y \in Nat
  OBVIOUS

LEMMA ProductMonotone ==
    ASSUME NEW x \in Nat, NEW y \in Nat, NEW z \in Nat, x <= y
    PROVE  x * z <= y * z
  OBVIOUS

(***************************************************************************)
(* One digit: with u the accumulator and the digit's product, and m the    *)
(* correction, u + m * P is a multiple of B, so the shift by a digit loses *)
(* nothing.                                                                *)
(***************************************************************************)
LEMMA CorrectionCancels ==
    ASSUME Parameters, NEW u \in Nat
    PROVE  /\ Correction(u) \in 0 .. B - 1
           /\ (u + Correction(u) * P) \div B \in Nat
           /\ B * ((u + Correction(u) * P) \div B) = u + Correction(u) * P
  <1> DEFINE m == Correction(u)
             k == (u * INV) \div B
  <1>1. B \in Nat /\ B > 0 /\ P \in Nat /\ INV \in Nat
    BY DEF Parameters
  <1>2. PICK e \in 1 .. INV * P + 1 : INV * P + 1 = B * e
    BY DEF Parameters
  <1>3. e \in Int
    BY <1>1, <1>2
  <1>4. u * INV \in Nat
    BY <1>1, NatProduct
  <1>5. m \in 0 .. B - 1 /\ k \in Nat /\ u * INV = B * k + m
    BY <1>1, <1>4, DivisionIsExact DEF Correction
  <1> HIDE DEF m, k
  <1>6. m * P = u * INV * P - B * k * P
    BY <1>1, <1>5
  <1>7. u + u * INV * P = u * (B * e)
    <2>1. u + u * INV * P = u * (INV * P + 1)
      BY <1>1
    <2> QED
      BY <2>1, <1>2
  <1>8. u + m * P = B * (u * e - k * P)
    <2>1. u + m * P = u * (B * e) - B * k * P
      <3> DEFINE w == u * INV * P
                 z == B * k * P
      <3>1. w \in Int /\ z \in Int /\ u * (B * e) \in Int /\ m * P = w - z
             /\ u + w = u * (B * e)
        BY <1>1, <1>3, <1>5, <1>6, <1>7
      <3> HIDE DEF w, z
      <3>2. u + m * P = u * (B * e) - z
        BY <3>1
      <3> QED
        BY <3>2 DEF z
    <2>2. u * (B * e) - B * k * P = B * (u * e - k * P)
      BY <1>1, <1>3, <1>5
    <2> QED
      BY <2>1, <2>2
  <1>9. u * e - k * P \in Int
    BY <1>1, <1>3, <1>5
  <1>10. (u + m * P) \div B = u * e - k * P
    BY <1>1, <1>8, <1>9, ExactQuotient
  <1>11. u + m * P \in Nat
    BY <1>1, <1>5, NatProduct
  <1>12. (u + m * P) \div B \in Nat
    BY <1>1, <1>11, DivisionIsExact
  <1> QED
    BY <1>5, <1>8, <1>10, <1>12 DEF m

\* The accumulator stays below a + P.
LEMMA AccumulatorBound ==
    ASSUME Parameters,
           NEW x \in Nat, NEW s \in Nat, NEW d \in 0 .. B - 1,
           NEW m \in 0 .. B - 1, NEW v \in Nat,
           s < x + P, B * v = s + x * d + m * P
    PROVE  v < x + P
  <1>1. B \in Nat /\ B > 0 /\ P \in Nat /\ d \in Nat /\ m \in Nat
    BY DEF Parameters
  <1>2. x * d <= x * (B - 1) /\ m * P <= (B - 1) * P
    <2>1. d <= B - 1 /\ m <= B - 1 /\ B - 1 \in Nat
      BY <1>1
    <2>2. d * x <= (B - 1) * x
      BY <2>1, <1>1, ProductMonotone
    <2>3. m * P <= (B - 1) * P
      BY <2>1, <1>1, ProductMonotone
    <2> QED
      BY <2>2, <2>3, <1>1
  <1>3. x * (B - 1) = x * B - x /\ (B - 1) * P = B * P - P
    BY <1>1
  <1>4. x * B \in Int /\ B * P \in Int /\ x * d \in Int /\ m * P \in Int
    BY <1>1
  <1>5. B * v < x * B + B * P
    BY <1>1, <1>2, <1>3, <1>4
  <1>6. x * B + B * P = B * (x + P)
    BY <1>1
  <1> QED
    BY <1>1, <1>5, <1>6, QuotientBound

-----------------------------------------------------------------------------

LEMMA ParametersTyped ==
    ASSUME Parameters
    PROVE  /\ B \in Nat /\ B > 1 /\ R \in Nat /\ P \in Nat /\ 0 < P /\ P < R
           /\ INV \in Nat
  BY DEF Parameters

LEMMA InitEstablishesLoop ==
    ASSUME Parameters, Init
    PROVE  LoopInvariant
  <1>1. b \in Nat /\ a \in Nat /\ P \in Nat /\ 0 < P
    BY ParametersTyped DEF Init
  <1>2. \E q \in 0 .. weight - 1 : weight * t = a * (b - rest * weight) + q * P
    <2>1. 0 \in 0 .. weight - 1
      BY DEF Init
    <2>2. weight * t = a * (b - rest * weight) + 0 * P
      BY <1>1 DEF Init
    <2> QED
      BY <2>1, <2>2
  <1>3. /\ a \in 0 .. R - 1 /\ b \in 0 .. P - 1
        /\ rest \in Nat /\ weight \in Nat /\ weight > 0 /\ t \in Nat
        /\ t < a + P
    BY <1>1 DEF Init
  <1>4. rest * weight <= b
    <2>1. b * 1 = b
      BY <1>1
    <2> QED
      BY <1>1, <2>1 DEF Init
  <1>5. done \in BOOLEAN
    BY DEF Init
  <1> QED
    BY <1>2, <1>3, <1>4, <1>5 DEF LoopInvariant

LEMMA UseDigitKeepsLoop ==
    ASSUME Parameters, LoopInvariant, UseDigit
    PROVE  LoopInvariant'
  <1> B \in Nat /\ B > 1 /\ R \in Nat /\ P \in Nat /\ 0 < P /\ INV \in Nat
    BY ParametersTyped
  <1> DEFINE d == rest % B
             u == t + a * d
             m == Correction(u)
  <1>1. /\ a \in Nat /\ b \in Nat /\ rest \in Nat /\ weight \in Nat
        /\ weight > 0 /\ t \in Nat
    BY DEF LoopInvariant
  <1>2. /\ rest' \in Nat
        /\ d \in 0 .. B - 1
        /\ rest = B * rest' + d
    <2>1. rest' = rest \div B
      BY DEF UseDigit
    <2> QED
      BY <1>1, <2>1, DivisionIsExact
  <1>3. u \in Nat
    BY <1>1, <1>2, NatProduct
  <1>4. t' = (u + m * P) \div B /\ a' = a /\ b' = b /\ weight' = weight * B
          /\ done' = done /\ ~done
    BY DEF UseDigit
  <1>5. m \in 0 .. B - 1 /\ t' \in Nat /\ B * t' = u + m * P
    BY <1>3, <1>4, CorrectionCancels
  <1>6. weight' \in Nat /\ weight' > 0
    BY <1>1, <1>4
  <1> HIDE DEF d, m
  <1>7. t' < a + P
    <2>1. t < a + P
      BY DEF LoopInvariant
    <2> QED
      BY <1>1, <1>2, <1>5, <2>1, AccumulatorBound
  <1>8. rest' * weight' = rest * weight - d * weight
    <2>1. rest' * weight' = (B * rest') * weight
      BY <1>1, <1>2, <1>4
    <2>2. (B * rest') * weight = (rest - d) * weight
      BY <1>1, <1>2
    <2> QED
      BY <1>1, <1>2, <2>1, <2>2
  <1>9. rest' * weight' <= b
    <2>1. d \in Nat
      BY <1>2
    <2>2. d * weight \in Nat /\ rest * weight \in Nat
      BY <1>1, <2>1, NatProduct
    <2> QED
      BY <1>1, <1>8, <2>2 DEF LoopInvariant
  <1>10. \E q \in 0 .. weight' - 1 :
             weight' * t' = a * (b - rest' * weight') + q * P
    <2>1. PICK q \in 0 .. weight - 1 :
              weight * t = a * (b - rest * weight) + q * P
      BY <1>4 DEF LoopInvariant
    <2>2. weight' * t' = weight * (B * t')
      BY <1>1, <1>4, <1>5
    <2>3. weight * (B * t') = weight * t + weight * (a * d) + weight * (m * P)
      <3> DEFINE g == a * d
                 h == m * P
      <3>1. g \in Int /\ h \in Int /\ B * t' = t + g + h
        <4>1. d \in Int /\ m \in Int
          BY <1>2, <1>5
        <4>2. g \in Int /\ h \in Int
          BY <1>1, <4>1
        <4>3. B * t' = (t + a * d) + m * P
          BY <1>5
        <4> HIDE DEF g, h
        <4>4. B * t' = (t + g) + h
          BY <4>3 DEF g, h
        <4> QED
          BY <1>1, <4>2, <4>4
      <3> HIDE DEF g, h
      <3>2. weight * (t + g + h) = weight * t + weight * g + weight * h
        BY <1>1, <3>1
      <3> QED
        BY <3>1, <3>2 DEF g, h
    <2>4. a * (b - rest' * weight')
            = a * (b - rest * weight) + weight * (a * d)
      <3> DEFINE z == rest * weight
      <3>1. z \in Int /\ rest' * weight' = z - d * weight
        BY <1>1, <1>8
      <3> HIDE DEF z
      <3>2. b - rest' * weight' = (b - z) + d * weight
        BY <3>1, <1>1, <1>2
      <3>3. a * ((b - z) + d * weight) = a * (b - z) + weight * (a * d)
        BY <3>1, <1>1, <1>2
      <3> QED
        BY <3>2, <3>3 DEF z
    <2>5. (q + weight * m) * P = q * P + weight * (m * P)
      BY <1>1, <1>5
    <2>6. weight' * t' = a * (b - rest' * weight') + (q + weight * m) * P
      <3> DEFINE g == weight * (a * d)
                 h == weight * (m * P)
                 k == a * (b - rest * weight)
      <3>1. g \in Int /\ h \in Int /\ k \in Int /\ q * P \in Int
        BY <1>1, <1>2, <1>5
      <3>2. /\ weight * t = k + q * P
            /\ weight' * t' = weight * t + g + h
            /\ a * (b - rest' * weight') = k + g
            /\ (q + weight * m) * P = q * P + h
        <4> HIDE DEF d, m
        <4> QED
          BY <2>1, <2>2, <2>3, <2>4, <2>5
      <3> HIDE DEF g, h, k
      <3> QED
        BY <3>1, <3>2
    <2>7. q + weight * m \in 0 .. weight' - 1
      <3>1. m <= B - 1 /\ m \in Nat /\ B - 1 \in Nat
        BY <1>5
      <3>2. m * weight <= (B - 1) * weight
        BY <3>1, <1>1, ProductMonotone
      <3>3. (B - 1) * weight = weight * B - weight /\ m * weight \in Nat
        BY <3>1, <1>1, NatProduct
      <3> DEFINE g == m * weight
      <3>4. g \in Nat /\ g <= weight * B - weight /\ weight * m = g
        BY <3>1, <3>2, <3>3, <1>1
      <3>5. weight' \in Nat /\ weight' = weight * B
        BY <1>4, <1>6
      <3> HIDE DEF g
      <3> QED
        BY <3>4, <3>5, <1>1
    <2> QED
      BY <2>6, <2>7
  <1> QED
    BY <1>1, <1>2, <1>4, <1>5, <1>6, <1>7, <1>9, <1>10 DEF LoopInvariant

(***************************************************************************)
(* After the last digit: the accumulator is the product up to fewer than R *)
(* multiples of P, so it is below 2 * P.                                   *)
(***************************************************************************)
LEMMA AfterLastDigit ==
    ASSUME Parameters, LoopInvariant, ~done, weight = R
    PROVE  /\ rest = 0
           /\ t < 2 * P
           /\ \E q \in 0 .. R - 1 : R * t = a * b + q * P
  <1> B \in Nat /\ B > 1 /\ R \in Nat /\ P \in Nat /\ 0 < P /\ P < R
    BY ParametersTyped
  <1>1. /\ a \in Nat /\ a <= R - 1 /\ b \in Nat /\ b <= P - 1 /\ rest \in Nat
        /\ t \in Nat /\ t < a + P
    BY DEF LoopInvariant
  <1>3. rest = 0
    <2>1. rest * R <= b
      BY DEF LoopInvariant
    <2>2. SUFFICES ASSUME rest >= 1 PROVE FALSE
      BY <1>1
    <2>3. 1 * R <= rest * R
      BY <2>2, <1>1, ProductMonotone
    <2> QED
      BY <2>1, <2>3, <1>1
  <1>4. PICK q \in 0 .. R - 1 : R * t = a * b + q * P
    <2>1. PICK q \in 0 .. R - 1 : R * t = a * (b - rest * R) + q * P
      BY DEF LoopInvariant
    <2>2. a * (b - rest * R) = a * b
      BY <1>1, <1>3
    <2> QED
      BY <2>1, <2>2
  <1>5. t < 2 * P
    <2>1. a * b <= R * P - P
      <3>1. a * b <= (R - 1) * b
        BY <1>1, ProductMonotone
      <3>2. b * (R - 1) <= P * (R - 1)
        BY <1>1, ProductMonotone
      <3> QED
        BY <3>1, <3>2, <1>1
    <2>2. q * P <= R * P - P
      <3>1. q * P <= (R - 1) * P
        BY ProductMonotone
      <3> QED
        BY <3>1
    <2>3. R * t < R * (2 * P)
      <3> DEFINE g == R * P
      <3>1. /\ g \in Int /\ a * b \in Int /\ q * P \in Int
            /\ a * b <= g - P /\ q * P <= g - P
            /\ R * (2 * P) = 2 * g
        BY <1>1, <2>1, <2>2
      <3> HIDE DEF g
      <3> QED
        BY <3>1, <1>4
    <2> QED
      BY <2>3, <1>1, QuotientBound
  <1> QED
    BY <1>3, <1>4, <1>5

LEMMA ReduceKeepsLoop ==
    ASSUME Parameters, LoopInvariant, Reduce
    PROVE  LoopInvariant' /\ ProductIsCanonical'
  <1> B \in Nat /\ B > 1 /\ R \in Nat /\ P \in Nat /\ 0 < P /\ P < R
    BY ParametersTyped
  <1>1. /\ a \in Nat /\ a <= R - 1 /\ b \in Nat /\ b <= P - 1 /\ rest \in Nat
        /\ t \in Nat /\ t < a + P
    BY DEF LoopInvariant
  <1>2. /\ weight = R /\ done' = TRUE /\ t' = IF t >= P THEN t - P ELSE t
        /\ a' = a /\ b' = b /\ rest' = rest /\ weight' = weight
    BY DEF Reduce
  <1>3. rest = 0 /\ t < 2 * P
    BY <1>2, AfterLastDigit DEF Reduce
  <1>4. PICK q \in 0 .. R - 1 : R * t = a * b + q * P
    BY <1>2, AfterLastDigit DEF Reduce
  <1>6. t' \in 0 .. P - 1
    BY <1>1, <1>2, <1>3
  <1>7. \E k \in -R .. R : t' * R = a * b + k * P
    <2>1. CASE t >= P
      <3>1. t' * R = a * b + (q - R) * P
        <4>1. t' * R = R * t - R * P
          BY <2>1, <1>1, <1>2
        <4>2. (q - R) * P = q * P - R * P
          OBVIOUS
        <4> DEFINE g == R * P
        <4>3. g \in Int /\ a * b \in Int /\ q * P \in Int
          BY <1>1
        <4> HIDE DEF g
        <4> QED
          BY <4>1, <4>2, <4>3, <1>4 DEF g
      <3>2. q - R \in -R .. R
        OBVIOUS
      <3> QED
        BY <3>1, <3>2
    <2>2. CASE ~(t >= P)
      <3>1. t' * R = a * b + q * P
        BY <2>2, <1>1, <1>2, <1>4
      <3>2. q \in -R .. R
        OBVIOUS
      <3> QED
        BY <3>1, <3>2
    <2> QED
      BY <2>1, <2>2
  <1>8. LoopInvariant'
    <2>1. t' < a + P /\ t' \in Nat
      BY <1>1, <1>6
    <2> QED
      BY <2>1, <1>2 DEF LoopInvariant
  <1>9. ProductIsCanonical'
    BY <1>2, <1>6, <1>7 DEF ProductIsCanonical
  <1> QED
    BY <1>8, <1>9

(***************************************************************************)
(* The invariant that makes the loop right (field.rs:108-143).             *)
(***************************************************************************)
THEOREM LoopIsInvariant ==
    ASSUME Parameters
    PROVE  Spec => [](LoopInvariant /\ ProductIsCanonical)
  <1>1. Init => LoopInvariant /\ ProductIsCanonical
    BY InitEstablishesLoop DEF Init, ProductIsCanonical
  <1>2. LoopInvariant /\ ProductIsCanonical /\ [Next]_vars
            => (LoopInvariant /\ ProductIsCanonical)'
    <2> SUFFICES ASSUME LoopInvariant, ProductIsCanonical, [Next]_vars
                 PROVE  LoopInvariant' /\ ProductIsCanonical'
      OBVIOUS
    <2>1. CASE UseDigit
      <3>1. ~done'
        BY <2>1 DEF UseDigit
      <3> QED
        BY <2>1, <3>1, UseDigitKeepsLoop DEF ProductIsCanonical
    <2>2. CASE Reduce
      BY <2>2, ReduceKeepsLoop
    <2>3. CASE UNCHANGED vars
      BY <2>3 DEF vars, LoopInvariant, ProductIsCanonical
    <2> QED
      BY <2>1, <2>2, <2>3 DEF Next
  <1> QED
    BY <1>1, <1>2, PTL DEF Spec

(***************************************************************************)
(* "t[4] may be 0 or 1" (field.rs:145), for every modulus and operand.     *)
(***************************************************************************)
THEOREM TopLimbStaysABit ==
    ASSUME Parameters
    PROVE  Spec => []TopLimbIsBit
  <1>1. LoopInvariant => TopLimbIsBit
    <2> SUFFICES ASSUME LoopInvariant PROVE TopLimbIsBit
      OBVIOUS
    <2>1. a \in 0 .. R - 1 /\ t \in Nat /\ t < a + P /\ R \in Nat /\ P < R
            /\ P \in Nat
      BY ParametersTyped DEF LoopInvariant
    <2> QED
      BY <2>1 DEF TopLimbIsBit
  <1> QED
    BY <1>1, LoopIsInvariant, PTL

(***************************************************************************)
(* mul returns the canonical Montgomery product with its one conditional   *)
(* subtraction, for every first operand below R and second below P         *)
(* (field.rs:102-155), as from_be_bytes needs it for unreduced inputs.     *)
(***************************************************************************)
THEOREM MulIsCanonical ==
    ASSUME Parameters
    PROVE  Spec => []ProductIsCanonical
  BY LoopIsInvariant, PTL
=============================================================================
