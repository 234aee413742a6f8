----------------------------- MODULE Montgomery -----------------------------
(***************************************************************************)
(* What Fr::mul of contracts/shielded_pool/src/poseidon/field.rs promises: *)
(* the product of two numbers divided by R modulo P, computed one digit of *)
(* the multiplier at a time.  Numbers are whole here; Fr and FrMul give    *)
(* the limbs, the carries and the wrap-around of the code.                 *)
(***************************************************************************)
EXTENDS Integers

CONSTANTS
    B,      \* number of values of a digit, 2^64
    R,      \* number of values of a number, 2^256
    P,      \* the modulus
    INV     \* -1/P modulo B

\* What the loop asks of them.  FrMul assumes it of the limbs' numbers.
Parameters ==
    /\ B \in Nat /\ B > 1
    /\ R \in Nat
    /\ P \in Nat /\ 0 < P /\ P < R
    /\ INV \in Nat
    /\ \E e \in 1 .. INV * P + 1 : INV * P + 1 = B * e

VARIABLES
    a, b,       \* the operands; b is below the modulus
    rest,       \* the digits of b that have not been used
    weight,     \* the weight of the next one
    t,          \* the accumulator
    done        \* the result is in t

vars == <<a, b, rest, weight, t, done>>

Init ==
    /\ a \in 0 .. R - 1
    /\ b \in 0 .. P - 1
    /\ rest = b
    /\ weight = 1
    /\ t = 0
    /\ done = FALSE

\* The multiple of P that makes the lowest digit of u vanish.
Correction(u) == (u * INV) % B

UseDigit ==
    LET u == t + a * (rest % B) IN
    /\ ~done
    /\ weight # R
    /\ t' = (u + Correction(u) * P) \div B
    /\ rest' = rest \div B
    /\ weight' = weight * B
    /\ UNCHANGED <<a, b, done>>

\* One subtraction is enough.
Reduce ==
    /\ ~done
    /\ weight = R
    /\ t' = IF t >= P THEN t - P ELSE t
    /\ done' = TRUE
    /\ UNCHANGED <<a, b, rest, weight>>

Next == UseDigit \/ Reduce

Spec == Init /\ [][Next]_vars

-----------------------------------------------------------------------------

(***************************************************************************)
(* The comment at field.rs:145, "t[4] may be 0 or 1": the accumulator      *)
(* never outgrows one bit more than a number, whatever the first operand.  *)
(***************************************************************************)
TopLimbIsBit == t < 2 * R

(***************************************************************************)
(* The result is the only canonical representative: below the modulus, and *)
(* R times it differs from the product by a multiple of the modulus.  The  *)
(* single subtraction at the end is enough even if a is not reduced, which *)
(* from_be_bytes relies on.                                                *)
(***************************************************************************)
ProductIsCanonical ==
    done => /\ t \in 0 .. P - 1
            /\ \E k \in -R .. R : t * R = a * b + k * P

(***************************************************************************)
(* The inductive invariant: with the digits used so far, weight * t is     *)
(* their product with a up to fewer than `weight` multiples of P.          *)
(***************************************************************************)
LoopInvariant ==
    /\ a \in 0 .. R - 1
    /\ b \in 0 .. P - 1
    /\ rest \in Nat /\ weight \in Nat /\ weight > 0 /\ t \in Nat
    /\ done \in BOOLEAN
    /\ rest * weight <= b
    /\ t < a + P
    /\ ~done => \E q \in 0 .. weight - 1 :
                    weight * t = a * (b - rest * weight) + q * P
=============================================================================
