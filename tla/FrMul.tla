-------------------------------- MODULE FrMul -------------------------------
(***************************************************************************)
(* The loop of Fr::mul, one limb of the second operand at a time, over all *)
(* operands of which the second is reduced, as every caller has it: the    *)
(* arithmetic of Poseidon multiplies reduced elements, and from_be_bytes   *)
(* multiplies whatever the bytes hold by R2.                               *)
(***************************************************************************)
EXTENDS Fr

VARIABLES
    x, y,   \* self and other
    i,      \* the limb of other that is next
    t,      \* the accumulator
    out     \* the result, once i is past the last limb

mulVars == <<x, y, i, t, out>>

Canonical == {e \in Limbs : ValueOf(e) < P}

MulInit ==
    /\ x \in Limbs
    /\ y \in Canonical
    /\ i = 0
    /\ t = <<0, 0, 0, 0, 0>>
    /\ out = ZERO

Multiply ==
    /\ i < N
    /\ t' = MulStep(t, x, y[i + 1])
    /\ i' = i + 1
    /\ UNCHANGED <<x, y, out>>

ReturnProduct ==
    /\ i = N
    /\ out' = Finish(t)
    /\ i' = N + 1
    /\ UNCHANGED <<x, y, t>>

MulNext == Multiply \/ ReturnProduct

MulSpec == MulInit /\ [][MulNext]_mulVars

-----------------------------------------------------------------------------

\* What y has above its lowest 0 to 4 limbs, and the weight of that.
UpperLimbs ==
    <<ValueOf(y), y[2] + B * (y[3] + B * y[4]), y[3] + B * y[4], y[4], 0>>
Weights == <<1, B, B * B, B * B * B, R>>

\* The mapping to Montgomery: every limb array is the number it stands for.
Remaining == IF i <= N THEN UpperLimbs[i + 1] ELSE 0
Weight == IF i <= N THEN Weights[i + 1] ELSE R
Accumulated == IF i <= N THEN ValueOf(t) + R * t[5] ELSE ValueOf(out)

Loop == INSTANCE Montgomery WITH
    a <- ValueOf(x), b <- ValueOf(y), rest <- Remaining, weight <- Weight,
    t <- Accumulated, done <- i > N

(***************************************************************************)
(* The carry chains of the two halves of the loop, with their wrapping     *)
(* additions, compute the whole-number loop of Montgomery step by step:    *)
(* no carry is lost, and the low limb that is shifted out is zero.         *)
(***************************************************************************)
ImplementsMontgomery == Loop!Spec

\* Montgomery!LoopInvariant, which its proof rests on.
LoopInvariant == Loop!LoopInvariant

\* Montgomery!ProductIsCanonical, of the limbs that mul returns.
ProductIsCanonical == Loop!ProductIsCanonical

(***************************************************************************)
(* On reduced operands add and sub are addition and subtraction modulo P:  *)
(* one conditional correction suffices and the dropped carry is zero       *)
(* (field.rs:78).                                                          *)
(***************************************************************************)
AddSubExact ==
    i = 0 /\ x \in Canonical =>
        /\ ValueOf(Add(x, y)) = (ValueOf(x) + ValueOf(y)) % P
        /\ ValueOf(Sub(x, y)) = (ValueOf(x) - ValueOf(y)) % P

(***************************************************************************)
(* Bytes survive the way into Montgomery form and back, up to reduction:   *)
(* from_be_bytes accepts values of P and more (field.rs:182) and           *)
(* to_be_bytes returns the canonical ones in the same byte order.          *)
(***************************************************************************)
BytesRoundTrip ==
    i = 0 =>
        LET v == ValueOf(x) IN
        /\ FromBytes(BytesOf(v)) \in Canonical
        /\ ToBytes(FromBytes(BytesOf(v))) = BytesOf(v % P)
=============================================================================
