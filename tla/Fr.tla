--------------------------------- MODULE Fr ---------------------------------
(***************************************************************************)
(* contracts/shielded_pool/src/poseidon/field.rs: the scalar field in      *)
(* Montgomery form, limb by limb with carries, borrows and wrap-around.    *)
(* An element e is held as e * R mod P in four limbs, lowest limb first    *)
(* (the code's limb k is x[k + 1]).  The code has limbs of W = 8 bytes;    *)
(* the widths and the modulus are constants here.                          *)
(***************************************************************************)
EXTENDS Integers, Sequences

CONSTANTS
    Byte,   \* number of values of a byte, 256
    W,      \* bytes in a limb
    P,      \* the modulus
    INV     \* -1/P modulo the number of values of a limb

N == 4

\* The numbers of values of so many bytes, and of a limb and of four.
Power[n \in 0 .. N * W] == IF n = 0 THEN 1 ELSE Byte * Power[n - 1]
B == Power[W]
R == B * B * B * B

Limb == 0 .. B - 1
Limbs == Limb \X Limb \X Limb \X Limb
Accumulator == Limb \X Limb \X Limb \X Limb \X Limb

\* A sum of two reduced elements fits (field.rs:78).
ASSUME FrAssumption ==
    /\ Byte \in Nat /\ Byte > 1 /\ W \in Nat /\ W > 0
    /\ P \in Nat /\ P > 1 /\ 2 * P <= R
    /\ INV \in Limb
    /\ (INV * P + 1) % B = 0

\* The number a limb array stands for, and the array of a number.
ValueOf(x) == x[1] + B * (x[2] + B * (x[3] + B * x[4]))
Upper(v) == v \div B
LimbsOf(v) == <<v % B, Upper(v) % B, Upper(Upper(v)) % B, Upper(Upper(Upper(v))) % B>>

MODULUS == LimbsOf(P)
R2 == LimbsOf((R * R) % P)
ZERO == <<0, 0, 0, 0>>

\* A double word of u128, as its low and its high half.
Halves(v) == [lo |-> v % B, hi |-> v \div B]

Mac(x, y, z, carry) == Halves(x + y * z + carry)
Adc(x, y, carry) == Halves(x + y + carry)
Sbb(x, y, borrow) ==
    [lo |-> (x - y - borrow) % B, borrow |-> IF x < y + borrow THEN 1 ELSE 0]

\* The sum of two numbers; the carry out of the last limb is dropped.
AddLimbs(x, y) ==
    LET s0 == Adc(x[1], y[1], 0)
        s1 == Adc(x[2], y[2], s0.hi)
        s2 == Adc(x[3], y[3], s1.hi)
        s3 == Adc(x[4], y[4], s2.hi)
    IN  <<s0.lo, s1.lo, s2.lo, s3.lo>>

\* The difference of two numbers, modulo R, and whether it wrapped.
SubLimbs(x, y) ==
    LET d0 == Sbb(x[1], y[1], 0)
        d1 == Sbb(x[2], y[2], d0.borrow)
        d2 == Sbb(x[3], y[3], d1.borrow)
        d3 == Sbb(x[4], y[4], d2.borrow)
    IN  [limbs |-> <<d0.lo, d1.lo, d2.lo, d3.lo>>, wrapped |-> d3.borrow = 1]

ConditionalReduce(x) ==
    LET d == SubLimbs(x, MODULUS) IN IF d.wrapped THEN x ELSE d.limbs

\* Mutant: the sum is not brought below the modulus.
AddUnreduced(x, y) == AddLimbs(x, y)

Add(x, y) == ConditionalReduce(AddLimbs(x, y))

Sub(x, y) ==
    LET d == SubLimbs(x, y)
    IN  IF d.wrapped THEN AddLimbs(d.limbs, MODULUS) ELSE d.limbs

-----------------------------------------------------------------------------
(* Multiplication.  The accumulator t has one limb more than a number.     *)

\* t + x * digit in five limbs, and the bit that does not fit.
AddProduct(t, x, digit) ==
    LET p0 == Mac(t[1], x[1], digit, 0)
        p1 == Mac(t[2], x[2], digit, p0.hi)
        p2 == Mac(t[3], x[3], digit, p1.hi)
        p3 == Mac(t[4], x[4], digit, p2.hi)
        top == Adc(t[5], 0, p3.hi)
    IN  [t |-> <<p0.lo, p1.lo, p2.lo, p3.lo, top.lo>>, over |-> top.hi]

\* Add m times the modulus, which clears the lowest limb; shift by one.
CancelWith(t, over, m, modulus) ==
    LET q0 == Mac(t[1], m, modulus[1], 0)
        q1 == Mac(t[2], m, modulus[2], q0.hi)
        q2 == Mac(t[3], m, modulus[3], q1.hi)
        q3 == Mac(t[4], m, modulus[4], q2.hi)
        top == Adc(t[5], q3.hi, 0)
    IN  <<q1.lo, q2.lo, q3.lo, top.lo, (top.hi + over) % B>>

\* Mutant: the bit that left the accumulator in the first half is lost.
CancelLowLimbDroppingBit(t, over) == CancelWith(t, 0, (t[1] * INV) % B, MODULUS)

CancelLowLimb(t, over) == CancelWith(t, over, (t[1] * INV) % B, MODULUS)

MulStep(t, x, digit) ==
    LET sum == AddProduct(t, x, digit) IN CancelLowLimb(sum.t, sum.over)

\* Mutant: the last conditional subtraction is left out.
FinishUnreduced(t) == <<t[1], t[2], t[3], t[4]>>

Finish(t) ==
    LET low == <<t[1], t[2], t[3], t[4]>>
    IN  ConditionalReduce(IF t[5] # 0 THEN SubLimbs(low, MODULUS).limbs ELSE low)

\* One limb of y after the other.  (A function evaluates its argument first.)
Mul(x, y) ==
    LET Step[s \in Accumulator \X Limb] == MulStep(s[1], x, s[2])
    IN  Finish(Step[<<Step[<<Step[<<Step[<<<<0, 0, 0, 0, 0>>, y[1]>>], y[2]>>], y[3]>>],
                      y[4]>>])

Square(x) == Mul(x, x)
Pow5(x) == Mul(Square(Square(x)), x)

-----------------------------------------------------------------------------
(* Big-endian bytes, as a sequence of N * W.                               *)

\* The number that a word of W bytes holds.
Word(bytes, first) ==
    LET w[j \in 0 .. W] ==
          IF j = 0 THEN 0 ELSE w[j - 1] * Byte + bytes[first + (j - 1)]
    IN  w[W]

\* Mutant: the first word of the bytes becomes the lowest limb.
FromBytesReversed(bytes) ==
    Mul(<<Word(bytes, 1), Word(bytes, W + 1), Word(bytes, 2 * W + 1),
          Word(bytes, 3 * W + 1)>>, R2)

\* The first word of the bytes is the highest limb.
FromBytes(bytes) ==
    Mul(<<Word(bytes, 3 * W + 1), Word(bytes, 2 * W + 1), Word(bytes, W + 1),
          Word(bytes, 1)>>, R2)

\* The bytes of a number, highest first.
BytesOf(v) == [n \in 1 .. N * W |-> (v \div Power[N * W - n]) % Byte]

\* Multiplying by one takes the factor R out.
ToBytes(x) ==
    LET canonical == Mul(x, <<1, 0, 0, 0>>)
    IN  [n \in 1 .. N * W |->
            (canonical[N - ((n - 1) \div W)] \div Power[W - 1 - ((n - 1) % W)]) % Byte]
=============================================================================
