-------------------------- MODULE Groth16Verifier ---------------------------
(***************************************************************************)
(* contracts/groth16_verifier/src/lib.rs: one verifying key per circuit    *)
(* and the Groth16 equation over it.  G1, G2 and the target group of the   *)
(* host are additive groups of order Q here, so that the pairing is        *)
(* multiplication; a point of G1 is the number its y coordinate encodes.   *)
(***************************************************************************)
EXTENDS Sums

CONSTANTS
    Q,          \* order of the groups and modulus of their scalars
    Byte,       \* number of values of a byte
    Width,      \* bytes of a coordinate
    Circuits,   \* circuit symbols
    VKeys       \* verifying keys

Scalar == 0 .. Q - 1

Vkey == [alpha : Scalar, beta : Scalar, gamma : Scalar, delta : Scalar, ic : Seq(Scalar)]

\* The numbers of values of so many bytes.
Power[n \in 0 .. Width] == IF n = 0 THEN 1 ELSE Byte * Power[n - 1]

\* A BytesN<32> is the number that it writes, which may be Q or more.
Bytes32 == 0 .. Power[Width] - 1

\* Fr::from_bytes of the SDK (external) reduces: some scalars have two encodings.
FrFromBytes(b) == b % Q

\* In a group of prime order all but the neutral element are invertible.
Invertible(e) == \E inverse \in Scalar : (inverse * e) % Q = 1

ASSUME VerifierAssumption ==
    /\ Q \in Nat /\ Byte \in Nat /\ Width \in Nat
    /\ Q > 1 /\ Byte > 1 /\ Q <= Power[Width]
    /\ VKeys \subseteq Vkey
    /\ \A key \in VKeys :
         Len(key.ic) > 0 /\ Invertible(key.gamma) /\ Invertible(key.delta)

VARIABLE vk     \* DataKey::Vk, by circuit

NoKey == <<>>

VerifierInit == vk = [circuit \in Circuits |-> NoKey]

\* The key is replaced at once; nothing is kept of the old one.
SetVk(circuit, key) == vk' = [vk EXCEPT ![circuit] = key]

\* "vk not set" and "public input count mismatch with vk.ic".
VerifyPanics(circuit, publicInputs) ==
    \/ vk[circuit] = NoKey
    \/ Len(publicInputs) + 1 # Len(vk[circuit].ic)

\* IC[0] and the scalar of each public input times its IC element.
VkX(key, publicInputs) ==
    (key.ic[1]
       + TotalOf([i \in 1 .. Len(publicInputs) |->
                    FrFromBytes(publicInputs[i]) * key.ic[i + 1]])) % Q

\* The negation of the SDK (external), canonical also for 0.
Neg(point) == (-point) % Q

\* The host's check (external): the product of the pairings is one.
PairingCheck(g1, g2) == TotalOf([i \in 1 .. Len(g1) |-> g1[i] * g2[i]]) % Q = 0

\* The Groth16 equation under a key.
Equation(key, points, publicInputs) ==
    PairingCheck(<<Neg(points.a), key.alpha, VkX(key, publicInputs), points.c>>,
                 <<points.b, key.beta, key.gamma, key.delta>>)

Verify(circuit, points, publicInputs) == Equation(vk[circuit], points, publicInputs)

-----------------------------------------------------------------------------

\* The y coordinate of a point, highest byte first.
BytesOf(y) == [i \in 1 .. Width |-> (y \div Power[Width - i]) % Byte]

\* The modulus less y, byte by byte from the lowest with a borrow.
Complement(y) ==
    LET modulus == BytesOf(Q)
        borrow[i \in 1 .. Width + 1] ==
            IF i <= Width /\ modulus[i] - y[i] - borrow[i + 1] < 0 THEN 1 ELSE 0
    IN  [i \in 1 .. Width |-> (modulus[i] - y[i] - borrow[i + 1]) % Byte]

\* Mutant: 0 is not an exception.
NegateG1BytesAlways(y) == Complement(y)

NegateG1Bytes(y) == IF \A i \in DOMAIN y : y[i] = 0 THEN y ELSE Complement(y)
=============================================================================
