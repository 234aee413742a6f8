------------------------------ MODULE Poseidon ------------------------------
(***************************************************************************)
(* contracts/shielded_pool/src/poseidon/mod.rs: Poseidon(left, right) as   *)
(* the contract computes it, over the limbs of Fr.  The entrypoint hash2   *)
(* of poseidon_probe runs a verbatim copy of the same code.                *)
(***************************************************************************)
EXTENDS Fr

CONSTANTS
    N_ROUNDS_F, N_ROUNDS_P,     \* 8 and 57
    RoundConstants,             \* the numbers behind the table C
    Matrix,                     \* the numbers behind the table M
    Lefts, Rights               \* values that are hashed

T == 3
N_ROUNDS == N_ROUNDS_F + N_ROUNDS_P
HALF_F == N_ROUNDS_F \div 2

\* The inputs are any 32 bytes, also of values past the modulus.
ASSUME PoseidonAssumption ==
    /\ N_ROUNDS_F \in Nat /\ N_ROUNDS_P \in Nat
    /\ RoundConstants \in [1 .. N_ROUNDS * T -> 0 .. P - 1]
    /\ Matrix \in [1 .. T -> [1 .. T -> 0 .. P - 1]]
    /\ Lefts \subseteq 0 .. R - 1 /\ Rights \subseteq 0 .. R - 1

\* Both tables hold their numbers in Montgomery form, one per round and lane.
C == [k \in DOMAIN RoundConstants |-> LimbsOf((RoundConstants[k] * R) % P)]
M == [i \in 1 .. T |-> [j \in 1 .. T |-> LimbsOf((Matrix[i][j] * R) % P)]]

VARIABLES
    left, right,    \* the bytes hashed
    state,          \* the three lanes
    r,              \* the round that is next
    digest          \* the bytes returned, or <<>>

hashVars == <<left, right, state, r, digest>>

\* Mutant: the matrix is read by columns.
MixTransposed(s) ==
    LET Column(k) == Add(Add(Add(ZERO, Mul(M[1][k], s[1])), Mul(M[2][k], s[2])),
                         Mul(M[3][k], s[3]))
    IN  <<Column(1), Column(2), Column(3)>>

Mix(s) ==
    LET Row(k) == Add(Add(Add(ZERO, Mul(M[k][1], s[1])), Mul(M[k][2], s[2])),
                      Mul(M[k][3], s[3]))
    IN  <<Row(1), Row(2), Row(3)>>

AddConstants(s, round) ==
    <<Add(s[1], C[round * T + 1]), Add(s[2], C[round * T + 2]),
      Add(s[3], C[round * T + 3])>>

\* Mutant: one partial round too many.
SBoxLate(s, round) ==
    IF round < HALF_F \/ round > HALF_F + N_ROUNDS_P
      THEN <<Pow5(s[1]), Pow5(s[2]), Pow5(s[3])>>
      ELSE <<Pow5(s[1]), s[2], s[3]>>

\* Full rounds substitute every lane, partial ones the first.
SBox(s, round) ==
    IF round < HALF_F \/ round >= HALF_F + N_ROUNDS_P
      THEN <<Pow5(s[1]), Pow5(s[2]), Pow5(s[3])>>
      ELSE <<Pow5(s[1]), s[2], s[3]>>

HashInit ==
    /\ \E l \in Lefts : left = BytesOf(l)
    /\ \E rt \in Rights : right = BytesOf(rt)
    /\ state = <<ZERO, FromBytes(left), FromBytes(right)>>
    /\ r = 0
    /\ digest = <<>>

Round ==
    /\ r < N_ROUNDS
    /\ \E added \in {AddConstants(state, r)} :
          \E boxed \in {SBox(added, r)} : state' = Mix(boxed)
    /\ r' = r + 1
    /\ UNCHANGED <<left, right, digest>>

Return ==
    /\ r = N_ROUNDS
    /\ digest = <<>>
    /\ digest' = ToBytes(state[1])
    /\ UNCHANGED <<left, right, state, r>>

HashNext == Round \/ Return

HashSpec == HashInit /\ [][HashNext]_hashVars

-----------------------------------------------------------------------------

\* The number an element stands for, and the number of a byte sequence.
RInverse == CHOOSE z \in 1 .. P - 1 : (z * R) % P = 1
NumberOf(x) == (ValueOf(x) * RInverse) % P
Big(bytes) ==
    ValueOf(<<Word(bytes, 3 * W + 1), Word(bytes, 2 * W + 1), Word(bytes, W + 1),
              Word(bytes, 1)>>)

Reference == INSTANCE PoseidonReference WITH
    Left <- Lefts, Right <- Rights,
    state <- [k \in 1 .. T |-> NumberOf(state[k])],
    round <- r,
    digest <- IF digest = <<>> THEN -1 ELSE Big(digest)

(***************************************************************************)
(* "contract Merkle roots match client proofs" (poseidon/mod.rs:5): round  *)
(* by round, the limbs stand for the lanes of the hash that circuits and   *)
(* clients use, for every pair of inputs, reduced or not.                  *)
(***************************************************************************)
ImplementsReference == Reference!Spec

(***************************************************************************)
(* Every lane is below the modulus after every round.  The single          *)
(* corrections of add and mul are right for such operands only, and all    *)
(* later rounds start from them.                                           *)
(***************************************************************************)
LanesReduced == \A k \in 1 .. T : state[k] \in Limbs /\ ValueOf(state[k]) < P
=============================================================================
