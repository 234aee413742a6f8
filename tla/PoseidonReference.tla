-------------------------- MODULE PoseidonReference -------------------------
(***************************************************************************)
(* The hash that the circuits and the clients use (circomlib's Poseidon of *)
(* two inputs, external): rounds over the integers modulo P.  The          *)
(* contract's Poseidon implements it.                                      *)
(***************************************************************************)
EXTENDS Integers, Sequences

CONSTANTS
    P,                  \* the modulus
    N_ROUNDS_F,         \* full rounds, half of them before the partial ones
    N_ROUNDS_P,         \* partial rounds
    RoundConstants,     \* one number per round and lane, in order
    Matrix,             \* the rows of the mixing matrix
    Left, Right         \* the values hashed

VARIABLES
    state,      \* the three lanes
    round,      \* rounds done
    digest      \* the hash, or -1

T == 3

FifthPower(x) == (((((((x * x) % P) * x) % P) * x) % P) * x) % P

IsFull(r) == r < N_ROUNDS_F \div 2 \/ r >= N_ROUNDS_F \div 2 + N_ROUNDS_P

Substituted(s, r) ==
    [k \in 1 .. T |->
        LET x == (s[k] + RoundConstants[r * T + k]) % P
        IN  IF k = 1 \/ IsFull(r) THEN FifthPower(x) ELSE x]

Mixed(s) ==
    [k \in 1 .. T |->
        (Matrix[k][1] * s[1] + Matrix[k][2] * s[2] + Matrix[k][3] * s[3]) % P]

Init ==
    /\ \E left \in Left, right \in Right : state = <<0, left % P, right % P>>
    /\ round = 0
    /\ digest = -1

OneRound ==
    /\ round < N_ROUNDS_F + N_ROUNDS_P
    /\ state' = Mixed(Substituted(state, round))
    /\ round' = round + 1
    /\ UNCHANGED digest

Squeeze ==
    /\ round = N_ROUNDS_F + N_ROUNDS_P
    /\ digest = -1
    /\ digest' = state[1]
    /\ UNCHANGED <<state, round>>

Next == OneRound \/ Squeeze

Spec == Init /\ [][Next]_<<state, round, digest>>
=============================================================================
