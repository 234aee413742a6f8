----------------------------- MODULE MCPoseidon -----------------------------
(***************************************************************************)
(* Values for the constants of Poseidon: all 65 rounds, with tables of     *)
(* numbers below a small modulus and inputs on both sides of it.           *)
(***************************************************************************)
EXTENDS Poseidon

MCRoundConstants == [k \in 1 .. 195 |-> (7 * k * k + 3 * k + 1) % 127]
MCMatrix == <<<<2, 1, 3>>, <<1, 4, 1>>, <<5, 1, 1>>>>
MCLefts == {0, 1, 126, 127, 128, 254, 255}
MCRights == {0, 1, 2, 126, 127, 255}
=============================================================================
