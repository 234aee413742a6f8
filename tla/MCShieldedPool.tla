--------------------------- MODULE MCShieldedPool ---------------------------
(***************************************************************************)
(* Values for the constants of ShieldedPool; the second seed does not fit  *)
(* into the range check of the circuit, and a note of 3 leaves change when *)
(* 2 of it are swapped.  No definition tells one rho from another.         *)
(***************************************************************************)
EXTENDS ShieldedPool, TLC

MCSeeds == {<<2, 2>>, <<5, 1>>}
MCAmounts == {0, 3}
MCSymmetry == Permutations(Rhos)
=============================================================================
