----------------------------- MODULE MCShieldCli ----------------------------
(***************************************************************************)
(* Values for the constants of ShieldCli.  A swap of 2 takes the reserves  *)
(* from (2, 2) to (4, 1) and a note of 3 leaves change; from there a swap  *)
(* of 3 takes them to (1, 4).  The admin seeds the first and last pair,    *)
(* also while a swap that was quoted at the other one is under way.        *)
(***************************************************************************)
EXTENDS ShieldCli

MCSeeds == {<<2, 2>>, <<1, 4>>}
MCNoSeeds == {}
MCAmounts == {2, 3}
MCOneAmount == {2}
MCChangeAmount == {3}
MCSwapAmounts == {2}
MCTwoSwapAmounts == {2, 3}
MCFees == {0}
=============================================================================
