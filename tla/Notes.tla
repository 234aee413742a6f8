-------------------------------- MODULE Notes -------------------------------
(***************************************************************************)
(* The note scheme and the three statements the pool accepts proofs of     *)
(* (circuits/*.circom and circuits/lib/*.circom, repeated in               *)
(* cli/src/crypto.ts).  Poseidon has no collisions: a hash is the tuple or *)
(* record of what was hashed.  A circuit is a relation: it accepts public  *)
(* inputs iff some witness meets its constraints and yields them, so each  *)
(* one is given as constraints on the witness and the public inputs that   *)
(* the witness yields.                                                     *)
(***************************************************************************)
EXTENDS CommitmentTree, SwapTrade

CONSTANTS
    SpendKeys,  \* owner spending keys (ownerSk)
    Rhos        \* note randomness

COLLATERAL == 0
YES == 1
NO == 2
Asset == {COLLATERAL, YES, NO}

OwnerPk(sk) == <<"pk", sk>>

NoteCommitment(asset, amount, ownerPk, rho) ==
    [asset |-> asset, amount |-> amount, ownerPk |-> ownerPk, rho |-> rho]

NullifierOf(sk, rho, leafIndex) ==
    [sk |-> sk, rho |-> rho, leafIndex |-> leafIndex]

OwnerPks == {OwnerPk(sk) : sk \in SpendKeys}
Note == [asset : Asset, amount : U64, ownerPk : OwnerPks, rho : Rhos]
NullifierSet == [sk : SpendKeys, rho : Rhos, leafIndex : Slots]

ASSUME EmptyAssumption == Empty \notin Note

(***************************************************************************)
(* shield: public [amount, commitment], private ownerPk and rho.           *)
(***************************************************************************)
ShieldConstraints(amount) == amount \in U64

ShieldCommitment(amount, ownerPk, rho) ==
    NoteCommitment(COLLATERAL, amount, ownerPk, rho)

(***************************************************************************)
(* unshield: public [root, nullifier, withdrawAmount, recipient], private  *)
(* ownerSk, rho and the path.  The leaf index that is nullified is         *)
(* recomputed from the path, it is not an input of its own.                *)
(***************************************************************************)
UnshieldConstraints(root, withdrawAmount, sk, rho, slot) ==
    MerkleInclusion(NoteCommitment(COLLATERAL, withdrawAmount, OwnerPk(sk), rho),
                    root, slot)

UnshieldNullifier(sk, rho, slot) == NullifierOf(sk, rho, slot)

(***************************************************************************)
(* private_swap: the witness w is [ownerSk, rhoIn, slot, rhoOut, rhoChange,*)
(* trade], trade as in SwapTrade, with the reserves of the trade public.   *)
(***************************************************************************)
SwapConstraints(root, assetOut, w) ==
    /\ MerkleInclusion(NoteCommitment(COLLATERAL, w.trade.inAmount,
                                      OwnerPk(w.ownerSk), w.rhoIn),
                       root, w.slot)
    /\ ExactTrade(w.trade)
    /\ assetOut \in {YES, NO}

SwapNullifier(w) == NullifierOf(w.ownerSk, w.rhoIn, w.slot)

SwapOutCommitment(assetOut, w) ==
    NoteCommitment(assetOut, w.trade.amountOut, OwnerPk(w.ownerSk), w.rhoOut)

\* Mutant: what was traded away is not deducted.
ChangeOfWholeNote(w) ==
    NoteCommitment(COLLATERAL, w.trade.inAmount, OwnerPk(w.ownerSk), w.rhoChange)

SwapChangeCommitment(w) ==
    NoteCommitment(COLLATERAL, w.trade.inAmount - w.trade.amountIn,
                   OwnerPk(w.ownerSk), w.rhoChange)
=============================================================================
