--------------------------- MODULE CommitmentTree ---------------------------
(***************************************************************************)
(* The contents of the pool's note tree, as its root determines them.      *)
(*                                                                         *)
(* contracts/shielded_pool/src/merkle.rs stores a frontier and a root; the *)
(* hash has no collisions, so a root stands for what the tree of 2^DEPTH   *)
(* slots under it holds.  Here a root IS that function from slots to       *)
(* leaves.  IncrementalMerkle shows that the frontier algorithm implements *)
(* these operators.                                                        *)
(***************************************************************************)
EXTENDS Integers

CONSTANTS
    Capacity,   \* number of slots of the tree, 2^DEPTH
    Empty       \* the empty leaf (32 zero bytes)

ASSUME CapacityAssumption == Capacity \in Nat \ {0}

Slots == 0 .. Capacity - 1

\* The walk of `insert` reads only the low DEPTH bits of the leaf index.
Slot(index) == index % Capacity

Tree(Leaf) == [Slots -> Leaf \cup {Empty}]

EmptyTree == [s \in Slots |-> Empty]

\* Mutant: the rest of the slots keeps what the previous pass left there.
InsertLeafInPlace(tree, index, leaf) ==
    [s \in Slots |-> IF s = Slot(index) THEN leaf ELSE tree[s]]

(***************************************************************************)
(* The root after inserting `leaf` at `index`: everything to the left of   *)
(* the slot comes from the frontier, everything to its right from the      *)
(* cached zero roots.  Nothing refuses an index of 2^DEPTH or more: the    *)
(* slot is then 0 again and the new root covers the new leaf alone.        *)
(***************************************************************************)
InsertLeaf(tree, index, leaf) ==
    [s \in Slots |-> IF s < Slot(index) THEN tree[s]
                     ELSE IF s = Slot(index) THEN leaf ELSE Empty]

\* Mutant: the leaf index is an input of its own, not tied to the path.
InclusionAnywhere(leaf, root, slot) ==
    slot \in Slots /\ \E s \in Slots : root[s] = leaf

\* circuits/lib/merkle.circom: the leaf sits in this slot under this root.
MerkleInclusion(leaf, root, slot) == slot \in Slots /\ root[slot] = leaf
=============================================================================
