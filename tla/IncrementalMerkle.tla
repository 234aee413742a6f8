-------------------------- MODULE IncrementalMerkle -------------------------
(***************************************************************************)
(* contracts/shielded_pool/src/merkle.rs: the tree as the contract stores  *)
(* it, a frontier and a root, with the clients' tree of ClientTree beside  *)
(* it.  It implements CommitmentLog, and with it the contents that         *)
(* ShieldedPool uses for a root.                                           *)
(***************************************************************************)
EXTENDS ClientTree, FiniteSets

CONSTANTS
    Leaf,       \* note commitments
    MaxLeaves   \* bound on the insertions of a run

VARIABLES
    frontier,   \* MerkleKey::Frontier: the left sibling cached at each level
    root,       \* MerkleKey::Root
    nextIndex,  \* MerkleKey::NextIndex
    knownRoots, \* MerkleKey::KnownRoot
    inserted    \* history: every leaf, in the order of insertion

merkleVars == <<frontier, root, nextIndex, knownRoots, inserted>>

Init ==
    /\ frontier = [i \in Levels |-> zeros[i]]
    /\ root = zeros[Depth]
    /\ nextIndex = 0
    /\ knownRoots = {root}
    /\ inserted = <<>>

\* No check of nextIndex against 2^DEPTH: the walk uses its low bits only.
Insert(leaf) ==
    LET node == Walk(frontier, nextIndex, leaf) IN
    /\ frontier' = Refill(frontier, nextIndex, node)
    /\ root' = node[Depth]
    /\ nextIndex' = nextIndex + 1
    /\ knownRoots' = knownRoots \cup {root'}
    /\ inserted' = Append(inserted, leaf)

Next == \E leaf \in Leaf : nextIndex < MaxLeaves /\ Insert(leaf)

Spec == Init /\ [][Next]_merkleVars

-----------------------------------------------------------------------------
Capacity == TwoTo[Depth]

\* The leaf that a root holds in a slot: follow the bits of the slot down.
SlotLeaf(r, slot) ==
    LET node[k \in 0 .. Depth] ==
          IF k = 0 THEN r ELSE node[k - 1][Bit(slot, Depth - k) + 1]
    IN  node[Depth]

Contents(r) == [slot \in 0 .. Capacity - 1 |-> SlotLeaf(r, slot)]

(***************************************************************************)
(* Refinement: read as the contents they determine, the roots behave as    *)
(* the log of leaves, also when the slots are used a second time.          *)
(***************************************************************************)
Log == INSTANCE CommitmentLog WITH
         Empty <- Zero, tree <- Contents(root),
         knownRoots <- {Contents(r) : r \in knownRoots}

ImplementsLog == Log!Spec

(***************************************************************************)
(* The path a client computes for any of its leaves leads to the contract's*)
(* root, and its bits give back the leaf's index, which is what the        *)
(* nullifier is made of.  Three programs have to agree on the convention:  *)
(* contract, client and circuit.                                           *)
(***************************************************************************)
ClientPathsAuthenticate ==
    nextIndex <= Capacity =>
        \A index \in 0 .. nextIndex - 1 :
            LET path == PathFor(inserted, index) IN
            /\ PathRoot(inserted[index + 1], path) = root
            /\ PathIndicesToLeafIndex(path.indices) = index

(***************************************************************************)
(* Conversely a path, whatever its elements, authenticates only the leaf   *)
(* that the root holds in the slot that its bits name: no second slot, so  *)
(* no second nullifier, for one inserted leaf.                             *)
(***************************************************************************)
Nodes == UNION {{SlotLeaf(root, s), zeros[0]} : s \in 0 .. Capacity - 1}
           \cup UNION {{Walk(frontier, nextIndex, leaf)[i] : i \in 0 .. Depth} : leaf \in Leaf}
           \cup {frontier[i] : i \in Levels} \cup {zeros[i] : i \in Levels}

InclusionIsSound ==
    \A leaf \in Leaf, indices \in [Levels -> {0, 1}], elements \in [Levels -> Nodes] :
        PathRoot(leaf, [elements |-> elements, indices |-> indices]) = root
            => Contents(root)[PathIndicesToLeafIndex(indices)] = leaf

(***************************************************************************)
(* crypto.ts:94 says of MerkleTree.insert that it "Mirrors the contract    *)
(* insert algorithm": a client that inserts the same leaves has the root.  *)
(* The contract goes on past the capacity; there, and only there, the      *)
(* client gives up, and does not go on with a root of its own.             *)
(***************************************************************************)
ClientMirrorsUpToCapacity ==
    LET client == BuildTree(inserted) IN
    /\ client.full <=> nextIndex > Capacity
    /\ ~client.full => client.root = root
=============================================================================
