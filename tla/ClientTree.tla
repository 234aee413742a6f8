----------------------------- MODULE ClientTree -----------------------------
(***************************************************************************)
(* The client's side of the note tree: class MerkleTree of                 *)
(* cli/src/crypto.ts, pathIndicesToLeafIndex of cli/src/prover.ts, and the *)
(* circuit's MerkleInclusion that checks the paths.  Poseidon has no       *)
(* collisions, so a hash is the pair that was hashed.                      *)
(***************************************************************************)
EXTENDS Integers, Sequences

CONSTANTS
    Depth,      \* levels of the tree
    Zero        \* the empty leaf

ASSUME DepthAssumption == Depth \in Nat \ {0}

Levels == 0 .. Depth - 1
Hash(left, right) == <<left, right>>

\* 1 << i
TwoTo[i \in 0 .. Depth] == IF i = 0 THEN 1 ELSE 2 * TwoTo[i - 1]

\* A walk halves the index at every level; the bit tells a right child.
Halved(index) ==
    LET half[i \in 0 .. Depth] == IF i = 0 THEN index ELSE half[i - 1] \div 2
    IN  half

Bit(index, level) == Halved(index)[level] % 2

\* zeros[i] is the root of an empty subtree of height i.
zeros[i \in 0 .. Depth] == IF i = 0 THEN Zero ELSE Hash(zeros[i - 1], zeros[i - 1])

\* The nodes on the way up, by the bit and the sibling at every level.
Climb(leaf, bits, siblings) ==
    LET cur[i \in 0 .. Depth] ==
          IF i = 0 THEN leaf
          ELSE IF bits[i - 1] = 0 THEN Hash(cur[i - 1], siblings[i - 1])
                                  ELSE Hash(siblings[i - 1], cur[i - 1])
    IN  cur

(***************************************************************************)
(* The walk of an insertion: the cached left siblings `filled` stand on    *)
(* the left of a right child, empty subtrees on the right of a left child. *)
(***************************************************************************)
Walk(filled, index, leaf) ==
    LET bits == [i \in Levels |-> Bit(index, i)] IN
    Climb(leaf, bits, [i \in Levels |-> IF bits[i] = 0 THEN zeros[i] ELSE filled[i]])

\* Mutant: right children are cached as well.
RefillAlways(filled, index, node) == [i \in Levels |-> node[i]]

\* A left child is cached at its level.
Refill(filled, index, node) ==
    [i \in Levels |-> IF Bit(index, i) = 0 THEN node[i] ELSE filled[i]]

-----------------------------------------------------------------------------
(* class MerkleTree                                                        *)

NewTree == [leaves |-> <<>>, filled |-> [i \in Levels |-> zeros[i]],
            root |-> zeros[Depth], full |-> FALSE]

\* Mutant: the left siblings are not cached.
ClientInsertUncached(t, leaf) ==
    LET index == Len(t.leaves) IN
    IF t.full \/ index >= TwoTo[Depth]
      THEN [t EXCEPT !.full = TRUE]
      ELSE [t EXCEPT !.leaves = Append(@, leaf),
                     !.root = Walk(t.filled, index, leaf)[Depth]]

\* insert throws on a full tree; buildTree then gives up ("full").
ClientInsert(t, leaf) ==
    LET index == Len(t.leaves)
        node == Walk(t.filled, index, leaf) IN
    IF t.full \/ index >= TwoTo[Depth]
      THEN [t EXCEPT !.full = TRUE]
      ELSE [leaves |-> Append(t.leaves, leaf),
            filled |-> Refill(t.filled, index, node),
            root |-> node[Depth], full |-> FALSE]

BuildTree(commitments) ==
    LET tree[k \in 0 .. Len(commitments)] ==
          IF k = 0 THEN NewTree ELSE ClientInsert(tree[k - 1], commitments[k])
    IN  tree[Len(commitments)]

\* The parents of the nodes of a level, the last one hashed with an empty subtree.
NextLevel(nodes, level) ==
    LET At(j) == IF j < Len(nodes) THEN nodes[j + 1] ELSE zeros[level] IN
    [j \in 1 .. (Len(nodes) + 1) \div 2 |-> Hash(At(2 * j - 2), At(2 * j - 1))]

\* pathFor rebuilds every level of the tree from the leaves.
LevelNodes(leaves) ==
    LET nodes[i \in 0 .. Depth] ==
          IF i = 0 THEN leaves ELSE NextLevel(nodes[i - 1], i - 1)
    IN  nodes

PathFor(leaves, index) ==
    LET nodes == LevelNodes(leaves)
        Sibling(i) == LET k == Halved(index)[i] IN
                      IF k % 2 = 1 THEN k - 1 ELSE k + 1 IN
    [elements |-> [i \in Levels |-> IF Sibling(i) < Len(nodes[i])
                                      THEN nodes[i][Sibling(i) + 1] ELSE zeros[i]],
     indices |-> [i \in Levels |-> Bit(index, i)]]

\* Mutant: the bits are read from the root down.
PathIndicesBigEndian(indices) ==
    LET sum[i \in 0 .. Depth] ==
          IF i = 0 THEN 0 ELSE 2 * sum[i - 1] + indices[i - 1]
    IN  sum[Depth]

PathIndicesToLeafIndex(indices) ==
    LET sum[i \in 0 .. Depth] ==
          IF i = 0 THEN 0 ELSE sum[i - 1] + indices[i - 1] * TwoTo[i - 1]
    IN  sum[Depth]

-----------------------------------------------------------------------------
(* circuits/lib/merkle.circom: the root that a path leads to.              *)

\* Mutant: the index bits do not swap the operands.
PathRootUnordered(leaf, path) ==
    Climb(leaf, [i \in Levels |-> 0], path.elements)[Depth]

PathRoot(leaf, path) == Climb(leaf, path.indices, path.elements)[Depth]
=============================================================================
