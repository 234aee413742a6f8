---------------------------- MODULE CommitmentLog ---------------------------
(***************************************************************************)
(* What the note tree promises: leaves go into consecutive slots, the      *)
(* current root stands for the leaves of the current pass over the slots,  *)
(* and every root there ever was stays known.  IncrementalMerkle, the      *)
(* frontier algorithm, implements this specification.                      *)
(***************************************************************************)
EXTENDS CommitmentTree

CONSTANT Leaf

VARIABLES tree, nextIndex, knownRoots

logVars == <<tree, nextIndex, knownRoots>>

Init ==
    /\ tree = EmptyTree
    /\ nextIndex = 0
    /\ knownRoots = {EmptyTree}

AppendLeaf(leaf) ==
    /\ tree' = InsertLeaf(tree, nextIndex, leaf)
    /\ nextIndex' = nextIndex + 1
    /\ knownRoots' = knownRoots \cup {tree'}

Next == \E leaf \in Leaf : AppendLeaf(leaf)

Spec == Init /\ [][Next]_logVars
=============================================================================
