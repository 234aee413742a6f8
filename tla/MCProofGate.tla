---------------------------- MODULE MCProofGate -----------------------------
(***************************************************************************)
(* Values for the constants of ProofGate: two keys per circuit, without    *)
(* accidental relations between their elements, and calls that differ from *)
(* what is proved in one argument or in the order of two.                  *)
(***************************************************************************)
EXTENDS ProofGate

MCKey(seed, inputs) ==
    [alpha |-> (seed * 7919) % Q, beta |-> (seed * 5051 + 17) % Q,
     gamma |-> (seed * 3571 + 5) % Q, delta |-> (seed * 2203 + 11) % Q,
     ic |-> [i \in 1 .. inputs + 1 |-> (seed * 4099 + i * i * i * 887 + 31) % Q]]

MCKeysFor == [circuit \in {"shield", "unshield", "privswap"} |->
    CASE circuit = "shield" -> {MCKey(1, 2), MCKey(2, 2)}
      [] circuit = "unshield" -> {MCKey(3, 4), MCKey(4, 4)}
      [] circuit = "privswap" -> {MCKey(5, 9), MCKey(6, 9)}]

MCVKeys == UNION {MCKeysFor[circuit] : circuit \in DOMAIN MCKeysFor}

\* Roots are 60 and 61; the reserves are 5 and 3, or 3 and 5.
MCChains == {[root |-> 60, yes |-> 5, no |-> 3], [root |-> 61, yes |-> 3, no |-> 5]}

MCSwap == [nullifierIn |-> 7, outCommitment |-> 8, changeCommitment |-> 9,
           reserveInBefore |-> 3, reserveOutBefore |-> 5,
           reserveInAfter |-> 4, reserveOutAfter |-> 2, assetOut |-> 0]

\* One argument changed, also to the other bytes of its scalar, or two exchanged.
MCVariants(base, values) ==
    {[base EXCEPT ![field] = value] : field \in DOMAIN base, value \in values}
      \cup {[base EXCEPT ![f] = base[g], ![g] = base[f]] :
                f \in DOMAIN base, g \in DOMAIN base}

\* Of the variants, those that the entrypoint's types allow.
MCCalls == [circuit \in {"shield", "unshield", "privswap"} |-> CallType(circuit) \cap
    CASE circuit = "shield" -> MCVariants([amount |-> 1, commitment |-> 2], {-1, 0, 257, 2 + Q})
      [] circuit = "unshield" ->
            MCVariants([root |-> 60, nullifier |-> 7, withdrawAmount |-> 4,
                        recipientField |-> 11], {0, 61, 7 + Q, 11 + Q})
      [] circuit = "privswap" -> MCVariants(MCSwap, {-1, 0, 1, 7 + Q, 9 + Q})]

MCSwapStatement ==
    [root |-> 60, nullifierIn |-> 7, outCommitment |-> 8, changeCommitment |-> 9,
     reserveInBefore |-> 3, reserveOutBefore |-> 5,
     reserveInAfter |-> 4, reserveOutAfter |-> 2, assetOut |-> 1]

MCStatements == [circuit \in {"shield", "unshield", "privswap"} |->
    CASE circuit = "shield" -> {[amount |-> 1, commitment |-> 2]}
      [] circuit = "unshield" ->
            {[root |-> 60, nullifier |-> 7, withdrawAmount |-> 4, recipient |-> 11],
             [root |-> 60, nullifier |-> 7, withdrawAmount |-> 4, recipient |-> 61]}
      [] circuit = "privswap" ->
            {MCSwapStatement, [MCSwapStatement EXCEPT !.assetOut = 2, !.root = 61]}]

\* The edges of every byte, where a borrow starts or ends.
MCBlinds == {0, 1, 31, 32, 1023, 1024, Q - 1}
=============================================================================
