---------------------------- MODULE ShieldedPool ----------------------------
(***************************************************************************)
(* contracts/shielded_pool/src/lib.rs: the pool contract.  A Soroban       *)
(* invocation is atomic (a panic reverts all of it), so each entrypoint is *)
(* one action, enabled when the call succeeds.                             *)
(***************************************************************************)
EXTENDS Notes, Sums, Sequences

CONSTANTS
    Pool,           \* the contract's own token account
    Users,          \* every other token account
    Funds,          \* what each user account starts with
    Refs,           \* screening references
    MaxI128,        \* largest i128; the release profile panics on overflow
    Amounts,        \* amounts a caller tries to shield
    UnshieldFees,   \* fees a caller passes to unshield
    SwapFees,       \* fees a caller passes to private_swap
    Seeds,          \* reserve pairs <<yes, no>> the admin may seed
    Laps,           \* how often the field order fits on top of a scalar
    MaxLeaves       \* bound on the number of leaves inserted in a run

Accounts == Users \cup {Pool}

ASSUME PoolAssumption ==
    /\ Pool \notin Users
    /\ Funds \in Nat
    /\ MaxI128 \in Nat /\ MaxU64 <= MaxI128
    /\ Amounts \subseteq Int
    /\ UnshieldFees \subseteq Int /\ SwapFees \subseteq Int
    /\ Seeds \subseteq Int \X Int
    /\ Laps \subseteq Nat /\ 0 \in Laps
    /\ MaxLeaves \in Nat

\* The `asset_out` selector; the circuit's asset id is the selector plus one.
ASSET_YES == 0
ASSET_NO == 1
Selectors == 0 .. 2

(***************************************************************************)
(* A nullifier is passed and stored as 32 bytes, which the verifier takes  *)
(* modulo the order of the field (groth16_verifier/src/lib.rs:87): lap     *)
(* times the order may be added to a scalar.  Lap 0 is what the CLI writes.*)
(* Roots and commitments need no laps: is_known_root compares with roots   *)
(* that the contract computed, and the hash reduces what it reads.         *)
(***************************************************************************)
EncodedAs(scalar, lap) == [scalar |-> scalar, lap |-> lap]
NullifierBytes == [scalar : NullifierSet, lap : Laps]

VARIABLES
    initialized,    \* DataKey::Config is set
    reserves,       \* DataKey::ReserveYes / ReserveNo, by asset
    denied,         \* DataKey::Denied
    fees,           \* DataKey::Fees
    tree,           \* MerkleKey::Root, as the contents it determines
    nextIndex,      \* MerkleKey::NextIndex
    knownRoots,     \* MerkleKey::KnownRoot
    nullifiers,     \* DataKey::Nullifier, by the bytes
    token,          \* balances in the collateral token (external contract)
    leaves,         \* history: every leaf, in the order of insertion
    spends,         \* history: the note and slot each spend proved, the bytes it used
    seeded,         \* history: net amount the admin put into each reserve
    swappedIn,      \* history: collateral swapped into each reserve
    swapFees        \* history: fees that swaps accrued; no token comes with them

poolVars == <<initialized, reserves, denied, fees, tree, nextIndex,
              knownRoots, nullifiers, token, leaves, spends, seeded, swappedIn,
              swapFees>>

Legs == {YES, NO}
SpendRecord == [note : Note, slot : Slots, nullifier : NullifierBytes]

TypeOK ==
    /\ initialized \in BOOLEAN
    /\ reserves \in [Legs -> Nat]
    /\ denied \in SUBSET Refs
    /\ fees \in 0 .. MaxI128
    /\ tree \in Tree(Note)
    /\ nextIndex \in Nat
    /\ knownRoots \in SUBSET Tree(Note)
    /\ nullifiers \in SUBSET NullifierBytes
    /\ token \in [Accounts -> Nat]
    /\ leaves \in Seq(Note)
    /\ spends \in Seq(SpendRecord)
    /\ seeded \in [Legs -> Int]
    /\ swappedIn \in [Legs -> Nat]
    /\ swapFees \in Nat

-----------------------------------------------------------------------------
(* Helpers of the contract and of its token.                               *)

Init ==
    /\ initialized = FALSE
    /\ reserves = [leg \in Legs |-> 0]
    /\ denied = {}
    /\ fees = 0
    /\ tree = EmptyTree
    /\ nextIndex = 0
    /\ knownRoots = {}
    /\ nullifiers = {}
    /\ token = [a \in Accounts |-> IF a = Pool THEN 0 ELSE Funds]
    /\ leaves = <<>>
    /\ spends = <<>>
    /\ seeded = [leg \in Legs |-> 0]
    /\ swappedIn = [leg \in Legs |-> 0]
    /\ swapFees = 0

CanTransfer(from, amount) == amount <= token[from]

Transfer(from, to, amount) ==
    token' = [a \in Accounts |-> token[a] - (IF a = from THEN amount ELSE 0)
                                         + (IF a = to THEN amount ELSE 0)]

\* Mutant: only the current root stays known.
InsertOneLatestRoot(leaf) ==
    /\ tree' = InsertLeaf(tree, nextIndex, leaf)
    /\ nextIndex' = nextIndex + 1
    /\ knownRoots' = {tree'}
    /\ leaves' = Append(leaves, leaf)

\* Insert one leaf: the new root becomes current and known.
InsertOne(leaf) ==
    /\ tree' = InsertLeaf(tree, nextIndex, leaf)
    /\ nextIndex' = nextIndex + 1
    /\ knownRoots' = knownRoots \cup {tree'}
    /\ leaves' = Append(leaves, leaf)

\* Mutant: the root between the two leaves is not recorded.
InsertTwoFinalRoot(first, second) ==
    /\ tree' = InsertLeaf(InsertLeaf(tree, nextIndex, first), nextIndex + 1, second)
    /\ nextIndex' = nextIndex + 2
    /\ knownRoots' = knownRoots \cup {tree'}
    /\ leaves' = leaves \o <<first, second>>

\* Mutant: the root after the second leaf is not recorded.
InsertTwoFirstRoot(first, second) ==
    LET between == InsertLeaf(tree, nextIndex, first) IN
    /\ tree' = InsertLeaf(between, nextIndex + 1, second)
    /\ nextIndex' = nextIndex + 2
    /\ knownRoots' = knownRoots \cup {between}
    /\ leaves' = leaves \o <<first, second>>

\* Insert two leaves in a row; the root in between becomes known as well.
InsertTwo(first, second) ==
    LET between == InsertLeaf(tree, nextIndex, first) IN
    /\ tree' = InsertLeaf(between, nextIndex + 1, second)
    /\ nextIndex' = nextIndex + 2
    /\ knownRoots' = knownRoots \cup {between, tree'}
    /\ leaves' = leaves \o <<first, second>>

\* Mutant: the sum is not checked.
AccrueFeeUnchecked(fee) == fees' = IF fee > 0 THEN fees + fee ELSE fees

\* accrue_fee ignores a fee of 0 and panics when the sum overflows.
AccrueFee(fee) ==
    /\ fees + fee <= MaxI128
    /\ fees' = IF fee > 0 THEN fees + fee ELSE fees

\* Mutant: the nullifier is not stored.
MarkNothing(nullifier, note, slot) ==
    /\ UNCHANGED nullifiers
    /\ spends' = Append(spends, [note |-> note, slot |-> slot, nullifier |-> nullifier])

MarkSpent(nullifier, note, slot) ==
    /\ nullifiers' = nullifiers \cup {nullifier}
    /\ spends' = Append(spends, [note |-> note, slot |-> slot, nullifier |-> nullifier])

\* Mutant: the reserve of the wrong side is paid into.
InLegReversed(assetOut) == IF assetOut = ASSET_YES THEN YES ELSE NO

InLeg(assetOut) == IF assetOut = ASSET_YES THEN NO ELSE YES
OutLeg(assetOut) == IF assetOut = ASSET_YES THEN YES ELSE NO

-----------------------------------------------------------------------------
(* Entrypoints.                                                            *)

\* Mutant: init runs a second time.
InitializeAgain ==
    /\ initialized' = TRUE
    /\ reserves' = [leg \in Legs |-> 0]
    /\ fees' = 0
    /\ tree' = EmptyTree
    /\ nextIndex' = 0
    /\ knownRoots' = knownRoots \cup {EmptyTree}
    /\ UNCHANGED <<denied, nullifiers, token, leaves, spends, seeded, swappedIn,
                   swapFees>>

Initialize ==
    /\ ~initialized
    /\ initialized' = TRUE
    /\ reserves' = [leg \in Legs |-> 0]
    /\ fees' = 0
    /\ tree' = EmptyTree
    /\ nextIndex' = 0
    /\ knownRoots' = knownRoots \cup {EmptyTree}
    /\ UNCHANGED <<denied, nullifiers, token, leaves, spends, seeded, swappedIn,
                   swapFees>>

\* The admin overwrites the reserve pair; no token moves.
SeedReserves(yes, no) ==
    /\ initialized
    /\ yes >= 0 /\ no >= 0
    /\ reserves' = [leg \in Legs |-> IF leg = YES THEN yes ELSE no]
    /\ seeded' = [leg \in Legs |-> seeded[leg] + reserves'[leg] - reserves[leg]]
    /\ UNCHANGED <<initialized, denied, fees, tree, nextIndex, knownRoots,
                   nullifiers, token, leaves, spends, swappedIn, swapFees>>

SetDenied(ref, isDenied) ==
    /\ initialized
    /\ denied' = IF isDenied THEN denied \cup {ref} ELSE denied \ {ref}
    /\ UNCHANGED <<initialized, reserves, fees, tree, nextIndex, knownRoots,
                   nullifiers, token, leaves, spends, seeded, swappedIn,
                   swapFees>>

WithdrawFees(to) ==
    /\ initialized
    /\ fees > 0
    /\ CanTransfer(Pool, fees)
    /\ Transfer(Pool, to, fees)
    /\ fees' = 0
    /\ UNCHANGED <<initialized, reserves, denied, tree, nextIndex, knownRoots,
                   nullifiers, leaves, spends, seeded, swappedIn,
                   swapFees>>

Shield(from, amount, ownerPk, rho, ref) ==
    /\ amount > 0
    /\ ref \notin denied
    /\ initialized
    /\ ShieldConstraints(amount)
    /\ CanTransfer(from, amount)
    /\ Transfer(from, Pool, amount)
    /\ InsertOne(ShieldCommitment(amount, ownerPk, rho))
    /\ UNCHANGED <<initialized, reserves, denied, fees, nullifiers, spends,
                   seeded, swappedIn, swapFees>>

Unshield(root, slot, sk, rho, withdrawAmount, recipient, fee, lap) ==
    LET nullifier == EncodedAs(UnshieldNullifier(sk, rho, slot), lap)
        payout == withdrawAmount - fee IN
    /\ withdrawAmount > 0
    /\ fee >= 0 /\ fee <= withdrawAmount
    /\ root \in knownRoots
    /\ nullifier \notin nullifiers
    /\ initialized
    /\ UnshieldConstraints(root, withdrawAmount, sk, rho, slot)
    /\ MarkSpent(nullifier,
                 NoteCommitment(COLLATERAL, withdrawAmount, OwnerPk(sk), rho), slot)
    /\ IF payout > 0
         THEN CanTransfer(Pool, payout) /\ Transfer(Pool, recipient, payout)
         ELSE UNCHANGED token
    /\ AccrueFee(fee)
    /\ UNCHANGED <<initialized, reserves, denied, tree, nextIndex, knownRoots,
                   leaves, seeded, swappedIn, swapFees>>

(***************************************************************************)
(* w is the witness of the proof (see Notes) and carries the reserves that *)
(* the caller passes; the root is the current one, whatever it was when    *)
(* the proof was made.                                                     *)
(***************************************************************************)
PrivateSwap(w, assetOut, fee, lap) ==
    LET in == InLeg(assetOut)
        out == OutLeg(assetOut)
        nullifierIn == EncodedAs(SwapNullifier(w), lap) IN
    /\ assetOut \in {ASSET_YES, ASSET_NO}
    /\ fee >= 0
    /\ w.trade.reserveInAfter >= 0 /\ w.trade.reserveOutAfter >= 0
    /\ nullifierIn \notin nullifiers
    /\ w.trade.reserveInBefore = reserves[in]
    /\ w.trade.reserveOutBefore = reserves[out]
    /\ initialized
    /\ SwapConstraints(tree, assetOut + 1, w)
    /\ reserves' = [leg \in Legs |-> IF leg = in THEN w.trade.reserveInAfter
                                     ELSE w.trade.reserveOutAfter]
    /\ MarkSpent(nullifierIn,
                 NoteCommitment(COLLATERAL, w.trade.inAmount,
                                OwnerPk(w.ownerSk), w.rhoIn), w.slot)
    /\ InsertTwo(SwapOutCommitment(assetOut + 1, w), SwapChangeCommitment(w))
    /\ AccrueFee(fee)
    /\ swappedIn' = [swappedIn EXCEPT ![in] = @ + w.trade.amountIn]
    /\ swapFees' = swapFees + fee
    /\ UNCHANGED <<initialized, denied, token, seeded>>

-----------------------------------------------------------------------------
(* The calls that are made: every combination of the inputs, including     *)
(* roots of trees that a client built ahead of the chain.                  *)

RootsAhead ==
    {InsertLeaf(tree, nextIndex, ShieldCommitment(amount, OwnerPk(sk), rho)) :
        amount \in Amounts \cap U64, sk \in SpendKeys, rho \in Rhos}

\* Reserve pairs <<in, out>> a caller passes: read now, or before a change.
Quotes == {<<reserves[YES], reserves[NO]>>, <<reserves[NO], reserves[YES]>>}
            \cup Seeds

Trade(inAmount, amountIn, amountOut, quote) ==
    [inAmount |-> inAmount, amountIn |-> amountIn, amountOut |-> amountOut,
     reserveInBefore |-> quote[1], reserveOutBefore |-> quote[2],
     reserveInAfter |-> quote[1] + amountIn,
     reserveOutAfter |-> quote[2] - amountOut]

ShieldCall ==
    /\ nextIndex < MaxLeaves
    /\ \E from \in Users, amount \in Amounts, ownerPk \in OwnerPks,
          rho \in Rhos, ref \in Refs :
           Shield(from, amount, ownerPk, rho, ref)

\* The note is one of the root's, which the circuit insists on.
UnshieldCall ==
    \E root \in knownRoots \cup RootsAhead : \E slot \in Slots, sk \in SpendKeys,
       note \in {root[s] : s \in Slots} \ {Empty}, recipient \in Users,
       fee \in UnshieldFees, lap \in Laps :
        Unshield(root, slot, sk, note.rho, note.amount, recipient, fee, lap)

PrivateSwapCall ==
    /\ nextIndex + 1 < MaxLeaves
    /\ \E slot \in {s \in Slots : tree[s] # Empty}, sk \in SpendKeys,
          rhoOut \in Rhos, rhoChange \in Rhos, amountIn \in U64, amountOut \in U64,
          quote \in Quotes, assetOut \in Selectors, fee \in SwapFees, lap \in Laps :
           PrivateSwap([ownerSk |-> sk, rhoIn |-> tree[slot].rho, slot |-> slot,
                        rhoOut |-> rhoOut, rhoChange |-> rhoChange,
                        trade |-> Trade(tree[slot].amount, amountIn, amountOut, quote)],
                       assetOut, fee, lap)

Next ==
    \/ Initialize
    \/ \E seed \in Seeds : SeedReserves(seed[1], seed[2])
    \/ \E ref \in Refs, isDenied \in BOOLEAN : SetDenied(ref, isDenied)
    \/ \E to \in Users : WithdrawFees(to)
    \/ ShieldCall
    \/ UnshieldCall
    \/ PrivateSwapCall

Spec == Init /\ [][Next]_poolVars

-----------------------------------------------------------------------------
(* Safety.                                                                 *)

\* The leaves a spend may have consumed: same note, same slot.
LeavesOf(spend) ==
    {i \in DOMAIN leaves : leaves[i] = spend.note /\ Slot(i - 1) = spend.slot}

(***************************************************************************)
(* Every spend of unshield and private_swap consumed leaves that were      *)
(* inserted, and no other spend that wrote its nullifier with as many laps *)
(* consumed them: a note is paid at most once for each encoding of its     *)
(* nullifier in 32 bytes.  Rests on the known-root check, the nullifier    *)
(* set and the leaf index that the circuits derive from the path.          *)
(***************************************************************************)
SpendsAreBacked ==
    /\ \A n \in DOMAIN spends : LeavesOf(spends[n]) # {}
    /\ \A m, n \in DOMAIN spends :
          m # n /\ spends[m].nullifier.lap = spends[n].nullifier.lap
            => LeavesOf(spends[m]) \cap LeavesOf(spends[n]) = {}

(***************************************************************************)
(* lib.rs:33 says of the nullifiers "Spent-note set: `Nullifier(n) -> true`*)
(* once a note is spent.": a note in the set is not spent again.           *)
(***************************************************************************)
NotesSpentOnce ==
    \A m, n \in DOMAIN spends :
        m # n => LeavesOf(spends[m]) \cap LeavesOf(spends[n]) = {}

(***************************************************************************)
(* The strengthening of SpendsAreBacked that is inductive.  Every slot of a*)
(* known root was filled by an insertion, the nullifiers are those of the  *)
(* spends, each one that of its note and slot, and no two have the same    *)
(* bytes.                                                                  *)
(***************************************************************************)
Inserted(history, leaf, slot) ==
    \E i \in DOMAIN history : history[i] = leaf /\ Slot(i - 1) = slot

SpendInv ==
    /\ nextIndex = Len(leaves)
    /\ ~initialized => leaves = <<>>
    /\ \A root \in knownRoots \cup {tree}, s \in Slots :
          root[s] # Empty => Inserted(leaves, root[s], s)
    /\ \A n \in DOMAIN spends : Inserted(leaves, spends[n].note, spends[n].slot)
    /\ \A n \in DOMAIN spends : \E sk \in SpendKeys :
          /\ spends[n].note.ownerPk = OwnerPk(sk)
          /\ spends[n].nullifier.scalar
               = NullifierOf(sk, spends[n].note.rho, spends[n].slot)
    /\ nullifiers = {spends[n].nullifier : n \in DOMAIN spends}
    /\ \A m, n \in DOMAIN spends :
          m # n => spends[m].nullifier # spends[n].nullifier

\* The nullifier of leaf i, for the key that owns it.
LeafNullifier(i) ==
    NullifierOf(leaves[i].ownerPk[2], leaves[i].rho, Slot(i - 1))

\* The scalars that were nullified, however they were written.
NullifiedScalars == {nullifier.scalar : nullifier \in nullifiers}

Unspent(asset) ==
    {i \in DOMAIN leaves : leaves[i].asset = asset /\ LeafNullifier(i) \notin NullifiedScalars}

LeafTotal(S) ==
    Total([i \in Nat |-> IF i \in S THEN leaves[i].amount ELSE 0], Len(leaves))

\* Spends whose nullifier an earlier one had used with other laps.
Repeats ==
    {n \in DOMAIN spends : \E m \in 1 .. n - 1 :
        spends[m].nullifier.scalar = spends[n].nullifier.scalar}

\* What the pool owes or has paid although no deposit covers it.
Uncovered ==
    swapFees + Total([n \in Nat |-> IF n \in Repeats THEN spends[n].note.amount ELSE 0],
                     Len(spends))

(***************************************************************************)
(* Solvency: the pool's token balance covers every unspent collateral note,*)
(* the accrued fees and all collateral that swaps moved into the reserves. *)
(* There are two ways to a shortfall and it is never larger than what they *)
(* account for: fees of swaps, which are accrued without a token, and notes*)
(* spent again under another encoding of their nullifier.  Follows the     *)
(* whole flow shield -> swap -> change note -> unshield.                   *)
(***************************************************************************)
Solvent ==
    token[Pool] + Uncovered >= LeafTotal(Unspent(COLLATERAL)) + fees
                                 + swappedIn[YES] + swappedIn[NO]

(***************************************************************************)
(* Each leg of the reserve pair is accounted for by itself: what it holds  *)
(* plus the position notes minted from it is what the admin seeded plus    *)
(* the collateral swapped into it.  Rests on the two in/out mappings of    *)
(* private_swap and on the selector-to-asset conversion.                   *)
(***************************************************************************)
LegsAccounted ==
    \A leg \in Legs :
        reserves[leg]
          + LeafTotal({i \in DOMAIN leaves : leaves[i].asset = leg})
            = seeded[leg] + swappedIn[leg]

(***************************************************************************)
(* Every unspent collateral note with a positive amount is in its slot of a*)
(* known root, even once the tree is past its capacity, so that it can be  *)
(* unshielded right now, whatever order of swaps and shields came before.  *)
(* What may be missing is tokens, and no more of them than Solvent accounts*)
(* for: the fees of swaps, once withdrawn, and the notes paid twice strand *)
(* other notes, and nothing else does.                                     *)
(***************************************************************************)
NotesWithdrawable ==
    \A i \in Unspent(COLLATERAL) :
        leaves[i].amount > 0 =>
            /\ \E root \in knownRoots : root[Slot(i - 1)] = leaves[i]
            /\ leaves[i].amount <= token[Pool] + Uncovered

\* The tree after the first n insertions: the leaves since the slot was last 0.
TreeAfter(n) ==
    LET start == IF n = 0 THEN 0 ELSE n - 1 - Slot(n - 1) IN
    [s \in Slots |-> IF start + s < n THEN leaves[start + s + 1] ELSE Empty]

(***************************************************************************)
(* The known roots are those of every prefix of the insertions and no      *)
(* other, the one between the two leaves of a swap included, and the       *)
(* current root is the last of them.                                       *)
(***************************************************************************)
RootsAreHistory ==
    initialized =>
        /\ nextIndex = Len(leaves)
        /\ tree = TreeAfter(nextIndex)
        /\ knownRoots = {TreeAfter(n) : n \in 0 .. nextIndex}

(***************************************************************************)
(* A spent note stays spent, an accepted root stays accepted and leaves    *)
(* are only appended: what a client proved against stays valid.            *)
(***************************************************************************)
NothingForgotten ==
    [][/\ nullifiers \subseteq nullifiers'
       /\ knownRoots \subseteq knownRoots'
       /\ nextIndex <= nextIndex']_poolVars

(***************************************************************************)
(* The reserves move in two ways: the admin seeds them, with any pair that *)
(* is not negative, or a swap spends one note, inserts two leaves and      *)
(* keeps their product, all of it within 64 bits: from a pair seeded past  *)
(* them no trade starts, and no trade leads there.                         *)
(***************************************************************************)
Product == reserves[YES] * reserves[NO]

ReservesMoveByTrade ==
    [][reserves' # reserves =>
         \/ seeded' # seeded
         \/ /\ \A leg \in Legs : reserves[leg] \in U64 /\ reserves'[leg] \in U64
            /\ Product' = Product
            /\ Len(spends') = Len(spends) + 1
            /\ nextIndex' = nextIndex + 2]_poolVars

(***************************************************************************)
(* The mapping to NoteLedger: a leaf is its note and the slot it went into,*)
(* a claim on it is an encoding of its nullifier.                          *)
(***************************************************************************)
Promised == INSTANCE NoteLedger WITH
    Entry <- [note : Note, slot : Slots],
    Claims <- Laps,
    Collateral <- COLLATERAL,
    Positions <- Legs,
    minted <- {[note |-> leaves[i], slot |-> Slot(i - 1)] : i \in DOMAIN leaves},
    spent <- {[entry |-> [note |-> spends[n].note, slot |-> spends[n].slot],
               claim |-> spends[n].nullifier.lap] : n \in DOMAIN spends},
    vault <- token[Pool],
    accrued <- fees

(***************************************************************************)
(* The pool implements the ledger with as many claims on a note as its     *)
(* nullifier has encodings: every call spends and mints what the ledger    *)
(* allows, and moves no more tokens than that.                             *)
(***************************************************************************)
ImplementsLedger == Promised!Spec

(***************************************************************************)
(* lib.rs:41 calls DataKey::Fees "Accrued protocol fees (collateral units) *)
(* withdrawable by the admin": the pool holds what it has accrued.         *)
(***************************************************************************)
FeesWithdrawable == fees <= token[Pool]
=============================================================================
