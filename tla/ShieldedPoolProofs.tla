------------------------- MODULE ShieldedPoolProofs -------------------------
(***************************************************************************)
(* Theorems about ShieldedPool, for every value of its constants: its      *)
(* type and backing, what its reserves may do, that its known roots are    *)
(* the history of the insertions, that it implements NoteLedger, and that  *)
(* it can pay what it owes.                                                *)
(***************************************************************************)
EXTENDS ShieldedPool, SumProofs

-----------------------------------------------------------------------------
(* Lemmas about the helpers.                                               *)

(***************************************************************************)
(* The slot of a leaf index (merkle.rs reads its low DEPTH bits) is one of *)
(* the tree.                                                               *)
(***************************************************************************)
LEMMA SlotType == \A n \in Nat : Slot(n) \in Slots
  BY CapacityAssumption DEF Slot, Slots

(***************************************************************************)
(* merkle::insert takes a tree to a tree.                                  *)
(***************************************************************************)
LEMMA InsertLeafType ==
  ASSUME NEW root \in Tree(Note), NEW n \in Nat, NEW leaf \in Note
  PROVE  InsertLeaf(root, n, leaf) \in Tree(Note)
  BY DEF InsertLeaf, Tree

(***************************************************************************)
(* After merkle::insert a slot is empty, holds what it held before, or is  *)
(* the slot of the new leaf and holds it.                                  *)
(***************************************************************************)
LEMMA InsertLeafSlots ==
  ASSUME NEW root \in Tree(Note), NEW n \in Nat, NEW leaf \in Note, NEW s \in Slots
  PROVE  LET new == InsertLeaf(root, n, leaf) IN
         \/ new[s] = Empty
         \/ new[s] = root[s]
         \/ s = Slot(n) /\ new[s] = leaf
  BY DEF InsertLeaf, Tree

(***************************************************************************)
(* A token transfer that the balance allows keeps every balance natural.   *)
(***************************************************************************)
LEMMA TransferType ==
  ASSUME token \in [Accounts -> Nat], NEW from \in Accounts, NEW to \in Accounts,
         NEW amount \in Nat, CanTransfer(from, amount), Transfer(from, to, amount)
  PROVE  token' \in [Accounts -> Nat]
  BY DEF CanTransfer, Transfer

(***************************************************************************)
(* accrue_fee keeps the fee balance within an i128.                        *)
(***************************************************************************)
LEMMA AccrueFeeType ==
  ASSUME fees \in 0 .. MaxI128, NEW fee \in Int, AccrueFee(fee)
  PROVE  fees' \in 0 .. MaxI128
  BY PoolAssumption DEF AccrueFee

(***************************************************************************)
(* The three ways the insertion variables change keep their types.         *)
(***************************************************************************)
LEMMA InsertOneType ==
  ASSUME TypeOK, NEW leaf \in Note, InsertOne(leaf)
  PROVE  /\ tree' \in Tree(Note)
         /\ nextIndex' \in Nat
         /\ knownRoots' \in SUBSET Tree(Note)
         /\ leaves' \in Seq(Note)
  BY InsertLeafType DEF InsertOne, TypeOK

\* The same for the two leaves of a swap.
LEMMA InsertTwoType ==
  ASSUME TypeOK, NEW first \in Note, NEW second \in Note, InsertTwo(first, second)
  PROVE  /\ tree' \in Tree(Note)
         /\ nextIndex' \in Nat
         /\ knownRoots' \in SUBSET Tree(Note)
         /\ leaves' \in Seq(Note)
  <1>1. InsertLeaf(tree, nextIndex, first) \in Tree(Note)
    BY InsertLeafType DEF TypeOK
  <1>2. tree' \in Tree(Note)
    BY <1>1, InsertLeafType DEF InsertTwo, TypeOK
  <1>3. leaves' \in Seq(Note)
    BY DEF InsertTwo, TypeOK
  <1> QED
    BY <1>1, <1>2, <1>3 DEF InsertTwo, TypeOK

(***************************************************************************)
(* Each entrypoint keeps the types.  The commitments it inserts are notes  *)
(* because the circuits range-check the amounts they commit to.            *)
(***************************************************************************)
LEMMA InitializeType ==
  ASSUME TypeOK, Initialize
  PROVE  TypeOK'
  <1>1. EmptyTree \in Tree(Note)
    BY DEF EmptyTree, Tree
  <1> QED
    BY <1>1, PoolAssumption DEF Initialize, TypeOK

\* seed_reserves keeps the types.
LEMMA SeedReservesType ==
  ASSUME TypeOK, NEW yes \in Int, NEW no \in Int, SeedReserves(yes, no)
  PROVE  TypeOK'
  BY DEF SeedReserves, TypeOK

\* set_denied keeps the types.
LEMMA SetDeniedType ==
  ASSUME TypeOK, NEW ref \in Refs, NEW isDenied \in BOOLEAN, SetDenied(ref, isDenied)
  PROVE  TypeOK'
  BY DEF SetDenied, TypeOK

\* withdraw_fees keeps the types: the transfer is covered.
LEMMA WithdrawFeesType ==
  ASSUME TypeOK, NEW to \in Users, WithdrawFees(to)
  PROVE  TypeOK'
  <1>1. /\ Pool \in Accounts /\ to \in Accounts
        /\ fees \in Nat /\ token \in [Accounts -> Nat]
    BY PoolAssumption DEF Accounts, TypeOK
  <1>2. CanTransfer(Pool, fees) /\ Transfer(Pool, to, fees)
    BY DEF WithdrawFees
  <1>3. token' \in [Accounts -> Nat]
    BY <1>1, <1>2, TransferType
  <1> QED
    BY <1>3, PoolAssumption DEF WithdrawFees, TypeOK

\* shield keeps the types: its commitment is a note.
LEMMA ShieldType ==
  ASSUME TypeOK, NEW from \in Users, NEW amount \in Int, NEW ownerPk \in OwnerPks,
         NEW rho \in Rhos, NEW ref \in Refs, Shield(from, amount, ownerPk, rho, ref)
  PROVE  TypeOK'
  <1>1. ShieldCommitment(amount, ownerPk, rho) \in Note
    BY DEF Shield, ShieldConstraints, ShieldCommitment, NoteCommitment, Note, Asset
  <1>2. /\ Pool \in Accounts /\ from \in Accounts
        /\ amount \in Nat /\ token \in [Accounts -> Nat]
    BY DEF Shield, Accounts, TypeOK
  <1>3. CanTransfer(from, amount) /\ Transfer(from, Pool, amount)
    BY DEF Shield
  <1>4. token' \in [Accounts -> Nat]
    BY <1>2, <1>3, TransferType
  <1> QED
    BY <1>1, <1>4, InsertOneType DEF Shield, TypeOK

\* unshield keeps the types: payout and fee stay in range.
LEMMA UnshieldType ==
  ASSUME TypeOK, NEW root, NEW slot \in Slots, NEW sk \in SpendKeys, NEW rho \in Rhos,
         NEW withdrawAmount \in U64, NEW recipient \in Users, NEW fee \in Int,
         NEW lap \in Laps,
         Unshield(root, slot, sk, rho, withdrawAmount, recipient, fee, lap)
  PROVE  TypeOK'
  <1>1. /\ fee \in Int
        /\ withdrawAmount \in Nat
    BY PoolAssumption, MaxU64Assumption DEF U64
  <1>2. /\ nullifiers' \in SUBSET NullifierBytes
        /\ spends' \in Seq(SpendRecord)
    BY DEF Unshield, MarkSpent, UnshieldNullifier, NullifierOf, NullifierSet, TypeOK,
           NoteCommitment, Note, Asset, OwnerPks, SpendRecord, EncodedAs, NullifierBytes
  <1>3. token' \in [Accounts -> Nat]
    <2> DEFINE payout == withdrawAmount - fee
    <2>1. /\ Pool \in Accounts /\ recipient \in Accounts
          /\ token \in [Accounts -> Nat]
          /\ payout \in Int
      BY <1>1 DEF Accounts, TypeOK
    <2>2. \/ /\ payout > 0
             /\ CanTransfer(Pool, payout) /\ Transfer(Pool, recipient, payout)
          \/ UNCHANGED token
      BY DEF Unshield
    <2> HIDE DEF payout
    <2> QED
      BY <2>1, <2>2, TransferType
  <1>4. fees' \in 0 .. MaxI128
    BY <1>1, AccrueFeeType DEF Unshield, TypeOK
  <1> QED
    BY <1>2, <1>3, <1>4 DEF Unshield, TypeOK

(***************************************************************************)
(* What a private_swap proof establishes about the notes it touches: the   *)
(* input note sits in the current tree, the two new ones are notes.        *)
(***************************************************************************)
LEMMA SwapNotes ==
  ASSUME NEW root \in Tree(Note), NEW assetOut, NEW w,
         w.ownerSk \in SpendKeys, w.rhoIn \in Rhos, w.rhoOut \in Rhos,
         w.rhoChange \in Rhos, SwapConstraints(root, assetOut, w)
  PROVE  /\ w.slot \in Slots
         /\ NoteCommitment(COLLATERAL, w.trade.inAmount, OwnerPk(w.ownerSk), w.rhoIn)
              \in Note
         /\ SwapOutCommitment(assetOut, w) \in Note
         /\ SwapChangeCommitment(w) \in Note
  <1>1. /\ w.trade.inAmount \in U64
        /\ w.trade.amountIn \in U64
        /\ w.trade.amountOut \in U64
        /\ w.trade.amountIn <= w.trade.inAmount
    BY DEF SwapConstraints, ExactTrade, TradeValues
  <1>2. w.trade.inAmount - w.trade.amountIn \in U64
    BY <1>1, MaxU64Assumption DEF U64
  <1>3. OwnerPk(w.ownerSk) \in OwnerPks
    BY DEF OwnerPks
  <1>4. w.slot \in Slots /\ assetOut \in {YES, NO}
    BY DEF SwapConstraints, MerkleInclusion
  <1> QED
    BY <1>1, <1>2, <1>3, <1>4
    DEF NoteCommitment, SwapOutCommitment, SwapChangeCommitment, Note, Asset

\* private_swap keeps the types: the reserves after it are 64-bit.
LEMMA PrivateSwapType ==
  ASSUME TypeOK, NEW w, NEW assetOut \in Selectors, NEW fee \in Int, NEW lap \in Laps,
         w.ownerSk \in SpendKeys, w.rhoIn \in Rhos, w.rhoOut \in Rhos,
         w.rhoChange \in Rhos, PrivateSwap(w, assetOut, fee, lap)
  PROVE  TypeOK'
  <1>1. SwapConstraints(tree, assetOut + 1, w) /\ tree \in Tree(Note)
    BY DEF PrivateSwap, TypeOK
  <1>2. /\ w.slot \in Slots
        /\ NoteCommitment(COLLATERAL, w.trade.inAmount, OwnerPk(w.ownerSk), w.rhoIn)
             \in Note
        /\ SwapOutCommitment(assetOut + 1, w) \in Note
        /\ SwapChangeCommitment(w) \in Note
    BY <1>1, SwapNotes
  <1>3. InsertTwo(SwapOutCommitment(assetOut + 1, w), SwapChangeCommitment(w))
    BY DEF PrivateSwap
  <1>4. /\ tree' \in Tree(Note)
        /\ nextIndex' \in Nat
        /\ knownRoots' \in SUBSET Tree(Note)
        /\ leaves' \in Seq(Note)
    BY <1>2, <1>3, InsertTwoType
  <1>5. /\ nullifiers' \in SUBSET NullifierBytes
        /\ spends' \in Seq(SpendRecord)
    BY <1>2 DEF PrivateSwap, MarkSpent, SwapNullifier, NullifierOf, NullifierSet,
                TypeOK, SpendRecord, EncodedAs, NullifierBytes
  <1>6. fees' \in 0 .. MaxI128
    BY AccrueFeeType, PoolAssumption DEF PrivateSwap, TypeOK
  <1>7. w.trade.reserveInAfter \in Nat /\ w.trade.reserveOutAfter \in Nat
        /\ w.trade.amountIn \in Nat
    BY <1>1, MaxU64Assumption DEF SwapConstraints, ExactTrade, TradeValues, U64
  <1>8. reserves' \in [Legs -> Nat]
    BY <1>7 DEF PrivateSwap
  <1>9. swappedIn' \in [Legs -> Nat]
    <2>1. swappedIn' = [swappedIn EXCEPT ![InLeg(assetOut)] = @ + w.trade.amountIn]
      BY DEF PrivateSwap
    <2>2. InLeg(assetOut) \in Legs /\ swappedIn \in [Legs -> Nat]
      BY DEF InLeg, Legs, TypeOK
    <2> QED
      BY <1>7, <2>1, <2>2
  <1>10. swapFees' \in Nat
    <2>1. fee \in Int /\ fee >= 0 /\ swapFees \in Nat /\ swapFees' = swapFees + fee
      BY PoolAssumption DEF PrivateSwap, TypeOK
    <2> QED
      BY <2>1
  <1> QED
    BY <1>4, <1>5, <1>6, <1>8, <1>9, <1>10 DEF PrivateSwap, TypeOK

(***************************************************************************)
(* A call of unshield that succeeds: its note is one of a known root.      *)
(***************************************************************************)
LEMMA UnshieldCallWitness ==
  ASSUME TypeOK, UnshieldCall
  PROVE  \E root \in knownRoots, slot \in Slots, sk \in SpendKeys, rho \in Rhos,
            withdrawAmount \in U64, recipient \in Users, fee \in UnshieldFees, lap \in Laps :
           Unshield(root, slot, sk, rho, withdrawAmount, recipient, fee, lap)
  <1>1. PICK root \in knownRoots \cup RootsAhead : \E slot \in Slots, sk \in SpendKeys,
             note \in {root[s] : s \in Slots} \ {Empty}, recipient \in Users,
             fee \in UnshieldFees, lap \in Laps :
               Unshield(root, slot, sk, note.rho, note.amount, recipient, fee, lap)
    BY DEF UnshieldCall
  <1>2. PICK slot \in Slots, sk \in SpendKeys, note \in {root[s] : s \in Slots} \ {Empty},
             recipient \in Users, fee \in UnshieldFees, lap \in Laps :
               Unshield(root, slot, sk, note.rho, note.amount, recipient, fee, lap)
    BY <1>1
  <1>3. root \in knownRoots
    BY <1>2 DEF Unshield
  <1>4. root \in Tree(Note)
    BY <1>3 DEF TypeOK
  <1>5. note \in Note
    BY <1>4 DEF Tree
  <1>6. note.rho \in Rhos /\ note.amount \in U64
    BY <1>5 DEF Note
  <1> QED
    BY <1>2, <1>3, <1>6

(***************************************************************************)
(* A call of private_swap, by the witness that PrivateSwapCall builds.     *)
(***************************************************************************)
LEMMA SwapCallWitness ==
  ASSUME TypeOK, PrivateSwapCall
  PROVE  \E w : \E assetOut \in Selectors, fee \in SwapFees, lap \in Laps :
           /\ w.ownerSk \in SpendKeys /\ w.rhoIn \in Rhos
           /\ w.rhoOut \in Rhos /\ w.rhoChange \in Rhos
           /\ PrivateSwap(w, assetOut, fee, lap)
  <1>1. PICK slot \in {s \in Slots : tree[s] # Empty}, sk \in SpendKeys,
             rhoOut \in Rhos, rhoChange \in Rhos, amountIn \in U64,
             amountOut \in U64, quote \in Quotes, assetOut \in Selectors,
             fee \in SwapFees, lap \in Laps :
               PrivateSwap([ownerSk |-> sk, rhoIn |-> tree[slot].rho, slot |-> slot,
                            rhoOut |-> rhoOut, rhoChange |-> rhoChange,
                            trade |-> Trade(tree[slot].amount, amountIn,
                                            amountOut, quote)],
                           assetOut, fee, lap)
    BY DEF PrivateSwapCall
  <1> DEFINE w == [ownerSk |-> sk, rhoIn |-> tree[slot].rho, slot |-> slot,
                   rhoOut |-> rhoOut, rhoChange |-> rhoChange,
                   trade |-> Trade(tree[slot].amount, amountIn, amountOut, quote)]
  <1>2. tree[slot].rho \in Rhos
    BY DEF TypeOK, Tree, Note
  <1>3. /\ w.ownerSk \in SpendKeys /\ w.rhoIn \in Rhos
        /\ w.rhoOut \in Rhos /\ w.rhoChange \in Rhos
    BY <1>2
  <1>4. PrivateSwap(w, assetOut, fee, lap)
    BY <1>1
  <1> HIDE DEF w
  <1> QED
    BY <1>3, <1>4

\* init has not run: nothing is stored yet.
LEMMA InitType == Init => TypeOK
  <1> SUFFICES ASSUME Init PROVE TypeOK
    OBVIOUS
  <1>1. EmptyTree \in Tree(Note)
    BY DEF EmptyTree, Tree
  <1>2. token \in [Accounts -> Nat]
    BY PoolAssumption DEF Init
  <1>3. leaves \in Seq(Note) /\ spends \in Seq(SpendRecord)
    BY DEF Init
  <1>4. /\ reserves \in [Legs -> Nat] /\ seeded \in [Legs -> Int]
        /\ swappedIn \in [Legs -> Nat] /\ fees \in 0 .. MaxI128
    BY PoolAssumption DEF Init
  <1> QED
    BY <1>1, <1>2, <1>3, <1>4 DEF Init, TypeOK

(***************************************************************************)
(* Type correctness: the pool's storage never leaves its types, whatever   *)
(* is called in whatever order; in particular every leaf and every known   *)
(* root holds well-formed notes only.                                      *)
(***************************************************************************)
THEOREM TypeCorrect == Spec => []TypeOK
  <1>1. Init => TypeOK
    BY InitType
  <1>2. TypeOK /\ [Next]_poolVars => TypeOK'
    <2> SUFFICES ASSUME TypeOK, [Next]_poolVars PROVE TypeOK'
      OBVIOUS
    <2>1. CASE Initialize
      BY <2>1, InitializeType
    <2>2. CASE \E seed \in Seeds : SeedReserves(seed[1], seed[2])
      BY <2>2, SeedReservesType, PoolAssumption
    <2>3. CASE \E ref \in Refs, isDenied \in BOOLEAN : SetDenied(ref, isDenied)
      BY <2>3, SetDeniedType
    <2>4. CASE \E to \in Users : WithdrawFees(to)
      BY <2>4, WithdrawFeesType
    <2>5. CASE ShieldCall
      BY <2>5, ShieldType, PoolAssumption DEF ShieldCall
    <2>6. CASE UnshieldCall
      BY <2>6, UnshieldCallWitness, UnshieldType, PoolAssumption
    <2>7. CASE PrivateSwapCall
      BY <2>7, SwapCallWitness, PrivateSwapType, PoolAssumption
    <2>8. CASE UNCHANGED poolVars
      BY <2>8 DEF poolVars, TypeOK
    <2> QED
      BY <2>1, <2>2, <2>3, <2>4, <2>5, <2>6, <2>7, <2>8 DEF Next
  <1> QED
    BY <1>1, <1>2, PTL DEF Spec

-----------------------------------------------------------------------------
(* No double spend.                                                        *)

(***************************************************************************)
(* Appending leaves forgets none of them.                                  *)
(***************************************************************************)
LEMMA InsertedStays ==
  ASSUME NEW old \in Seq(Note), NEW more \in Seq(Note), NEW leaf, NEW slot,
         Inserted(old, leaf, slot)
  PROVE  Inserted(old \o more, leaf, slot)
  BY DEF Inserted

(***************************************************************************)
(* The leaf appended at index Len(old) is found in the slot of that index. *)
(***************************************************************************)
LEMMA InsertedLast ==
  ASSUME NEW old \in Seq(Note), NEW leaf \in Note
  PROVE  Inserted(Append(old, leaf), leaf, Slot(Len(old)))
  <1>1. /\ Append(old, leaf)[Len(old) + 1] = leaf
        /\ Len(old) + 1 \in DOMAIN Append(old, leaf)
        /\ (Len(old) + 1) - 1 = Len(old)
    OBVIOUS
  <1> QED
    BY <1>1 DEF Inserted

(***************************************************************************)
(* If the slots of a tree are all backed by insertions, so are those of    *)
(* the tree with one leaf more.                                            *)
(***************************************************************************)
LEMMA InsertLeafBacked ==
  ASSUME NEW root \in Tree(Note), NEW old \in Seq(Note), NEW leaf \in Note,
         \A s \in Slots : root[s] # Empty => Inserted(old, root[s], s)
  PROVE  \A s \in Slots : InsertLeaf(root, Len(old), leaf)[s] # Empty
           => Inserted(Append(old, leaf), InsertLeaf(root, Len(old), leaf)[s], s)
  <1> SUFFICES ASSUME NEW s \in Slots,
                      InsertLeaf(root, Len(old), leaf)[s] # Empty
               PROVE  Inserted(Append(old, leaf), InsertLeaf(root, Len(old), leaf)[s], s)
    OBVIOUS
  <1>1. \/ InsertLeaf(root, Len(old), leaf)[s] = root[s]
        \/ s = Slot(Len(old)) /\ InsertLeaf(root, Len(old), leaf)[s] = leaf
    BY InsertLeafSlots
  <1>2. CASE InsertLeaf(root, Len(old), leaf)[s] = root[s]
    <2>1. Inserted(old, root[s], s)
      BY <1>2
    <2>2. Append(old, leaf) = old \o <<leaf>> /\ <<leaf>> \in Seq(Note)
      OBVIOUS
    <2> QED
      BY <1>2, <2>1, <2>2, InsertedStays
  <1> QED
    BY <1>1, <1>2, InsertedLast

(***************************************************************************)
(* What a nullifier written with some laps is.                             *)
(***************************************************************************)
LEMMA EncodedType ==
  ASSUME NEW sk \in SpendKeys, NEW rho \in Rhos, NEW slot \in Slots, NEW lap \in Laps
  PROVE  LET nullifier == EncodedAs(NullifierOf(sk, rho, slot), lap) IN
         /\ nullifier \in NullifierBytes
         /\ nullifier.scalar = NullifierOf(sk, rho, slot)
         /\ nullifier.lap = lap
  BY DEF EncodedAs, NullifierOf, NullifierSet, NullifierBytes

\* What the record of a spend holds.
LEMMA RecordParts ==
  ASSUME NEW records \in Seq(SpendRecord), NEW n \in DOMAIN records
  PROVE  records[n].note \in Note /\ records[n].nullifier \in NullifierBytes
  <1>1. records[n] \in SpendRecord
    OBVIOUS
  <1> QED
    BY <1>1 DEF SpendRecord

(***************************************************************************)
(* A spend whose nullifier bytes are new and whose leaf was inserted keeps *)
(* the part of SpendInv about spends.                                      *)
(***************************************************************************)
LEMMA MarkSpentKeeps ==
  ASSUME TypeOK, SpendInv, NEW sk \in SpendKeys, NEW note \in Note, NEW slot \in Slots,
         note.ownerPk = OwnerPk(sk),
         Inserted(leaves, note, slot),
         NEW nullifier \in NullifierBytes,
         nullifier.scalar = NullifierOf(sk, note.rho, slot),
         nullifier \notin nullifiers,
         MarkSpent(nullifier, note, slot)
  PROVE  /\ \A n \in DOMAIN spends' :
               Inserted(leaves, spends'[n].note, spends'[n].slot)
         /\ \A n \in DOMAIN spends' : \E k \in SpendKeys :
               /\ spends'[n].note.ownerPk = OwnerPk(k)
               /\ spends'[n].nullifier.scalar
                    = NullifierOf(k, spends'[n].note.rho, spends'[n].slot)
         /\ nullifiers' = {spends'[n].nullifier : n \in DOMAIN spends'}
         /\ \A m, n \in DOMAIN spends' :
               m # n => spends'[m].nullifier # spends'[n].nullifier
  <1> DEFINE new == [note |-> note, slot |-> slot, nullifier |-> nullifier]
             last == Len(spends) + 1
  <1>1. /\ spends' = Append(spends, new)
        /\ nullifiers' = nullifiers \cup {nullifier}
    BY DEF MarkSpent
  <1>2. spends \in Seq(SpendRecord) /\ new \in SpendRecord
    BY DEF TypeOK, SpendRecord
  <1>3. /\ DOMAIN spends' = 1 .. last
        /\ spends'[last] = new
        /\ \A n \in DOMAIN spends : spends'[n] = spends[n]
        /\ DOMAIN spends' = DOMAIN spends \cup {last}
        /\ last \notin DOMAIN spends
    BY <1>1, <1>2
  <1>4. new.note = note /\ new.slot = slot /\ new.nullifier = nullifier
    OBVIOUS
  <1> HIDE DEF new, last
  <1>5. /\ nullifiers = {spends[n].nullifier : n \in DOMAIN spends}
        /\ \A n \in DOMAIN spends : spends[n].nullifier # nullifier
    BY DEF SpendInv
  <1>6. \A n \in DOMAIN spends' : Inserted(leaves, spends'[n].note, spends'[n].slot)
    BY <1>3, <1>4 DEF SpendInv
  <1>7. \A n \in DOMAIN spends' : \E k \in SpendKeys :
          /\ spends'[n].note.ownerPk = OwnerPk(k)
          /\ spends'[n].nullifier.scalar
               = NullifierOf(k, spends'[n].note.rho, spends'[n].slot)
    <2> SUFFICES ASSUME NEW n \in DOMAIN spends'
                 PROVE  \E k \in SpendKeys :
                          /\ spends'[n].note.ownerPk = OwnerPk(k)
                          /\ spends'[n].nullifier.scalar
                               = NullifierOf(k, spends'[n].note.rho, spends'[n].slot)
      OBVIOUS
    <2>1. CASE n = last
      BY <1>3, <1>4, <2>1
    <2>2. CASE n \in DOMAIN spends
      BY <1>3, <2>2 DEF SpendInv
    <2> QED
      BY <1>3, <2>1, <2>2
  <1>8. nullifiers' = {spends'[n].nullifier : n \in DOMAIN spends'}
    BY <1>1, <1>3, <1>4, <1>5
  <1>9. \A m, n \in DOMAIN spends' :
          m # n => spends'[m].nullifier # spends'[n].nullifier
    BY <1>3, <1>4, <1>5 DEF SpendInv
  <1> QED
    BY <1>6, <1>7, <1>8, <1>9

(***************************************************************************)
(* The invariant's clause about trees, for one and for two insertions.     *)
(***************************************************************************)
Backed(root, history) ==
    \A s \in Slots : root[s] # Empty => Inserted(history, root[s], s)

\* What backs a root and a spend is not lost when leaves are appended.
LEMMA BackedStays ==
  ASSUME NEW root, NEW old \in Seq(Note), NEW more \in Seq(Note), Backed(root, old)
  PROVE  Backed(root, old \o more)
  BY InsertedStays DEF Backed

\* After one insertion every known root is still backed by leaves.
LEMMA InsertOneBacked ==
  ASSUME TypeOK, SpendInv, NEW leaf \in Note, InsertOne(leaf)
  PROVE  /\ nextIndex' = Len(leaves')
         /\ \A root \in knownRoots' \cup {tree'} : Backed(root, leaves')
         /\ \A l, s : Inserted(leaves, l, s) => Inserted(leaves', l, s)
  <1>1. /\ leaves \in Seq(Note) /\ tree \in Tree(Note)
        /\ nextIndex = Len(leaves)
        /\ \A root \in knownRoots \cup {tree} : Backed(root, leaves)
    BY DEF TypeOK, SpendInv, Backed
  <1>2. leaves' = leaves \o <<leaf>> /\ leaves' = Append(leaves, leaf)
        /\ <<leaf>> \in Seq(Note)
    BY <1>1 DEF InsertOne
  <1>3. Backed(tree', leaves')
    BY <1>1, <1>2, InsertLeafBacked DEF InsertOne, Backed
  <1>4. \A root \in knownRoots : Backed(root, leaves')
    BY <1>1, <1>2, BackedStays
  <1>5. nextIndex' = Len(leaves')
    BY <1>1, <1>2 DEF InsertOne
  <1>6. \A l, s : Inserted(leaves, l, s) => Inserted(leaves', l, s)
    BY <1>1, <1>2, InsertedStays
  <1> QED
    BY <1>3, <1>4, <1>5, <1>6 DEF InsertOne

\* The same after the two insertions of a swap, the root in between included.
LEMMA InsertTwoBacked ==
  ASSUME TypeOK, SpendInv, NEW first \in Note, NEW second \in Note,
         InsertTwo(first, second)
  PROVE  /\ nextIndex' = Len(leaves')
         /\ \A root \in knownRoots' \cup {tree'} : Backed(root, leaves')
         /\ \A l, s : Inserted(leaves, l, s) => Inserted(leaves', l, s)
  <1> DEFINE between == InsertLeaf(tree, nextIndex, first)
             middle == Append(leaves, first)
  <1>1. /\ leaves \in Seq(Note) /\ tree \in Tree(Note)
        /\ nextIndex = Len(leaves) /\ nextIndex \in Nat
        /\ \A root \in knownRoots \cup {tree} : Backed(root, leaves)
    BY DEF TypeOK, SpendInv, Backed
  <1>2. /\ middle \in Seq(Note) /\ Len(middle) = nextIndex + 1
        /\ leaves' = Append(middle, second)
        /\ leaves' = middle \o <<second>> /\ <<second>> \in Seq(Note)
        /\ leaves' = leaves \o <<first, second>> /\ <<first, second>> \in Seq(Note)
        /\ Len(leaves') = nextIndex + 2
    BY <1>1 DEF InsertTwo
  <1>3. between \in Tree(Note) /\ tree' = InsertLeaf(between, nextIndex + 1, second)
        /\ nextIndex' = nextIndex + 2
        /\ knownRoots' = knownRoots \cup {between, tree'}
    BY <1>1, InsertLeafType DEF InsertTwo
  <1>4. Backed(between, middle)
    BY <1>1, InsertLeafBacked DEF Backed
  <1> HIDE DEF between, middle
  <1>5. Backed(tree', leaves')
    BY <1>2, <1>3, <1>4, InsertLeafBacked DEF Backed
  <1>6. Backed(between, leaves')
    BY <1>2, <1>4, BackedStays
  <1>7. \A root \in knownRoots : Backed(root, leaves')
    BY <1>1, <1>2, BackedStays
  <1>8. \A l, s : Inserted(leaves, l, s) => Inserted(leaves', l, s)
    BY <1>1, <1>2, InsertedStays
  <1> QED
    BY <1>2, <1>3, <1>5, <1>6, <1>7, <1>8

-----------------------------------------------------------------------------
(* SpendInv is inductive.                                                  *)

\* An action that touches neither leaves, roots, nullifiers nor spends.
LEMMA SpendInvUntouched ==
  ASSUME SpendInv,
         UNCHANGED <<initialized, tree, nextIndex, knownRoots, nullifiers, leaves, spends>>
  PROVE  SpendInv'
  BY DEF SpendInv, Inserted

\* init: no leaf was inserted before it, so its empty root is backed.
LEMMA InitializeSpendInv ==
  ASSUME TypeOK, SpendInv, Initialize
  PROVE  SpendInv'
  <1>1. leaves = <<>>
    BY DEF Initialize, SpendInv
  <1>2. \A s \in Slots : EmptyTree[s] = Empty
    BY DEF EmptyTree
  <1>3. nextIndex' = Len(leaves')
    BY <1>1 DEF Initialize
  <1>4. UNCHANGED <<leaves, spends, nullifiers>> /\ initialized' = TRUE
        /\ tree' = EmptyTree /\ knownRoots' = knownRoots \cup {EmptyTree}
    BY DEF Initialize
  <1> QED
    BY <1>2, <1>3, <1>4 DEF SpendInv, Inserted

\* shield keeps the strengthened invariant.
LEMMA ShieldSpendInv ==
  ASSUME TypeOK, SpendInv, NEW from \in Users, NEW amount \in Int,
         NEW ownerPk \in OwnerPks, NEW rho \in Rhos, NEW ref \in Refs,
         Shield(from, amount, ownerPk, rho, ref)
  PROVE  SpendInv'
  <1>1. ShieldCommitment(amount, ownerPk, rho) \in Note
    BY DEF Shield, ShieldConstraints, ShieldCommitment, NoteCommitment, Note, Asset
  <1>2. InsertOne(ShieldCommitment(amount, ownerPk, rho))
    BY DEF Shield
  <1>3. /\ nextIndex' = Len(leaves')
        /\ \A root \in knownRoots' \cup {tree'} : Backed(root, leaves')
        /\ \A l, s : Inserted(leaves, l, s) => Inserted(leaves', l, s)
    BY <1>1, <1>2, InsertOneBacked
  <1>4. UNCHANGED <<nullifiers, spends>> /\ initialized' = TRUE
    BY DEF Shield
  <1> QED
    BY <1>3, <1>4 DEF SpendInv, Backed

\* unshield keeps it: the known root backs the note, the new nullifier is fresh.
LEMMA UnshieldSpendInv ==
  ASSUME TypeOK, SpendInv, NEW root, NEW slot \in Slots, NEW sk \in SpendKeys,
         NEW rho \in Rhos, NEW withdrawAmount \in U64, NEW recipient \in Users,
         NEW lap \in Laps, NEW fee \in Int,
         Unshield(root, slot, sk, rho, withdrawAmount, recipient, fee, lap)
  PROVE  SpendInv'
  <1> DEFINE note == NoteCommitment(COLLATERAL, withdrawAmount, OwnerPk(sk), rho)
             nullifier == EncodedAs(NullifierOf(sk, rho, slot), lap)
  <1>1. /\ note \in Note /\ note.ownerPk = OwnerPk(sk) /\ note.rho = rho
    BY DEF NoteCommitment, Note, Asset, OwnerPks
  <1>2. /\ root \in knownRoots /\ root[slot] = note
        /\ nullifier \notin nullifiers
        /\ MarkSpent(nullifier, note, slot)
        /\ nullifier \in NullifierBytes /\ nullifier.scalar = NullifierOf(sk, rho, slot)
    BY EncodedType DEF Unshield, UnshieldConstraints, MerkleInclusion, UnshieldNullifier
  <1> HIDE DEF note, nullifier
  <1>3. Inserted(leaves, note, slot)
    BY <1>1, <1>2, EmptyAssumption DEF SpendInv
  <1>4. /\ \A n \in DOMAIN spends' :
              Inserted(leaves, spends'[n].note, spends'[n].slot)
        /\ \A n \in DOMAIN spends' : \E k \in SpendKeys :
              /\ spends'[n].note.ownerPk = OwnerPk(k)
              /\ spends'[n].nullifier.scalar
                   = NullifierOf(k, spends'[n].note.rho, spends'[n].slot)
        /\ nullifiers' = {spends'[n].nullifier : n \in DOMAIN spends'}
        /\ \A m, n \in DOMAIN spends' :
              m # n => spends'[m].nullifier # spends'[n].nullifier
    BY <1>1, <1>2, <1>3, MarkSpentKeeps
  <1>5. UNCHANGED <<initialized, tree, nextIndex, knownRoots, leaves>>
    BY DEF Unshield
  <1> QED
    BY <1>4, <1>5 DEF SpendInv

\* private_swap keeps it, for its spend and its two insertions.
LEMMA PrivateSwapSpendInv ==
  ASSUME TypeOK, SpendInv, NEW w, NEW assetOut \in Selectors, NEW fee \in Int,
         NEW lap \in Laps,
         w.ownerSk \in SpendKeys, w.rhoIn \in Rhos, w.rhoOut \in Rhos,
         w.rhoChange \in Rhos, PrivateSwap(w, assetOut, fee, lap)
  PROVE  SpendInv'
  <1> DEFINE note == NoteCommitment(COLLATERAL, w.trade.inAmount,
                                    OwnerPk(w.ownerSk), w.rhoIn)
             nullifier == EncodedAs(NullifierOf(w.ownerSk, w.rhoIn, w.slot), lap)
             out == SwapOutCommitment(assetOut + 1, w)
             change == SwapChangeCommitment(w)
  <1>1. SwapConstraints(tree, assetOut + 1, w) /\ tree \in Tree(Note)
    BY DEF PrivateSwap, TypeOK
  <1>2. w.slot \in Slots /\ note \in Note /\ out \in Note /\ change \in Note
    BY <1>1, SwapNotes
  <1>3. note.ownerPk = OwnerPk(w.ownerSk) /\ note.rho = w.rhoIn
    BY DEF NoteCommitment
  <1>4. /\ tree[w.slot] = note
        /\ nullifier \notin nullifiers
        /\ MarkSpent(nullifier, note, w.slot)
        /\ nullifier \in NullifierBytes
        /\ nullifier.scalar = NullifierOf(w.ownerSk, w.rhoIn, w.slot)
        /\ InsertTwo(out, change)
    BY <1>1, <1>2, EncodedType DEF PrivateSwap, SwapConstraints, MerkleInclusion, SwapNullifier
  <1>5. UNCHANGED initialized /\ initialized
    BY DEF PrivateSwap
  <1> HIDE DEF note, nullifier, out, change
  <1>6. Inserted(leaves, note, w.slot)
    BY <1>2, <1>4, EmptyAssumption DEF SpendInv
  <1>7. /\ \A n \in DOMAIN spends' :
              Inserted(leaves, spends'[n].note, spends'[n].slot)
        /\ \A n \in DOMAIN spends' : \E k \in SpendKeys :
              /\ spends'[n].note.ownerPk = OwnerPk(k)
              /\ spends'[n].nullifier.scalar
                   = NullifierOf(k, spends'[n].note.rho, spends'[n].slot)
        /\ nullifiers' = {spends'[n].nullifier : n \in DOMAIN spends'}
        /\ \A m, n \in DOMAIN spends' :
              m # n => spends'[m].nullifier # spends'[n].nullifier
    BY <1>2, <1>3, <1>4, <1>6, MarkSpentKeeps
  <1>8. /\ nextIndex' = Len(leaves')
        /\ \A root \in knownRoots' \cup {tree'} : Backed(root, leaves')
        /\ \A l, s : Inserted(leaves, l, s) => Inserted(leaves', l, s)
    BY <1>2, <1>4, InsertTwoBacked
  <1> QED
    BY <1>5, <1>7, <1>8 DEF SpendInv, Backed

\* Every step keeps the strengthened invariant.
LEMMA SpendInvStep == TypeOK /\ SpendInv /\ [Next]_poolVars => SpendInv'
  <1> SUFFICES ASSUME TypeOK, SpendInv, [Next]_poolVars PROVE SpendInv'
    OBVIOUS
  <1>1. CASE Initialize
    BY <1>1, InitializeSpendInv
  <1>2. CASE \E seed \in Seeds : SeedReserves(seed[1], seed[2])
    BY <1>2, SpendInvUntouched DEF SeedReserves
  <1>3. CASE \E ref \in Refs, isDenied \in BOOLEAN : SetDenied(ref, isDenied)
    BY <1>3, SpendInvUntouched DEF SetDenied
  <1>4. CASE \E to \in Users : WithdrawFees(to)
    BY <1>4, SpendInvUntouched DEF WithdrawFees
  <1>5. CASE ShieldCall
    BY <1>5, ShieldSpendInv, PoolAssumption DEF ShieldCall
  <1>6. CASE UnshieldCall
    BY <1>6, UnshieldCallWitness, UnshieldSpendInv, PoolAssumption
  <1>7. CASE PrivateSwapCall
    BY <1>7, SwapCallWitness, PrivateSwapSpendInv, PoolAssumption
  <1>8. CASE UNCHANGED poolVars
    BY <1>8, SpendInvUntouched DEF poolVars
  <1> QED
    BY <1>1, <1>2, <1>3, <1>4, <1>5, <1>6, <1>7, <1>8 DEF Next

\* The empty tree needs no insertion.
LEMMA InitSpendInv == Init => SpendInv
  <1> SUFFICES ASSUME Init PROVE SpendInv
    OBVIOUS
  <1>1. \A root \in knownRoots \cup {tree}, s \in Slots : root[s] = Empty
    BY DEF Init, EmptyTree
  <1>2. nextIndex = Len(leaves) /\ leaves = <<>> /\ spends = <<>> /\ nullifiers = {}
    BY DEF Init
  <1>3. nullifiers = {spends[n].nullifier : n \in DOMAIN spends}
    BY <1>2
  <1> QED
    BY <1>1, <1>2, <1>3 DEF SpendInv

(***************************************************************************)
(* SpendInv holds in every reachable state, together with the types that   *)
(* its step rests on.                                                      *)
(***************************************************************************)
LEMMA SpendInvAlways == Spec => [](TypeOK /\ SpendInv)
  <1>1. Init => SpendInv
    BY InitSpendInv
  <1>2. TypeOK /\ SpendInv /\ [Next]_poolVars => SpendInv'
    BY SpendInvStep
  <1> QED
    BY <1>1, <1>2, TypeCorrect, PTL DEF Spec

(***************************************************************************)
(* One payout for each encoding: in every run, for every tree size and any *)
(* callers, every unshield or private_swap consumed an inserted leaf that  *)
(* no other spend consumed with a nullifier written in the same way.  The  *)
(* nullifier determines the key, rho and slot, and the bytes are new.      *)
(***************************************************************************)
THEOREM OneSpendPerEncoding == Spec => []SpendsAreBacked
  <1>1. TypeOK /\ SpendInv => SpendsAreBacked
    <2> SUFFICES ASSUME TypeOK, SpendInv PROVE SpendsAreBacked
      OBVIOUS
    <2>1. \A n \in DOMAIN spends : LeavesOf(spends[n]) # {}
      BY DEF SpendInv, LeavesOf, Inserted
    <2>2. ASSUME NEW m \in DOMAIN spends, NEW n \in DOMAIN spends, m # n,
                 spends[m].nullifier.lap = spends[n].nullifier.lap
          PROVE  LeavesOf(spends[m]) \cap LeavesOf(spends[n]) = {}
      <3> SUFFICES ASSUME spends[m].note = spends[n].note,
                          spends[m].slot = spends[n].slot
                   PROVE  FALSE
        BY DEF LeavesOf
      <3>1. /\ spends[m].nullifier \in NullifierBytes
            /\ spends[n].nullifier \in NullifierBytes
        BY RecordParts DEF TypeOK
      <3>2. PICK k \in SpendKeys :
              /\ spends[m].note.ownerPk = OwnerPk(k)
              /\ spends[m].nullifier.scalar
                   = NullifierOf(k, spends[m].note.rho, spends[m].slot)
        BY DEF SpendInv
      <3>3. PICK l \in SpendKeys :
              /\ spends[n].note.ownerPk = OwnerPk(l)
              /\ spends[n].nullifier.scalar
                   = NullifierOf(l, spends[n].note.rho, spends[n].slot)
        BY DEF SpendInv
      <3>4. k = l
        BY <3>2, <3>3 DEF OwnerPk
      <3>5. spends[m].nullifier.scalar = spends[n].nullifier.scalar
        BY <3>2, <3>3, <3>4
      <3>6. spends[m].nullifier = spends[n].nullifier
        BY <2>2, <3>1, <3>5 DEF NullifierBytes
      <3> QED
        BY <2>2, <3>6 DEF SpendInv
    <2> QED
      BY <2>1, <2>2 DEF SpendsAreBacked
  <1> QED
    BY <1>1, SpendInvAlways, PTL

-----------------------------------------------------------------------------
(* Monotonicity.                                                           *)

(***************************************************************************)
(* No step unspends a note, forgets a root or takes back a leaf.  init is  *)
(* the one entrypoint that resets the tree, and it runs only while no leaf *)
(* has been inserted.                                                      *)
(***************************************************************************)
THEOREM NothingIsForgotten == Spec => NothingForgotten
  <1> DEFINE Kept == /\ nullifiers \subseteq nullifiers'
                     /\ knownRoots \subseteq knownRoots'
                     /\ nextIndex <= nextIndex'
  <1>1. TypeOK /\ SpendInv /\ [Next]_poolVars => [Kept]_poolVars
    <2> SUFFICES ASSUME TypeOK, SpendInv, Next PROVE Kept
      OBVIOUS
    <2>0. nextIndex \in Nat
      BY DEF TypeOK
    <2>1. CASE Initialize
      BY <2>0, <2>1 DEF Initialize, SpendInv
    <2>2. CASE \E seed \in Seeds : SeedReserves(seed[1], seed[2])
      BY <2>0, <2>2 DEF SeedReserves
    <2>3. CASE \E ref \in Refs, isDenied \in BOOLEAN : SetDenied(ref, isDenied)
      BY <2>0, <2>3 DEF SetDenied
    <2>4. CASE \E to \in Users : WithdrawFees(to)
      BY <2>0, <2>4 DEF WithdrawFees
    <2>5. CASE ShieldCall
      BY <2>0, <2>5 DEF ShieldCall, Shield, InsertOne
    <2>6. CASE UnshieldCall
      BY <2>0, <2>6 DEF UnshieldCall, Unshield, MarkSpent
    <2>7. CASE PrivateSwapCall
      BY <2>0, <2>7 DEF PrivateSwapCall, PrivateSwap, MarkSpent, InsertTwo
    <2> QED
      BY <2>1, <2>2, <2>3, <2>4, <2>5, <2>6, <2>7 DEF Next
  <1> QED
    BY <1>1, SpendInvAlways, PTL DEF Spec, NothingForgotten


-----------------------------------------------------------------------------
(* Before init.                                                            *)

(***************************************************************************)
(* init is the one entrypoint that sets the fees, the reserves and the tree*)
(* without looking at them; it changes nothing because it runs while the   *)
(* storage is fresh, as every other entrypoint loads the configuration.    *)
(***************************************************************************)
FreshStorage ==
    ~initialized =>
        /\ fees = 0
        /\ reserves = [leg \in Legs |-> 0]
        /\ knownRoots = {}

\* Every other entrypoint is refused before init, so the storage stays fresh.
LEMMA FreshStep == TypeOK /\ FreshStorage /\ [Next]_poolVars => FreshStorage'
  <1> SUFFICES ASSUME TypeOK, FreshStorage, [Next]_poolVars PROVE FreshStorage'
    OBVIOUS
  <1>1. CASE Initialize
    BY <1>1 DEF Initialize, FreshStorage
  <1>2. CASE \E seed \in Seeds : SeedReserves(seed[1], seed[2])
    BY <1>2 DEF SeedReserves, FreshStorage
  <1>3. CASE \E ref \in Refs, isDenied \in BOOLEAN : SetDenied(ref, isDenied)
    BY <1>3 DEF SetDenied, FreshStorage
  <1>4. CASE \E to \in Users : WithdrawFees(to)
    BY <1>4 DEF WithdrawFees, FreshStorage
  <1>5. CASE ShieldCall
    BY <1>5 DEF ShieldCall, Shield, FreshStorage
  <1>6. CASE UnshieldCall
    BY <1>6 DEF UnshieldCall, Unshield, FreshStorage
  <1>7. CASE PrivateSwapCall
    BY <1>7 DEF PrivateSwapCall, PrivateSwap, FreshStorage
  <1>8. CASE UNCHANGED poolVars
    BY <1>8 DEF poolVars, FreshStorage
  <1> QED
    BY <1>1, <1>2, <1>3, <1>4, <1>5, <1>6, <1>7, <1>8 DEF Next

\* The three invariants that the theorems below rest on.
LEMMA FreshAlways == Spec => [](TypeOK /\ SpendInv /\ FreshStorage)
  <1>1. Init => FreshStorage
    BY DEF Init, FreshStorage
  <1> QED
    BY <1>1, FreshStep, SpendInvAlways, PTL DEF Spec

-----------------------------------------------------------------------------
(* The reserves.                                                           *)

(***************************************************************************)
(* What a swap does to the reserves: both pairs within 64 bits, and the    *)
(* product kept, whichever of the two is paid into.                        *)
(***************************************************************************)
LEMMA SwapKeepsProduct ==
  ASSUME TypeOK, NEW w, NEW assetOut \in Selectors, NEW fee \in SwapFees, NEW lap \in Laps,
         PrivateSwap(w, assetOut, fee, lap)
  PROVE  /\ \A leg \in Legs : reserves[leg] \in U64 /\ reserves'[leg] \in U64
         /\ Product' = Product
  <1> DEFINE t == w.trade
  <1>1. /\ t.reserveInBefore \in U64 /\ t.reserveOutBefore \in U64
        /\ t.reserveInAfter \in U64 /\ t.reserveOutAfter \in U64
        /\ t.reserveInBefore * t.reserveOutBefore
             = t.reserveInAfter * t.reserveOutAfter
    BY DEF PrivateSwap, SwapConstraints, ExactTrade, TradeValues
  <1>2. /\ t.reserveInBefore = reserves[InLeg(assetOut)]
        /\ t.reserveOutBefore = reserves[OutLeg(assetOut)]
        /\ reserves' = [leg \in Legs |-> IF leg = InLeg(assetOut)
                                           THEN t.reserveInAfter ELSE t.reserveOutAfter]
    BY DEF PrivateSwap
  <1>3. \/ InLeg(assetOut) = NO /\ OutLeg(assetOut) = YES
        \/ InLeg(assetOut) = YES /\ OutLeg(assetOut) = NO
    BY DEF InLeg, OutLeg
  <1>4. YES # NO /\ Legs = {YES, NO}
    BY DEF YES, NO, Legs
  <1> HIDE DEF t
  <1>5. /\ reserves'[InLeg(assetOut)] = t.reserveInAfter
        /\ reserves'[OutLeg(assetOut)] = t.reserveOutAfter
    BY <1>2, <1>3, <1>4
  <1>6. \A leg \in Legs : reserves[leg] \in U64 /\ reserves'[leg] \in U64
    BY <1>1, <1>2, <1>3, <1>4, <1>5
  <1>7. Product' = Product
    <2>1. \A x, y \in U64 : x * y = y * x
      BY MaxU64Assumption DEF U64
    <2>2. CASE InLeg(assetOut) = NO /\ OutLeg(assetOut) = YES
      <3>1. reserves[YES] * reserves[NO] = t.reserveInBefore * t.reserveOutBefore
        BY <1>1, <1>2, <2>1, <2>2
      <3>2. reserves'[YES] * reserves'[NO] = t.reserveInAfter * t.reserveOutAfter
        BY <1>1, <1>5, <2>1, <2>2
      <3> QED
        BY <1>1, <3>1, <3>2 DEF Product
    <2>3. CASE InLeg(assetOut) = YES /\ OutLeg(assetOut) = NO
      BY <1>1, <1>2, <1>5, <2>3 DEF Product
    <2> QED
      BY <1>3, <2>2, <2>3
  <1> QED
    BY <1>6, <1>7

(***************************************************************************)
(* The reserves move only when the admin seeds them or by a trade within   *)
(* 64 bits that keeps their product, spends one note and inserts two.      *)
(***************************************************************************)
THEOREM ReservesOnlyTrade == Spec => ReservesMoveByTrade
  <1> DEFINE Moves ==
        reserves' # reserves =>
          \/ seeded' # seeded
          \/ /\ \A leg \in Legs : reserves[leg] \in U64 /\ reserves'[leg] \in U64
             /\ Product' = Product
             /\ Len(spends') = Len(spends) + 1
             /\ nextIndex' = nextIndex + 2
  <1>1. TypeOK /\ SpendInv /\ FreshStorage /\ [Next]_poolVars => [Moves]_poolVars
    <2> SUFFICES ASSUME TypeOK, FreshStorage, Next PROVE Moves
      OBVIOUS
    <2>1. CASE Initialize
      BY <2>1 DEF Initialize, FreshStorage
    <2>2. ASSUME NEW yes \in Int, NEW no \in Int, SeedReserves(yes, no)
          PROVE  Moves
      <3>1. /\ reserves \in [Legs -> Nat] /\ seeded \in [Legs -> Int]
            /\ reserves' \in [Legs -> Int]
        BY <2>2 DEF TypeOK, SeedReserves
      <3>2. seeded' = [leg \in Legs |-> seeded[leg] + reserves'[leg] - reserves[leg]]
        BY <2>2 DEF SeedReserves
      <3>3. ASSUME NEW leg \in Legs, reserves'[leg] # reserves[leg]
            PROVE  seeded'[leg] # seeded[leg]
        <4>1. seeded'[leg] = seeded[leg] + reserves'[leg] - reserves[leg]
          BY <3>2
        <4>2. seeded[leg] \in Int /\ reserves[leg] \in Int /\ reserves'[leg] \in Int
          BY <3>1
        <4> QED
          BY <3>3, <4>1, <4>2
      <3>4. reserves' # reserves => \E leg \in Legs : reserves'[leg] # reserves[leg]
        BY <3>1
      <3> QED
        BY <3>3, <3>4
    <2>3. CASE \E ref \in Refs, isDenied \in BOOLEAN : SetDenied(ref, isDenied)
      BY <2>3 DEF SetDenied
    <2>4. CASE \E to \in Users : WithdrawFees(to)
      BY <2>4 DEF WithdrawFees
    <2>5. CASE ShieldCall
      BY <2>5 DEF ShieldCall, Shield
    <2>6. CASE UnshieldCall
      BY <2>6 DEF UnshieldCall, Unshield
    <2>7. CASE PrivateSwapCall
      <3>1. PICK w : \E assetOut \in Selectors, fee \in SwapFees, lap \in Laps :
                         PrivateSwap(w, assetOut, fee, lap)
        BY <2>7, SwapCallWitness
      <3>2. Len(spends') = Len(spends) + 1 /\ nextIndex' = nextIndex + 2
        BY <3>1 DEF PrivateSwap, MarkSpent, InsertTwo, TypeOK
      <3> QED
        BY <3>1, <3>2, SwapKeepsProduct
    <2>8. CASE \E seed \in Seeds : SeedReserves(seed[1], seed[2])
      BY <2>2, <2>8, PoolAssumption
    <2> QED
      BY <2>1, <2>3, <2>4, <2>5, <2>6, <2>7, <2>8 DEF Next
  <1> QED
    BY <1>1, FreshAlways, PTL DEF Spec, ReservesMoveByTrade

-----------------------------------------------------------------------------
(* The known roots.                                                        *)

\* TreeAfter, of any history of insertions.
TreeOf(history, n) ==
    LET start == IF n = 0 THEN 0 ELSE n - 1 - Slot(n - 1) IN
    [s \in Slots |-> IF start + s < n THEN history[start + s + 1] ELSE Empty]

(***************************************************************************)
(* The slot of the next leaf is 0 on a new pass over the tree, and else one*)
(* more than the slot of the last.                                         *)
(***************************************************************************)
LEMMA NextSlot ==
  ASSUME NEW n \in Nat \ {0}, Slot(n) # 0
  PROVE  Slot(n - 1) = Slot(n) - 1
  <1>1. Capacity \in Nat /\ Capacity > 0
    BY CapacityAssumption
  <1> DEFINE q == n \div Capacity
             r == n % Capacity
  <1>2. q \in Int /\ r \in 0 .. Capacity - 1 /\ n = (Capacity * q) + r
    BY <1>1
  <1>3. r > 0
    BY <1>2 DEF Slot
  <1>4. n - 1 = (Capacity * q) + (r - 1) /\ r - 1 \in 0 .. Capacity - 1
    BY <1>1, <1>2, <1>3
  <1>5. \A m \in Nat, k \in Int, d \in 0 .. Capacity - 1 :
           m = (Capacity * k) + d => m % Capacity = d
    BY <1>1
  <1> HIDE DEF q, r
  <1>6. (n - 1) % Capacity = r - 1
    BY <1>2, <1>4, <1>5
  <1> QED
    BY <1>6 DEF Slot, r

(***************************************************************************)
(* merkle::insert of the leaf at index n takes the tree of the first n     *)
(* leaves to that of the first n + 1.                                      *)
(***************************************************************************)
LEMMA InsertLeafIsNextTree ==
  ASSUME NEW history, NEW n \in Nat
  PROVE  InsertLeaf(TreeOf(history, n), n, history[n + 1]) = TreeOf(history, n + 1)
  <1> DEFINE start == IF n = 0 THEN 0 ELSE n - 1 - Slot(n - 1)
             next == n - Slot(n)
  <1>1. Slot(n) \in Nat /\ \A s \in Slots : s \in Nat
    BY SlotType DEF Slots
  <1>2. (n + 1) - 1 = n /\ n + 1 # 0
    OBVIOUS
  <1>3. TreeOf(history, n + 1)
          = [s \in Slots |-> IF next + s < n + 1 THEN history[next + s + 1] ELSE Empty]
    BY <1>2 DEF TreeOf
  <1>4. TreeOf(history, n)
          = [s \in Slots |-> IF start + s < n THEN history[start + s + 1] ELSE Empty]
    BY DEF TreeOf
  <1>5. Slot(n) # 0 => n # 0 /\ start = next
    <2>1. Slot(0) = 0
      BY CapacityAssumption DEF Slot
    <2>2. ASSUME Slot(n) # 0 PROVE n # 0 /\ start = next
      <3>1. n # 0
        BY <2>1, <2>2
      <3>2. Slot(n - 1) = Slot(n) - 1
        BY <2>2, <3>1, NextSlot
      <3>3. n - 1 - (Slot(n) - 1) = n - Slot(n)
        BY <1>1
      <3> QED
        BY <3>1, <3>2, <3>3
    <2> QED
      BY <2>2
  <1> SUFFICES ASSUME NEW s \in Slots
               PROVE  (IF s < Slot(n) THEN TreeOf(history, n)[s]
                       ELSE IF s = Slot(n) THEN history[n + 1] ELSE Empty)
                        = TreeOf(history, n + 1)[s]
    BY <1>3 DEF InsertLeaf
  <1>6. s \in Nat /\ Slot(n) \in Nat /\ next \in Int
    BY <1>1
  <1>7. CASE s < Slot(n)
    <2>1. start = next
      BY <1>5, <1>6, <1>7
    <2>2. next + s < n /\ next + s < n + 1
      BY <1>6, <1>7
    <2> HIDE DEF start, next
    <2> QED
      BY <1>3, <1>4, <1>7, <2>1, <2>2
  <1>8. CASE s = Slot(n)
    <2>1. next + s < n + 1 /\ next + s + 1 = n + 1
      BY <1>6, <1>8
    <2> HIDE DEF start, next
    <2> QED
      BY <1>3, <1>6, <1>8, <2>1
  <1>9. CASE s > Slot(n)
    <2>1. ~(next + s < n + 1)
      BY <1>6, <1>9
    <2> HIDE DEF start, next
    <2> QED
      BY <1>3, <1>6, <1>9, <2>1
  <1> QED
    BY <1>6, <1>7, <1>8, <1>9

(***************************************************************************)
(* Leaves appended later do not change the tree of the first n.            *)
(***************************************************************************)
LEMMA TreeOfPrefix ==
  ASSUME NEW old \in Seq(Note), NEW leaf \in Note, NEW n \in 0 .. Len(old)
  PROVE  TreeOf(Append(old, leaf), n) = TreeOf(old, n)
  <1> DEFINE start == IF n = 0 THEN 0 ELSE n - 1 - Slot(n - 1)
  <1>1. start \in Nat
    <2>1. CASE n = 0
      BY <2>1
    <2>2. CASE n # 0
      <3>1. n - 1 \in Nat
        BY <2>2
      <3>2. Slot(n - 1) \in 0 .. n - 1
        BY <3>1, CapacityAssumption DEF Slot
      <3> QED
        BY <2>2, <3>1, <3>2
    <2> QED
      BY <2>1, <2>2
  <1>2. Slots \subseteq Nat
    BY DEF Slots
  <1> HIDE DEF start
  <1>3. ASSUME NEW s \in Slots, start + s < n
        PROVE  Append(old, leaf)[start + s + 1] = old[start + s + 1]
    BY <1>1, <1>2, <1>3
  <1>4. [s \in Slots |-> IF start + s < n THEN Append(old, leaf)[start + s + 1] ELSE Empty]
          = [s \in Slots |-> IF start + s < n THEN old[start + s + 1] ELSE Empty]
    BY <1>3
  <1> QED
    BY <1>4 DEF TreeOf, start

(***************************************************************************)
(* One insertion: the tree of the longer history, and its roots are those  *)
(* of the shorter one and the new tree.                                    *)
(***************************************************************************)
RootsOf(history) == {TreeOf(history, n) : n \in 0 .. Len(history)}

LEMMA OneMoreRoot ==
  ASSUME NEW old \in Seq(Note), NEW leaf \in Note
  PROVE  LET new == InsertLeaf(TreeOf(old, Len(old)), Len(old), leaf) IN
         /\ TreeOf(Append(old, leaf), Len(old) + 1) = new
         /\ RootsOf(Append(old, leaf)) = RootsOf(old) \cup {new}
  <1> DEFINE new == InsertLeaf(TreeOf(old, Len(old)), Len(old), leaf)
             history == Append(old, leaf)
  <1>1. /\ Len(history) = Len(old) + 1 /\ Len(old) \in Nat
        /\ history[Len(old) + 1] = leaf
    OBVIOUS
  <1>2. \A n \in 0 .. Len(old) : TreeOf(history, n) = TreeOf(old, n)
    BY TreeOfPrefix
  <1> HIDE DEF history
  <1>3. TreeOf(history, Len(old) + 1) = new
    <2>1. InsertLeaf(TreeOf(history, Len(old)), Len(old), history[Len(old) + 1])
            = TreeOf(history, Len(old) + 1)
      BY <1>1, InsertLeafIsNextTree
    <2>2. TreeOf(history, Len(old)) = TreeOf(old, Len(old))
      BY <1>1, <1>2
    <2> QED
      BY <1>1, <2>1, <2>2
  <1>4. 0 .. Len(history) = (0 .. Len(old)) \cup {Len(old) + 1}
    BY <1>1
  <1>5. RootsOf(history) = {TreeOf(history, n) : n \in 0 .. Len(old)} \cup {new}
    BY <1>3, <1>4 DEF RootsOf
  <1>6. {TreeOf(history, n) : n \in 0 .. Len(old)} = RootsOf(old)
    BY <1>2 DEF RootsOf
  <1> QED
    BY <1>3, <1>5, <1>6 DEF history

\* The empty tree is that of no insertion.
LEMMA NoLeaves == TreeOf(<<>>, 0) = EmptyTree
  <1>1. \A s \in Slots : ~(0 + s < 0)
    BY DEF Slots
  <1>2. TreeOf(<<>>, 0) = [s \in Slots |-> IF 0 + s < 0 THEN <<>>[0 + s + 1] ELSE Empty]
    BY DEF TreeOf
  <1> QED
    BY <1>1, <1>2 DEF EmptyTree

\* One step keeps the known roots the history of the insertions.
LEMMA RootsStep == TypeOK /\ SpendInv /\ FreshStorage /\ RootsAreHistory /\ [Next]_poolVars
                     => RootsAreHistory'
  <1> DEFINE Form == initialized =>
                       /\ nextIndex = Len(leaves)
                       /\ tree = TreeOf(leaves, nextIndex)
                       /\ knownRoots = RootsOf(leaves)
  <1>0. (RootsAreHistory <=> Form) /\ (RootsAreHistory' <=> Form')
    <2>1. RootsAreHistory <=> Form
      BY DEF RootsAreHistory, TreeAfter, TreeOf, RootsOf
    <2>2. RootsAreHistory' <=> Form'
      BY DEF RootsAreHistory, TreeAfter, TreeOf, RootsOf
    <2> QED
      BY <2>1, <2>2
  <1> SUFFICES ASSUME TypeOK, SpendInv, FreshStorage, Form, [Next]_poolVars PROVE Form'
    BY <1>0
  <1>1. CASE Initialize
    <2>1. leaves = <<>> /\ leaves' = <<>> /\ knownRoots = {}
      BY <1>1 DEF Initialize, SpendInv, FreshStorage
    <2>2. nextIndex' = 0 /\ tree' = EmptyTree /\ knownRoots' = {EmptyTree}
      BY <1>1, <2>1 DEF Initialize
    <2>3. Len(leaves') = 0
      BY <2>1
    <2>4. RootsOf(leaves') = {EmptyTree}
      BY <2>1, <2>3, NoLeaves DEF RootsOf
    <2> QED
      BY <2>1, <2>2, <2>3, <2>4, NoLeaves
  <1>2. ASSUME UNCHANGED <<initialized, tree, nextIndex, knownRoots, leaves>>
        PROVE  Form'
    BY <1>2 DEF RootsOf
  <1>3. ASSUME NEW leaf \in Note, initialized, initialized' = TRUE, InsertOne(leaf)
        PROVE  Form'
    <2>1. /\ leaves \in Seq(Note) /\ nextIndex = Len(leaves) /\ Len(leaves) \in Nat
          /\ tree = TreeOf(leaves, Len(leaves)) /\ knownRoots = RootsOf(leaves)
          /\ leaves' = Append(leaves, leaf) /\ nextIndex' = nextIndex + 1
          /\ tree' = InsertLeaf(tree, nextIndex, leaf)
          /\ knownRoots' = knownRoots \cup {tree'}
      BY <1>3 DEF InsertOne, TypeOK
    <2>2. Len(leaves') = nextIndex'
      BY <2>1
    <2> QED
      BY <2>1, <2>2, OneMoreRoot
  <1>4. ASSUME NEW first \in Note, NEW second \in Note,
               initialized, initialized' = TRUE, InsertTwo(first, second)
        PROVE  Form'
    <2> DEFINE middle == Append(leaves, first)
               between == InsertLeaf(tree, nextIndex, first)
    <2>1. /\ leaves \in Seq(Note) /\ nextIndex = Len(leaves) /\ Len(leaves) \in Nat
          /\ tree = TreeOf(leaves, Len(leaves)) /\ knownRoots = RootsOf(leaves)
          /\ leaves' = leaves \o <<first, second>> /\ nextIndex' = nextIndex + 2
          /\ tree' = InsertLeaf(between, nextIndex + 1, second)
          /\ knownRoots' = knownRoots \cup {between, tree'}
      BY <1>4 DEF InsertTwo, TypeOK
    <2>2. middle \in Seq(Note) /\ Len(middle) = Len(leaves) + 1
      BY <2>1
    <2>3. leaves' = Append(middle, second)
      BY <2>1
    <2>4. TreeOf(middle, Len(middle)) = between /\ RootsOf(middle) = knownRoots \cup {between}
      BY <2>1, <2>2, OneMoreRoot
    <2> HIDE DEF middle, between
    <2>5. tree' = InsertLeaf(TreeOf(middle, Len(middle)), Len(middle), second)
      BY <2>1, <2>2, <2>4
    <2>6. /\ TreeOf(leaves', Len(middle) + 1) = tree'
          /\ RootsOf(leaves') = RootsOf(middle) \cup {tree'}
      BY <2>2, <2>3, <2>5, OneMoreRoot
    <2>7. Len(leaves') = Len(middle) + 1 /\ nextIndex' = Len(middle) + 1
      BY <2>1, <2>2, <2>3
    <2> QED
      BY <2>1, <2>4, <2>6, <2>7
  <1> HIDE DEF Form
  <1>5. CASE ShieldCall
    <2>1. PICK from \in Users, amount \in Amounts, ownerPk \in OwnerPks,
               rho \in Rhos, ref \in Refs : Shield(from, amount, ownerPk, rho, ref)
      BY <1>5 DEF ShieldCall
    <2>2. ShieldCommitment(amount, ownerPk, rho) \in Note
      BY <2>1 DEF Shield, ShieldConstraints, ShieldCommitment, NoteCommitment, Note, Asset
    <2> QED
      BY <1>3, <2>1, <2>2 DEF Shield
  <1>6. CASE PrivateSwapCall
    <2>1. PICK w : \E assetOut \in Selectors, fee \in SwapFees, lap \in Laps :
                     /\ w.ownerSk \in SpendKeys /\ w.rhoIn \in Rhos
                     /\ w.rhoOut \in Rhos /\ w.rhoChange \in Rhos
                     /\ PrivateSwap(w, assetOut, fee, lap)
      BY <1>6, SwapCallWitness
    <2>2. PICK assetOut \in Selectors, fee \in SwapFees, lap \in Laps :
               PrivateSwap(w, assetOut, fee, lap)
      BY <2>1
    <2>3. SwapConstraints(tree, assetOut + 1, w) /\ tree \in Tree(Note)
      BY <2>2 DEF PrivateSwap, TypeOK
    <2>4. SwapOutCommitment(assetOut + 1, w) \in Note /\ SwapChangeCommitment(w) \in Note
      BY <2>1, <2>3, SwapNotes
    <2>5. /\ initialized /\ initialized' = TRUE
          /\ InsertTwo(SwapOutCommitment(assetOut + 1, w), SwapChangeCommitment(w))
      BY <2>2 DEF PrivateSwap
    <2> QED
      BY <1>4, <2>4, <2>5
  <1>7. CASE UnshieldCall
    BY <1>2, <1>7 DEF UnshieldCall, Unshield
  <1>8. CASE \E to \in Users : WithdrawFees(to)
    BY <1>2, <1>8 DEF WithdrawFees
  <1>9. CASE \E seed \in Seeds : SeedReserves(seed[1], seed[2])
    BY <1>2, <1>9 DEF SeedReserves
  <1>10. CASE \E ref \in Refs, isDenied \in BOOLEAN : SetDenied(ref, isDenied)
    BY <1>2, <1>10 DEF SetDenied
  <1>11. CASE UNCHANGED poolVars
    BY <1>2, <1>11 DEF poolVars
  <1> QED
    BY <1>1, <1>5, <1>6, <1>7, <1>8, <1>9, <1>10, <1>11 DEF Next

(***************************************************************************)
(* The known roots are those of every prefix of the insertions and no      *)
(* other, and the current one is the last: for every capacity, also after  *)
(* the tree has been filled many times over.                               *)
(***************************************************************************)
THEOREM RootsAlwaysHistory == Spec => []RootsAreHistory
  <1>1. Init => RootsAreHistory
    BY DEF Init, RootsAreHistory
  <1> QED
    BY <1>1, RootsStep, FreshAlways, PTL DEF Spec

-----------------------------------------------------------------------------
(* The abstract ledger.  Whatever trees, known roots and nullifiers do,    *)
(* notes come from deposits and exchanges, each claim on them is honoured  *)
(* once, and nothing else moves the tokens.                                *)

\* An entry of the ledger: a note and the slot it is in.
EntryOf(note, slot) == [note |-> note, slot |-> slot]

\* The entries that a history of insertions minted, and the claims that spends used.
Minted(history) == {EntryOf(history[i], Slot(i - 1)) : i \in DOMAIN history}
Spent(records) ==
    {[entry |-> EntryOf(records[n].note, records[n].slot),
      claim |-> records[n].nullifier.lap] : n \in DOMAIN records}

(***************************************************************************)
(* One insertion mints one entry.                                          *)
(***************************************************************************)
LEMMA MintedAppend ==
  ASSUME NEW old \in Seq(Note), NEW leaf \in Note
  PROVE  Minted(Append(old, leaf)) = Minted(old) \cup {EntryOf(leaf, Slot(Len(old)))}
  <1> DEFINE new == Append(old, leaf)
             last == Len(old) + 1
  <1>1. /\ DOMAIN new = DOMAIN old \cup {last}
        /\ \A i \in DOMAIN old : new[i] = old[i]
        /\ new[last] = leaf /\ last - 1 = Len(old)
    OBVIOUS
  <1> HIDE DEF new, last
  <1>2. Minted(new) = {EntryOf(new[i], Slot(i - 1)) : i \in DOMAIN old}
                        \cup {EntryOf(new[last], Slot(last - 1))}
    BY <1>1 DEF Minted
  <1> QED
    BY <1>1, <1>2 DEF Minted, new

\* The two insertions of a swap mint two.
LEMMA MintedTwo ==
  ASSUME NEW old \in Seq(Note), NEW first \in Note, NEW second \in Note
  PROVE  Minted(old \o <<first, second>>)
           = Minted(old) \cup {EntryOf(first, Slot(Len(old))),
                               EntryOf(second, Slot(Len(old) + 1))}
  <1>1. /\ Append(old, first) \in Seq(Note)
        /\ Len(Append(old, first)) = Len(old) + 1
        /\ old \o <<first, second>> = Append(Append(old, first), second)
    OBVIOUS
  <1>2. Minted(Append(old, first)) = Minted(old) \cup {EntryOf(first, Slot(Len(old)))}
    BY MintedAppend
  <1>3. Minted(Append(Append(old, first), second))
          = Minted(Append(old, first)) \cup {EntryOf(second, Slot(Len(old) + 1))}
    BY <1>1, MintedAppend
  <1> QED
    BY <1>1, <1>2, <1>3

(***************************************************************************)
(* A spend of an inserted note whose nullifier bytes are new uses a claim  *)
(* on a minted entry that is still open.                                   *)
(***************************************************************************)
LEMMA SpendsOpenClaim ==
  ASSUME TypeOK, SpendInv, NEW sk \in SpendKeys, NEW note \in Note, NEW slot \in Slots,
         note.ownerPk = OwnerPk(sk),
         Inserted(leaves, note, slot),
         NEW nullifier \in NullifierBytes,
         nullifier.scalar = NullifierOf(sk, note.rho, slot),
         nullifier \notin nullifiers,
         MarkSpent(nullifier, note, slot)
  PROVE  LET e == EntryOf(note, slot)
             claimed == [entry |-> e, claim |-> nullifier.lap] IN
         /\ e \in Minted(leaves)
         /\ claimed \notin Spent(spends)
         /\ Spent(spends') = Spent(spends) \cup {claimed}
  <1> DEFINE e == EntryOf(note, slot)
             claimed == [entry |-> e, claim |-> nullifier.lap]
             new == [note |-> note, slot |-> slot, nullifier |-> nullifier]
             last == Len(spends) + 1
  <1>1. /\ spends \in Seq(SpendRecord) /\ new \in SpendRecord
        /\ spends' = Append(spends, new)
        /\ new.note = note /\ new.slot = slot /\ new.nullifier = nullifier
    BY DEF TypeOK, MarkSpent, SpendRecord
  <1>2. e \in Minted(leaves)
    BY DEF Inserted, Minted
  <1>3. claimed \notin Spent(spends)
    <2> SUFFICES ASSUME NEW n \in DOMAIN spends,
                        claimed = [entry |-> EntryOf(spends[n].note, spends[n].slot),
                                   claim |-> spends[n].nullifier.lap]
                 PROVE  FALSE
      BY DEF Spent
    <2>1. /\ claimed.entry = EntryOf(spends[n].note, spends[n].slot)
          /\ claimed.claim = spends[n].nullifier.lap
          /\ claimed.entry = EntryOf(note, slot) /\ claimed.claim = nullifier.lap
      OBVIOUS
    <2>2. /\ spends[n].note = note /\ spends[n].slot = slot
          /\ spends[n].nullifier.lap = nullifier.lap
      BY <2>1 DEF EntryOf
    <2>3. PICK k \in SpendKeys :
            /\ spends[n].note.ownerPk = OwnerPk(k)
            /\ spends[n].nullifier.scalar
                 = NullifierOf(k, spends[n].note.rho, spends[n].slot)
      BY DEF SpendInv
    <2>4. k = sk
      BY <2>2, <2>3 DEF OwnerPk
    <2>5. spends[n].nullifier \in NullifierBytes
      BY <1>1, RecordParts
    <2>6. spends[n].nullifier = nullifier
      BY <2>2, <2>3, <2>4, <2>5 DEF NullifierBytes
    <2> QED
      BY <2>6 DEF SpendInv
  <1>4. /\ DOMAIN spends' = DOMAIN spends \cup {last}
        /\ \A n \in DOMAIN spends : spends'[n] = spends[n]
        /\ spends'[last] = new
    BY <1>1
  <1> HIDE DEF last, new
  <1>5. Spent(spends') = Spent(spends) \cup {claimed}
    BY <1>1, <1>4 DEF Spent
  <1> QED
    BY <1>2, <1>3, <1>5

-----------------------------------------------------------------------------
(* Each entrypoint as a step of the ledger.                                *)

\* What the ledger sees of the pool.
LEMMA Mapping ==
  /\ Minted(leaves) = {[note |-> leaves[i], slot |-> Slot(i - 1)] : i \in DOMAIN leaves}
  /\ Spent(spends)
       = {[entry |-> [note |-> spends[n].note, slot |-> spends[n].slot],
           claim |-> spends[n].nullifier.lap] : n \in DOMAIN spends}
  BY DEF Minted, Spent, EntryOf

\* The same of the state after a step.
LEMMA MappingNext ==
  /\ Minted(leaves')
       = {[note |-> leaves'[i], slot |-> Slot(i - 1)] : i \in DOMAIN leaves'}
  /\ Spent(spends')
       = {[entry |-> [note |-> spends'[n].note, slot |-> spends'[n].slot],
           claim |-> spends'[n].nullifier.lap] : n \in DOMAIN spends'}
  BY DEF Minted, Spent, EntryOf

\* A step that leaves the mapped state alone is a stutter.
LEMMA Stutter ==
  ASSUME UNCHANGED <<leaves, spends, token, fees>>
  PROVE  UNCHANGED Promised!ledgerVars
  BY DEF Promised!ledgerVars

\* withdraw_fees pays out what was accrued.
LEMMA WithdrawFeesPays ==
  ASSUME TypeOK, NEW to \in Users, WithdrawFees(to)
  PROVE  Promised!PayAccrued
  <1>1. /\ fees > 0 /\ fees' = 0 /\ UNCHANGED <<leaves, spends>>
        /\ Transfer(Pool, to, fees)
    BY DEF WithdrawFees
  <1>2. /\ Pool \in Accounts /\ Pool # to
        /\ token[Pool] \in Int /\ fees \in Int
    BY PoolAssumption DEF Accounts, TypeOK
  <1>3. token'[Pool] = token[Pool] - fees
    BY <1>1, <1>2 DEF Transfer
  <1> QED
    BY <1>1, <1>3 DEF Promised!PayAccrued

\* shield deposits.
LEMMA ShieldDeposits ==
  ASSUME TypeOK, SpendInv, NEW from \in Users, NEW amount \in Int,
         NEW ownerPk \in OwnerPks, NEW rho \in Rhos, NEW ref \in Refs,
         Shield(from, amount, ownerPk, rho, ref)
  PROVE  Promised!Deposit
  <1> DEFINE note == ShieldCommitment(amount, ownerPk, rho)
             e == EntryOf(note, Slot(nextIndex))
  <1>1. /\ note \in Note /\ note.asset = COLLATERAL /\ note.amount = amount
        /\ amount > 0
    BY DEF Shield, ShieldConstraints, ShieldCommitment, NoteCommitment, Note, Asset
  <1>2. /\ leaves' = Append(leaves, note) /\ UNCHANGED <<spends, fees>>
        /\ Transfer(from, Pool, amount)
    BY DEF Shield, InsertOne
  <1>3. /\ leaves \in Seq(Note) /\ nextIndex = Len(leaves) /\ nextIndex \in Nat
    BY DEF TypeOK, SpendInv
  <1>4. Pool \in Accounts /\ Pool # from /\ token[Pool] \in Int
    BY PoolAssumption DEF Accounts, TypeOK
  <1>5. token'[Pool] = token[Pool] + amount
    BY <1>2, <1>4 DEF Transfer
  <1> HIDE DEF note
  <1>6. Minted(leaves') = Minted(leaves) \cup {e}
    BY <1>1, <1>2, <1>3, MintedAppend
  <1>7. e \in [note : Note, slot : Slots] /\ e.note = note
    BY <1>1, <1>3, SlotType DEF EntryOf
  <1> HIDE DEF e
  <1> QED
    BY <1>1, <1>2, <1>5, <1>6, <1>7, Mapping, MappingNext DEF Promised!Deposit

\* unshield honours an open claim on a note, less the fee.
LEMMA UnshieldWithdraws ==
  ASSUME TypeOK, SpendInv, NEW root, NEW slot \in Slots, NEW sk \in SpendKeys,
         NEW rho \in Rhos, NEW withdrawAmount \in U64, NEW recipient \in Users,
         NEW lap \in Laps, NEW fee \in UnshieldFees,
         Unshield(root, slot, sk, rho, withdrawAmount, recipient, fee, lap)
  PROVE  Promised!Withdraw
  <1> DEFINE note == NoteCommitment(COLLATERAL, withdrawAmount, OwnerPk(sk), rho)
             nullifier == EncodedAs(NullifierOf(sk, rho, slot), lap)
             e == EntryOf(note, slot)
             payout == withdrawAmount - fee
  <1>1. /\ note \in Note /\ note.ownerPk = OwnerPk(sk) /\ note.rho = rho
        /\ note.asset = COLLATERAL /\ note.amount = withdrawAmount
    BY DEF NoteCommitment, Note, Asset, OwnerPks
  <1>2. /\ root \in knownRoots /\ root[slot] = note
        /\ nullifier \notin nullifiers
        /\ MarkSpent(nullifier, note, slot)
        /\ nullifier \in NullifierBytes /\ nullifier.scalar = NullifierOf(sk, rho, slot)
        /\ nullifier.lap = lap
        /\ UNCHANGED leaves
    BY EncodedType DEF Unshield, UnshieldConstraints, MerkleInclusion, UnshieldNullifier
  <1>3. /\ withdrawAmount \in Int /\ fee \in Int /\ fees \in Int
        /\ 0 <= fee /\ fee <= withdrawAmount
    BY PoolAssumption, MaxU64Assumption DEF Unshield, U64, TypeOK
  <1>4. \/ payout > 0 /\ Transfer(Pool, recipient, payout)
        \/ ~(payout > 0) /\ UNCHANGED token
    BY DEF Unshield
  <1>5. fees' = IF fee > 0 THEN fees + fee ELSE fees
    BY DEF Unshield, AccrueFee
  <1>6. Pool \in Accounts /\ Pool # recipient /\ token[Pool] \in Int
    BY PoolAssumption DEF Accounts, TypeOK
  <1>7. token'[Pool] = token[Pool] - payout
    <2>1. payout \in Int
      BY <1>3
    <2>2. CASE payout > 0 /\ Transfer(Pool, recipient, payout)
      <3> HIDE DEF payout
      <3> QED
        BY <1>6, <2>1, <2>2 DEF Transfer
    <2>3. CASE ~(payout > 0) /\ UNCHANGED token
      <3>1. payout = 0
        BY <1>3, <2>3
      <3> HIDE DEF payout
      <3> QED
        BY <1>6, <2>3, <3>1
    <2> QED
      BY <1>4, <2>2, <2>3
  <1>8. /\ fees <= fees' /\ fees' <= fees + withdrawAmount
        /\ token'[Pool] = token[Pool] - (withdrawAmount - (fees' - fees))
    BY <1>3, <1>5, <1>6, <1>7
  <1> HIDE DEF note, nullifier
  <1>9. Inserted(leaves, note, slot)
    BY <1>1, <1>2, EmptyAssumption DEF SpendInv
  <1>10. /\ e \in Minted(leaves)
         /\ [entry |-> e, claim |-> lap] \notin Spent(spends)
         /\ Spent(spends') = Spent(spends) \cup {[entry |-> e, claim |-> lap]}
    BY <1>1, <1>2, <1>9, SpendsOpenClaim
  <1>11. e.note = note
    BY DEF EntryOf
  <1> HIDE DEF e, payout
  <1>12. UNCHANGED {[note |-> leaves[i], slot |-> Slot(i - 1)] : i \in DOMAIN leaves}
    BY <1>2
  <1> QED
    BY <1>1, <1>8, <1>10, <1>11, <1>12, Mapping, MappingNext
    DEF Promised!Withdraw, Promised!Open, Promised!Honour

\* private_swap honours one against a position and its change.
LEMMA PrivateSwapExchanges ==
  ASSUME TypeOK, SpendInv, NEW w, NEW assetOut \in Selectors, NEW fee \in SwapFees,
         NEW lap \in Laps,
         w.ownerSk \in SpendKeys, w.rhoIn \in Rhos, w.rhoOut \in Rhos,
         w.rhoChange \in Rhos, PrivateSwap(w, assetOut, fee, lap)
  PROVE  Promised!Exchange
  <1> DEFINE note == NoteCommitment(COLLATERAL, w.trade.inAmount,
                                    OwnerPk(w.ownerSk), w.rhoIn)
             nullifier == EncodedAs(NullifierOf(w.ownerSk, w.rhoIn, w.slot), lap)
             out == SwapOutCommitment(assetOut + 1, w)
             change == SwapChangeCommitment(w)
             e == EntryOf(note, w.slot)
             position == EntryOf(out, Slot(nextIndex))
             rest == EntryOf(change, Slot(nextIndex + 1))
  <1>1. SwapConstraints(tree, assetOut + 1, w) /\ tree \in Tree(Note)
    BY DEF PrivateSwap, TypeOK
  <1>2. w.slot \in Slots /\ note \in Note /\ out \in Note /\ change \in Note
    BY <1>1, SwapNotes
  <1>3. /\ note.ownerPk = OwnerPk(w.ownerSk) /\ note.rho = w.rhoIn
        /\ note.asset = COLLATERAL /\ change.asset = COLLATERAL
        /\ out.asset \in Legs
    BY <1>1 DEF NoteCommitment, SwapOutCommitment, SwapChangeCommitment,
                SwapConstraints, Legs
  <1>4. change.amount <= note.amount
    <2>1. w.trade.inAmount \in U64 /\ w.trade.amountIn \in U64
      BY <1>1 DEF SwapConstraints, ExactTrade, TradeValues
    <2> QED
      BY <2>1, MaxU64Assumption DEF U64, NoteCommitment, SwapChangeCommitment
  <1>5. /\ tree[w.slot] = note
        /\ nullifier \notin nullifiers
        /\ MarkSpent(nullifier, note, w.slot)
        /\ nullifier \in NullifierBytes /\ nullifier.lap = lap
        /\ nullifier.scalar = NullifierOf(w.ownerSk, w.rhoIn, w.slot)
        /\ leaves' = leaves \o <<out, change>>
        /\ UNCHANGED token
    BY <1>1, <1>2, EncodedType
    DEF PrivateSwap, SwapConstraints, MerkleInclusion, SwapNullifier, InsertTwo
  <1>6. fees <= fees'
    BY PoolAssumption DEF PrivateSwap, AccrueFee, TypeOK
  <1> HIDE DEF note, nullifier, out, change
  <1>7. Inserted(leaves, note, w.slot)
    BY <1>2, <1>5, EmptyAssumption DEF SpendInv
  <1>8. /\ e \in Minted(leaves)
        /\ [entry |-> e, claim |-> lap] \notin Spent(spends)
        /\ Spent(spends') = Spent(spends) \cup {[entry |-> e, claim |-> lap]}
    BY <1>2, <1>3, <1>5, <1>7, SpendsOpenClaim
  <1>9. Minted(leaves') = Minted(leaves) \cup {position, rest}
    BY <1>2, <1>5, MintedTwo DEF TypeOK, SpendInv
  <1>10. e.note = note /\ position.note = out /\ rest.note = change
    BY DEF EntryOf
  <1> HIDE DEF e, position, rest
  <1>11. position \in Minted(leaves') /\ rest \in Minted(leaves')
    BY <1>9
  <1> QED
    BY <1>3, <1>4, <1>5, <1>6, <1>8, <1>9, <1>10, <1>11, Mapping, MappingNext
    DEF Promised!Exchange, Promised!Open, Promised!Honour

-----------------------------------------------------------------------------
(***************************************************************************)
(* The pool implements the ledger, for all accounts, amounts, capacities   *)
(* and bounds, with one claim on a note for each encoding of its nullifier.*)
(***************************************************************************)
THEOREM PoolImplementsLedger == Spec => ImplementsLedger
  <1>1. Init => Promised!Init
    <2> SUFFICES ASSUME Init PROVE Promised!Init
      OBVIOUS
    <2>1. token[Pool] = 0 /\ fees = 0 /\ leaves = <<>> /\ spends = <<>>
      BY DEF Init, Accounts
    <2> QED
      BY <2>1 DEF Promised!Init
  <1>2. TypeOK /\ SpendInv /\ FreshStorage /\ [Next]_poolVars
          => [Promised!Next]_(Promised!ledgerVars)
    <2> SUFFICES ASSUME TypeOK, SpendInv, FreshStorage, [Next]_poolVars
                 PROVE  Promised!Next \/ UNCHANGED Promised!ledgerVars
      OBVIOUS
    <2>1. CASE Initialize
      BY <2>1, Stutter DEF Initialize, FreshStorage
    <2>2. CASE \E seed \in Seeds : SeedReserves(seed[1], seed[2])
      BY <2>2, Stutter DEF SeedReserves
    <2>3. CASE \E ref \in Refs, isDenied \in BOOLEAN : SetDenied(ref, isDenied)
      BY <2>3, Stutter DEF SetDenied
    <2>4. CASE \E to \in Users : WithdrawFees(to)
      BY <2>4, WithdrawFeesPays DEF Promised!Next
    <2>5. CASE ShieldCall
      BY <2>5, ShieldDeposits, PoolAssumption DEF ShieldCall, Promised!Next
    <2>6. CASE UnshieldCall
      BY <2>6, UnshieldCallWitness, UnshieldWithdraws DEF Promised!Next
    <2>7. CASE PrivateSwapCall
      BY <2>7, SwapCallWitness, PrivateSwapExchanges DEF Promised!Next
    <2>8. CASE UNCHANGED poolVars
      BY <2>8, Stutter DEF poolVars
    <2> QED
      BY <2>1, <2>2, <2>3, <2>4, <2>5, <2>6, <2>7, <2>8 DEF Next
  <1> QED
    BY <1>1, <1>2, FreshAlways, PTL DEF Spec, ImplementsLedger, Promised!Spec
-----------------------------------------------------------------------------
(* The worth of a set of leaves.                                           *)

\* The terms of LeafTotal, for any history of insertions.
AmountsIn(history, S) ==
    [i \in Nat |-> IF i \in S THEN history[i].amount ELSE 0]

Worth(history, S) == Total(AmountsIn(history, S), Len(history))

\* Notes hold naturals, so the terms and their sum are naturals.
LEMMA WorthType ==
  ASSUME NEW history \in Seq(Note), NEW S \in SUBSET DOMAIN history
  PROVE  /\ AmountsIn(history, S) \in [Nat -> Nat]
         /\ AmountsIn(history, S) \in [Nat -> Int]
         /\ Worth(history, S) \in Nat
         /\ \A i \in S : i \in 1 .. Len(history) /\ history[i].amount \in Nat
                          /\ AmountsIn(history, S)[i] = history[i].amount
         /\ \A i \in Nat \ S : AmountsIn(history, S)[i] = 0
  <1>1. \A i \in S : i \in 1 .. Len(history) /\ i \in Nat /\ history[i] \in Note
    OBVIOUS
  <1>2. \A note \in Note : note.amount \in Nat
    BY MaxU64Assumption DEF Note, U64
  <1>3. \A i \in Nat : (IF i \in S THEN history[i].amount ELSE 0) \in Nat
    BY <1>1, <1>2
  <1>4. AmountsIn(history, S) \in [Nat -> Nat]
    BY <1>3 DEF AmountsIn
  <1>5. AmountsIn(history, S) \in [Nat -> Int]
    BY <1>4
  <1>6. Worth(history, S) \in Nat
    BY <1>4, TotalNat, SMTT(60) DEF Worth
  <1>7. /\ \A i \in S : AmountsIn(history, S)[i] = history[i].amount
        /\ \A i \in Nat \ S : AmountsIn(history, S)[i] = 0
    BY <1>1 DEF AmountsIn
  <1> QED
    BY <1>1, <1>2, <1>4, <1>5, <1>6, <1>7

(***************************************************************************)
(* Fewer leaves are worth less, by each of those that are missing.         *)
(***************************************************************************)
LEMMA WorthLess ==
  ASSUME NEW history \in Seq(Note), NEW T \in SUBSET DOMAIN history,
         NEW S \in SUBSET T
  PROVE  /\ Worth(history, S) <= Worth(history, T)
         /\ \A j \in T \ S : Worth(history, S) + history[j].amount <= Worth(history, T)
  <1> DEFINE f == AmountsIn(history, T)
             g == AmountsIn(history, S)
  <1>1. S \in SUBSET DOMAIN history /\ Len(history) \in Nat
    OBVIOUS
  <1>2. /\ f \in [Nat -> Int] /\ g \in [Nat -> Int]
        /\ \A i \in T : f[i] = history[i].amount /\ f[i] \in Nat /\ i \in 1 .. Len(history)
        /\ \A i \in Nat \ T : f[i] = 0
        /\ \A i \in S : g[i] = history[i].amount
        /\ \A i \in Nat \ S : g[i] = 0
    <2>1. /\ f \in [Nat -> Int] /\ \A i \in Nat \ T : f[i] = 0
          /\ \A i \in T : i \in 1 .. Len(history) /\ history[i].amount \in Nat
                            /\ f[i] = history[i].amount
      BY WorthType
    <2>2. /\ g \in [Nat -> Int] /\ \A i \in Nat \ S : g[i] = 0
          /\ \A i \in S : g[i] = history[i].amount
      BY <1>1, WorthType
    <2> QED
      BY <2>1, <2>2
  <1>3. Worth(history, S) = Total(g, Len(history)) /\ Worth(history, S) \in Nat
        /\ Worth(history, T) = Total(f, Len(history)) /\ Worth(history, T) \in Nat
    BY <1>1, WorthType DEF Worth
  <1> HIDE DEF f, g
  <1>4. \A k \in 1 .. Len(history) : g[k] <= f[k]
    <2> SUFFICES ASSUME NEW k \in 1 .. Len(history) PROVE g[k] <= f[k]
      OBVIOUS
    <2>1. k \in Nat
      OBVIOUS
    <2>2. CASE k \in S
      <3>1. f[k] = history[k].amount /\ g[k] = history[k].amount /\ f[k] \in Nat
        BY <1>2, <2>2
      <3> QED
        BY <3>1
    <2>3. CASE k \in T \ S
      <3>1. f[k] \in Nat /\ g[k] = 0
        BY <1>2, <2>1, <2>3
      <3> QED
        BY <3>1
    <2>4. CASE k \notin T
      <3>1. k \in Nat \ T /\ k \in Nat \ S
        BY <2>1, <2>4
      <3>2. f[k] = 0 /\ g[k] = 0
        BY <1>2, <3>1
      <3> QED
        BY <3>2
    <2> QED
      BY <2>2, <2>3, <2>4
  <1>5. ASSUME NEW j \in T \ S
        PROVE  Worth(history, S) + history[j].amount <= Worth(history, T)
    <2>1. j \in 1 .. Len(history) /\ f[j] = history[j].amount /\ f[j] \in Nat /\ g[j] = 0
      BY <1>2
    <2>2. Total(g, Len(history)) + (f[j] - g[j]) <= Total(f, Len(history))
      BY <1>1, <1>2, <1>4, <2>1, TotalLess
    <2> QED
      BY <1>3, <2>1, <2>2
  <1>6. Worth(history, S) <= Worth(history, T)
    <2>1. CASE S = T
      BY <1>3, <2>1
    <2>2. CASE S # T
      <3>1. PICK j \in T \ S : TRUE
        BY <2>2
      <3>2. history[j].amount \in Nat
        BY <1>2
      <3> QED
        BY <1>3, <1>5, <3>2
    <2> QED
      BY <2>1, <2>2
  <1> QED
    BY <1>5, <1>6

(***************************************************************************)
(* One more leaf counts with its amount, or not at all.                    *)
(***************************************************************************)
LEMMA WorthAppend ==
  ASSUME NEW history \in Seq(Note), NEW leaf \in Note,
         NEW S \in SUBSET DOMAIN history
  PROVE  /\ Worth(Append(history, leaf), S) = Worth(history, S)
         /\ Worth(Append(history, leaf), S \cup {Len(history) + 1})
              = Worth(history, S) + leaf.amount
  <1> DEFINE new == Append(history, leaf)
             n == Len(history)
             U == S \cup {n + 1}
  <1>1. /\ n \in Nat /\ Len(new) = n + 1 /\ new \in Seq(Note)
        /\ DOMAIN history = 1 .. n /\ DOMAIN new = 1 .. n + 1
        /\ \A i \in 1 .. n : new[i] = history[i]
        /\ new[n + 1] = leaf
    OBVIOUS
  <1> HIDE DEF new, n
  <1>2. S \in SUBSET DOMAIN new /\ U \in SUBSET DOMAIN new
        /\ n + 1 \in Nat \ S /\ n + 1 \in U
    BY <1>1
  <1> DEFINE old == AmountsIn(history, S)
             f == AmountsIn(new, S)
             g == AmountsIn(new, U)
  <1>3. /\ old \in [Nat -> Int] /\ Worth(history, S) = Total(old, n)
        /\ \A i \in S : old[i] = history[i].amount
        /\ \A i \in Nat \ S : old[i] = 0
    BY WorthType DEF Worth, n
  <1>4. /\ f \in [Nat -> Int] /\ Worth(new, S) = Total(f, n + 1)
        /\ \A i \in S : f[i] = new[i].amount
        /\ \A i \in Nat \ S : f[i] = 0
    BY <1>1, <1>2, WorthType DEF Worth
  <1>5. /\ g \in [Nat -> Int] /\ Worth(new, U) = Total(g, n + 1)
        /\ \A i \in U : g[i] = new[i].amount
        /\ \A i \in Nat \ U : g[i] = 0
    BY <1>1, <1>2, WorthType, ZenonT(60) DEF Worth
  <1> HIDE DEF old, f, g
  <1>6. ASSUME NEW k \in 1 .. n PROVE old[k] = f[k] /\ old[k] = g[k]
    <2>1. k \in Nat /\ k # n + 1
      BY <1>1
    <2>2. CASE k \in S
      BY <1>1, <1>3, <1>4, <1>5, <2>1, <2>2
    <2>3. CASE k \notin S
      BY <1>1, <1>3, <1>4, <1>5, <2>1, <2>3
    <2> QED
      BY <2>2, <2>3
  <1>7. Total(old, n) = Total(f, n) /\ Total(old, n) = Total(g, n)
    BY <1>1, <1>3, <1>4, <1>5, <1>6, TotalAgree
  <1>8. /\ Total(f, n + 1) = Total(f, n) + f[n + 1] /\ Total(f, n) \in Int
        /\ Total(g, n + 1) = Total(g, n) + g[n + 1]
    BY <1>1, <1>4, <1>5, TotalLaws
  <1>9. f[n + 1] = 0 /\ g[n + 1] = leaf.amount
    BY <1>1, <1>2, <1>4, <1>5
  <1> QED
    BY <1>3, <1>4, <1>5, <1>7, <1>8, <1>9, SMTT(60) DEF new, n
-----------------------------------------------------------------------------
(* Solvency.                                                               *)

\* The unspent collateral leaves of a history, and those of one asset.
NullifierIn(history, i) ==
    NullifierOf(history[i].ownerPk[2], history[i].rho, Slot(i - 1))

Owed(history, used) ==
    {i \in DOMAIN history : history[i].asset = COLLATERAL
                              /\ NullifierIn(history, i) \notin used}

MintedOf(history, asset) == {i \in DOMAIN history : history[i].asset = asset}

\* The sums of the properties, now and after a step, as functions of the history.
LEMMA OwedSums ==
  /\ Unspent(COLLATERAL) = Owed(leaves, NullifiedScalars)
  /\ LeafTotal(Unspent(COLLATERAL)) = Worth(leaves, Owed(leaves, NullifiedScalars))
  /\ LeafTotal(Unspent(COLLATERAL))' = Worth(leaves', Owed(leaves', NullifiedScalars'))
  BY DEF LeafTotal, Unspent, LeafNullifier, NullifierIn, Owed, Worth, AmountsIn

\* What is owed of a history is a natural.
LEMMA OwedType ==
  ASSUME NEW history \in Seq(Note), NEW used
  PROVE  Owed(history, used) \in SUBSET DOMAIN history
         /\ Worth(history, Owed(history, used)) \in Nat
  <1>1. Owed(history, used) \in SUBSET DOMAIN history
    BY DEF Owed
  <1> QED
    BY <1>1, WorthType

\* The notes of the spends, which of them are repeats, and what these are worth.
NotesOf(records) == [n \in DOMAIN records |-> records[n].note]

RepeatsIn(records) ==
    {n \in DOMAIN records : \E m \in 1 .. n - 1 :
        records[m].nullifier.scalar = records[n].nullifier.scalar}

Repaid(records) == Worth(NotesOf(records), RepeatsIn(records))

\* The notes of a history of spends, and the repeats among them.
LEMMA RepaidType ==
  ASSUME NEW records \in Seq(SpendRecord)
  PROVE  /\ NotesOf(records) \in Seq(Note) /\ Len(NotesOf(records)) = Len(records)
         /\ DOMAIN NotesOf(records) = DOMAIN records
         /\ RepeatsIn(records) \in SUBSET DOMAIN NotesOf(records)
         /\ Repaid(records) \in Nat
  <1>1. \A n \in DOMAIN records : records[n].note \in Note
    BY RecordParts
  <1>2. /\ NotesOf(records) \in Seq(Note) /\ Len(NotesOf(records)) = Len(records)
        /\ DOMAIN NotesOf(records) = DOMAIN records
    BY <1>1 DEF NotesOf
  <1>3. RepeatsIn(records) \in SUBSET DOMAIN NotesOf(records)
    BY <1>2 DEF RepeatsIn
  <1> QED
    BY <1>2, <1>3, WorthType DEF Repaid

\* Uncovered in terms of them.
LEMMA UncoveredSums ==
  ASSUME spends \in Seq(SpendRecord)
  PROVE  Uncovered = swapFees + Repaid(spends)
  <1> DEFINE f == [n \in Nat |-> IF n \in Repeats THEN spends[n].note.amount ELSE 0]
             g == AmountsIn(NotesOf(spends), RepeatsIn(spends))
  <1>1. Repeats = RepeatsIn(spends)
    BY DEF Repeats, RepeatsIn
  <1>2. \A n \in RepeatsIn(spends) : NotesOf(spends)[n] = spends[n].note
    BY DEF RepeatsIn, NotesOf
  <1>3. f = g
    BY <1>1, <1>2 DEF AmountsIn
  <1>4. Len(NotesOf(spends)) = Len(spends)
    BY RepaidType
  <1>5. Uncovered = swapFees + Total(f, Len(spends))
    BY DEF Uncovered
  <1>6. Repaid(spends) = Total(g, Len(spends))
    BY <1>4 DEF Repaid, Worth
  <1> HIDE DEF f, g
  <1> QED
    BY <1>3, <1>5, <1>6

(***************************************************************************)
(* One spend more is a repeat if its scalar was nullified, and nothing     *)
(* otherwise.                                                              *)
(***************************************************************************)
LEMMA RepaidAppend ==
  ASSUME NEW records \in Seq(SpendRecord), NEW new \in SpendRecord,
         NEW more, more = Append(records, new)
  PROVE  /\ (\A n \in DOMAIN records :
                records[n].nullifier.scalar # new.nullifier.scalar)
              => Repaid(more) = Repaid(records)
         /\ (\E n \in DOMAIN records :
                records[n].nullifier.scalar = new.nullifier.scalar)
              => Repaid(more) = Repaid(records) + new.note.amount
  <1> DEFINE last == Len(records) + 1
             history == NotesOf(records)
             S == RepeatsIn(records)
  <1>1. /\ more \in Seq(SpendRecord) /\ Len(records) \in Nat
        /\ DOMAIN records = 1 .. Len(records) /\ DOMAIN more = DOMAIN records \cup {last}
        /\ \A n \in DOMAIN records : more[n] = records[n]
        /\ more[last] = new /\ last \notin DOMAIN records
        /\ 1 .. last - 1 = DOMAIN records
        /\ \A n \in DOMAIN records : 1 .. n - 1 \subseteq DOMAIN records
    OBVIOUS
  <1>2. /\ history \in Seq(Note) /\ Len(history) = Len(records)
        /\ DOMAIN history = DOMAIN records /\ S \in SUBSET DOMAIN history
        /\ new.note \in Note
    BY RepaidType DEF SpendRecord
  <1>3. NotesOf(more) = Append(history, new.note)
    <2>1. /\ NotesOf(more) \in Seq(Note) /\ Append(history, new.note) \in Seq(Note)
          /\ Len(NotesOf(more)) = last /\ Len(Append(history, new.note)) = last
          /\ DOMAIN NotesOf(more) = DOMAIN more
          /\ DOMAIN Append(history, new.note) = DOMAIN more
      <3>1. /\ NotesOf(more) \in Seq(Note) /\ Len(NotesOf(more)) = Len(more)
            /\ DOMAIN NotesOf(more) = DOMAIN more /\ Len(more) = last
        <4>1. more \in Seq(SpendRecord) /\ Len(more) = last
          BY <1>1
        <4> QED
          BY <4>1, RepaidType
      <3> HIDE DEF history
      <3>2. /\ Append(history, new.note) \in Seq(Note)
            /\ Len(Append(history, new.note)) = last
            /\ DOMAIN Append(history, new.note) = 1 .. last
        BY <1>2
      <3>3. DOMAIN more = 1 .. last
        BY <1>1
      <3> QED
        BY <3>1, <3>2, <3>3
    <2>2. ASSUME NEW n \in DOMAIN more
          PROVE  NotesOf(more)[n] = Append(history, new.note)[n]
      <3>1. CASE n = last
        <4>1. NotesOf(more)[n] = new.note
          BY <1>1, <3>1 DEF NotesOf
        <4>2. Append(history, new.note)[n] = new.note
          <5> HIDE DEF history
          <5> QED
            BY <1>2, <3>1
        <4> QED
          BY <4>1, <4>2
      <3>2. CASE n \in DOMAIN records
        <4>1. NotesOf(more)[n] = records[n].note /\ history[n] = records[n].note
          BY <1>1, <3>2 DEF NotesOf
        <4>2. Append(history, new.note)[n] = history[n]
          <5> HIDE DEF history
          <5> QED
            BY <1>2, <3>2
        <4> QED
          BY <4>1, <4>2
      <3> QED
        BY <1>1, <3>1, <3>2
    <2> HIDE DEF history
    <2> QED
      BY <2>1, <2>2
  <1> HIDE DEF last, history
  <1>4. \A n \in DOMAIN records : n \in RepeatsIn(more) <=> n \in S
    BY <1>1 DEF RepeatsIn
  <1>5. last \in RepeatsIn(more)
          <=> \E n \in DOMAIN records : records[n].nullifier.scalar = new.nullifier.scalar
    BY <1>1 DEF RepeatsIn
  <1>6. RepeatsIn(more) \subseteq DOMAIN records \cup {last} /\ S \subseteq DOMAIN records
    BY <1>1 DEF RepeatsIn
  <1>7. ASSUME \A n \in DOMAIN records :
                 records[n].nullifier.scalar # new.nullifier.scalar
        PROVE  Repaid(more) = Repaid(records)
    <2>1. RepeatsIn(more) = S
      BY <1>4, <1>5, <1>6, <1>7
    <2> HIDE DEF S
    <2>2. Worth(Append(history, new.note), S) = Worth(history, S)
      BY <1>2, WorthAppend
    <2> QED
      BY <1>3, <2>1, <2>2 DEF Repaid, S, history
  <1>8. ASSUME \E n \in DOMAIN records :
                 records[n].nullifier.scalar = new.nullifier.scalar
        PROVE  Repaid(more) = Repaid(records) + new.note.amount
    <2>1. RepeatsIn(more) = S \cup {Len(history) + 1}
      BY <1>2, <1>4, <1>5, <1>6, <1>8 DEF last
    <2> HIDE DEF S
    <2>2. Worth(Append(history, new.note), S \cup {Len(history) + 1})
            = Worth(history, S) + new.note.amount
      BY <1>2, WorthAppend
    <2> QED
      BY <1>3, <2>1, <2>2 DEF Repaid, S, history
  <1> QED
    BY <1>7, <1>8

(***************************************************************************)
(* A spend of an inserted collateral note: if its scalar is new it takes a *)
(* leaf off what is owed, and if it is not, that leaf was taken off before *)
(* and the amount counts as paid twice.                                    *)
(***************************************************************************)
LEMMA SpendPays ==
  ASSUME TypeOK, SpendInv, NEW sk \in SpendKeys, NEW note \in Note, NEW slot \in Slots,
         note.ownerPk = OwnerPk(sk), note.asset = COLLATERAL,
         Inserted(leaves, note, slot),
         NEW nullifier \in NullifierBytes,
         nullifier.scalar = NullifierOf(sk, note.rho, slot),
         MarkSpent(nullifier, note, slot)
  PROVE  \E repaid \in Nat :
           /\ Repaid(spends') = Repaid(spends) + repaid
           /\ Worth(leaves, Owed(leaves, NullifiedScalars')) + note.amount
                <= Worth(leaves, Owed(leaves, NullifiedScalars)) + repaid
  <1> DEFINE owed == Owed(leaves, NullifiedScalars)
             rest == Owed(leaves, NullifiedScalars')
             new == [note |-> note, slot |-> slot, nullifier |-> nullifier]
  <1>1. /\ NullifiedScalars' = NullifiedScalars \cup {nullifier.scalar}
        /\ spends' = Append(spends, new)
    BY DEF MarkSpent, NullifiedScalars
  <1>2. /\ spends \in Seq(SpendRecord) /\ new \in SpendRecord
        /\ new.note = note /\ new.nullifier = nullifier
        /\ leaves \in Seq(Note) /\ note.amount \in Nat
    <2>1. note.amount \in Nat
      BY MaxU64Assumption DEF Note, U64
    <2>2. new \in SpendRecord
      BY DEF SpendRecord
    <2> QED
      BY <2>1, <2>2 DEF TypeOK
  <1> HIDE DEF new
  <1>3. nullifier.scalar \in NullifiedScalars
          <=> \E n \in DOMAIN spends :
                 spends[n].nullifier.scalar = new.nullifier.scalar
    BY <1>2 DEF SpendInv, NullifiedScalars
  <1>4. /\ owed \in SUBSET DOMAIN leaves /\ rest \in SUBSET DOMAIN leaves
        /\ Worth(leaves, owed) \in Nat /\ Worth(leaves, rest) \in Nat
        /\ Repaid(spends) \in Nat
    BY <1>2, OwedType, RepaidType
  <1>5. CASE nullifier.scalar \in NullifiedScalars
    <2>1. rest = owed
      <3>1. NullifiedScalars' = NullifiedScalars
        BY <1>1, <1>5
      <3> QED
        BY <3>1
    <2>2. Repaid(spends') = Repaid(spends) + note.amount
      BY <1>1, <1>2, <1>3, <1>5, RepaidAppend
    <2> HIDE DEF owed, rest
    <2>3. Worth(leaves, rest) + note.amount <= Worth(leaves, owed) + note.amount
      BY <1>2, <1>4, <2>1
    <2> QED
      BY <1>2, <2>2, <2>3 DEF owed, rest
  <1>6. CASE nullifier.scalar \notin NullifiedScalars
    <2>1. PICK j \in DOMAIN leaves : leaves[j] = note /\ Slot(j - 1) = slot
      BY DEF Inserted
    <2>2. NullifierIn(leaves, j) = nullifier.scalar
      <3>1. OwnerPk(sk)[2] = sk
        BY DEF OwnerPk
      <3> QED
        BY <2>1, <3>1 DEF NullifierIn
    <2>3. j \in owed
      BY <1>6, <2>1, <2>2 DEF Owed
    <2>4. rest \in SUBSET owed /\ j \notin rest
      BY <1>1, <2>2 DEF Owed
    <2>5. Repaid(spends') = Repaid(spends)
      BY <1>1, <1>2, <1>3, <1>6, RepaidAppend
    <2> HIDE DEF owed, rest
    <2>6. Worth(leaves, rest) + note.amount <= Worth(leaves, owed)
      BY <1>2, <1>4, <2>1, <2>3, <2>4, WorthLess
    <2>7. /\ Repaid(spends') = Repaid(spends) + 0
          /\ Worth(leaves, rest) + note.amount <= Worth(leaves, owed) + 0
      BY <1>4, <2>5, <2>6
    <2> QED
      BY <2>7 DEF owed, rest
  <1> QED
    BY <1>5, <1>6

(***************************************************************************)
(* One leaf more is owed, at most; none when it is a position.             *)
(***************************************************************************)
LEMMA OwedAppend ==
  ASSUME NEW history \in Seq(Note), NEW leaf \in Note, NEW used
  PROVE  /\ Owed(Append(history, leaf), used)
              \subseteq Owed(history, used) \cup {Len(history) + 1}
         /\ leaf.asset # COLLATERAL
              => Owed(Append(history, leaf), used) = Owed(history, used)
  <1> DEFINE new == Append(history, leaf)
             last == Len(history) + 1
  <1>1. /\ DOMAIN new = DOMAIN history \cup {last}
        /\ \A i \in DOMAIN history : new[i] = history[i] /\ i # last
        /\ new[last] = leaf
    OBVIOUS
  <1> HIDE DEF new, last
  <1>2. \A i \in DOMAIN history : NullifierIn(new, i) = NullifierIn(history, i)
    BY <1>1 DEF NullifierIn
  <1>3. Owed(new, used) \subseteq Owed(history, used) \cup {last}
    BY <1>1, <1>2 DEF Owed
  <1>4. ASSUME leaf.asset # COLLATERAL
        PROVE  Owed(new, used) = Owed(history, used)
    BY <1>1, <1>2, <1>4 DEF Owed
  <1> QED
    BY <1>3, <1>4 DEF new, last

\* The amounts that Solvent compares are numbers.
LEMMA SolvencyTypes ==
  ASSUME TypeOK
  PROVE  /\ leaves \in Seq(Note) /\ fees \in Nat /\ swapFees \in Nat
         /\ Uncovered \in Nat /\ Uncovered = swapFees + Repaid(spends)
         /\ Repaid(spends) \in Nat
         /\ token[Pool] \in Nat /\ swappedIn[YES] \in Nat /\ swappedIn[NO] \in Nat
         /\ Worth(leaves, Owed(leaves, NullifiedScalars)) \in Nat
  <1>1. leaves \in Seq(Note)
    BY DEF TypeOK
  <1>2. Worth(leaves, Owed(leaves, NullifiedScalars)) \in Nat
    BY <1>1, OwedType
  <1>3. /\ Uncovered = swapFees + Repaid(spends) /\ Repaid(spends) \in Nat
        /\ swapFees \in Nat
    BY UncoveredSums, RepaidType DEF TypeOK
  <1>4. Uncovered \in Nat
    BY <1>3
  <1> QED
    BY <1>1, <1>2, <1>3, <1>4, PoolAssumption DEF TypeOK, Accounts, Legs

\* The sum of Uncovered after a step.
LEMMA UncoveredNext ==
  ASSUME TypeOK'
  PROVE  Uncovered' = swapFees' + Repaid(spends')
  <1> DEFINE f == [n \in Nat |-> IF n \in Repeats' THEN spends'[n].note.amount ELSE 0]
             g == AmountsIn(NotesOf(spends'), RepeatsIn(spends'))
  <1>1. Repeats' = RepeatsIn(spends')
    BY DEF Repeats, RepeatsIn
  <1>2. \A n \in RepeatsIn(spends') : NotesOf(spends')[n] = spends'[n].note
    BY DEF RepeatsIn, NotesOf
  <1>3. f = g
    BY <1>1, <1>2 DEF AmountsIn
  <1>4. Len(NotesOf(spends')) = Len(spends')
    BY RepaidType DEF TypeOK
  <1>5. Uncovered' = swapFees' + Total(f, Len(spends'))
    BY DEF Uncovered
  <1>6. Repaid(spends') = Total(g, Len(spends'))
    BY <1>4 DEF Repaid, Worth
  <1> HIDE DEF f, g
  <1> QED
    BY <1>3, <1>5, <1>6

(***************************************************************************)
(* A step that adds to the debts no more than the account, or what no      *)
(* deposit covers, gains keeps the pool solvent.                           *)
(***************************************************************************)
LEMMA StaysSolvent ==
  ASSUME TypeOK, Solvent,
         NEW before \in Nat, before = Worth(leaves, Owed(leaves, NullifiedScalars)),
         NEW after \in Nat, after = Worth(leaves', Owed(leaves', NullifiedScalars')),
         NEW gain \in Int, token'[Pool] = token[Pool] + gain,
         NEW fee \in Int, Uncovered' = Uncovered + fee,
         NEW accrued \in Int, fees' = fees + accrued,
         NEW yes \in Int, swappedIn'[YES] = swappedIn[YES] + yes,
         NEW no \in Int, swappedIn'[NO] = swappedIn[NO] + no,
         (after - before) + accrued + yes + no <= gain + fee
  PROVE  Solvent'
  <1>1. token[Pool] + Uncovered >= before + fees + swappedIn[YES] + swappedIn[NO]
    BY OwedSums DEF Solvent
  <1>2. /\ token[Pool] \in Nat /\ Uncovered \in Nat /\ fees \in Nat
        /\ swappedIn[YES] \in Nat /\ swappedIn[NO] \in Nat
    BY SolvencyTypes
  <1>3. token'[Pool] + Uncovered' >= after + fees' + swappedIn'[YES] + swappedIn'[NO]
    BY <1>1, <1>2
  <1>4. LeafTotal(Unspent(COLLATERAL))' = after
    BY OwedSums
  <1>5. COLLATERAL' = COLLATERAL /\ YES' = YES /\ NO' = NO
    BY DEF COLLATERAL, YES, NO
  <1> QED
    BY <1>3, <1>4, <1>5 DEF Solvent

\* withdraw_fees: what leaves the account was accrued.
LEMMA WithdrawFeesSolvent ==
  ASSUME TypeOK, Solvent, NEW to \in Users, WithdrawFees(to)
  PROVE  Solvent'
  <1>1. /\ fees' = 0 /\ UNCHANGED <<leaves, nullifiers, spends, swappedIn, swapFees>>
        /\ Transfer(Pool, to, fees)
    BY DEF WithdrawFees
  <1>2. Pool \in Accounts /\ Pool # to
    BY PoolAssumption DEF Accounts
  <1>3. token'[Pool] = token[Pool] - fees
    BY <1>1, <1>2, SolvencyTypes DEF Transfer
  <1>4. /\ Owed(leaves', NullifiedScalars') = Owed(leaves, NullifiedScalars)
        /\ leaves' = leaves /\ Uncovered' = Uncovered
    BY <1>1 DEF NullifiedScalars, Uncovered, Repeats
  <1> DEFINE before == Worth(leaves, Owed(leaves, NullifiedScalars))
  <1>5. before \in Nat /\ before = Worth(leaves', Owed(leaves', NullifiedScalars'))
    BY <1>4, SolvencyTypes
  <1> HIDE DEF before
  <1>6. /\ token'[Pool] = token[Pool] + (-fees) /\ fees' = fees + (-fees)
        /\ Uncovered' = Uncovered + 0 /\ swappedIn'[YES] = swappedIn[YES] + 0
        /\ swappedIn'[NO] = swappedIn[NO] + 0
        /\ (before - before) + (-fees) + 0 + 0 <= (-fees) + 0
        /\ -fees \in Int
    BY <1>1, <1>3, <1>4, <1>5, SolvencyTypes, SMTT(60)
  <1> QED
    BY <1>5, <1>6, StaysSolvent DEF before

\* shield: the note it adds is paid for.
LEMMA ShieldSolvent ==
  ASSUME TypeOK, Solvent, NEW from \in Users, NEW amount \in Int,
         NEW ownerPk \in OwnerPks, NEW rho \in Rhos, NEW ref \in Refs,
         Shield(from, amount, ownerPk, rho, ref)
  PROVE  Solvent'
  <1> DEFINE note == ShieldCommitment(amount, ownerPk, rho)
             owed == Owed(leaves, NullifiedScalars)
  <1>1. note \in Note /\ note.amount = amount
    BY DEF Shield, ShieldConstraints, ShieldCommitment, NoteCommitment, Note, Asset
  <1>2. /\ leaves' = Append(leaves, note)
        /\ UNCHANGED <<fees, nullifiers, spends, swappedIn, swapFees>>
        /\ UNCHANGED <<NullifiedScalars, Uncovered>>
        /\ Transfer(from, Pool, amount)
    BY DEF Shield, InsertOne, NullifiedScalars, Uncovered, Repeats
  <1>3. Pool \in Accounts /\ Pool # from
    BY PoolAssumption DEF Accounts
  <1>4. token'[Pool] = token[Pool] + amount
    BY <1>2, <1>3, SolvencyTypes DEF Transfer
  <1> HIDE DEF note
  <1>5. Worth(leaves', Owed(leaves', NullifiedScalars')) <= Worth(leaves, owed) + amount
    <2>1. leaves \in Seq(Note) /\ leaves' \in Seq(Note)
      BY <1>1, <1>2, SolvencyTypes
    <2>2. owed \in SUBSET DOMAIN leaves
      BY <2>1, OwedType
    <2> DEFINE T == owed \cup {Len(leaves) + 1}
    <2>3. T \in SUBSET DOMAIN leaves' /\ Owed(leaves', NullifiedScalars') \in SUBSET T
      BY <1>1, <1>2, <2>1, <2>2, OwedAppend
    <2>4. Worth(leaves', T) = Worth(leaves, owed) + amount
      BY <1>1, <1>2, <2>1, <2>2, WorthAppend
    <2>5. Worth(leaves', Owed(leaves', NullifiedScalars')) <= Worth(leaves', T)
      BY <2>1, <2>3, WorthLess
    <2> QED
      BY <2>4, <2>5
  <1>6. Worth(leaves', Owed(leaves', NullifiedScalars')) \in Nat
    <2>1. leaves' \in Seq(Note)
      BY <1>1, <1>2, SolvencyTypes
    <2> QED
      BY <2>1, OwedType
  <1> DEFINE before == Worth(leaves, owed)
             after == Worth(leaves', Owed(leaves', NullifiedScalars'))
  <1>7. before \in Nat /\ after \in Nat /\ after <= before + amount
    BY <1>5, <1>6, SolvencyTypes
  <1>8. /\ fees' = fees + 0 /\ Uncovered' = Uncovered + 0
        /\ swappedIn'[YES] = swappedIn[YES] + 0 /\ swappedIn'[NO] = swappedIn[NO] + 0
    BY <1>2, SolvencyTypes
  <1> HIDE DEF before, after
  <1>9. (after - before) + 0 + 0 + 0 <= amount + 0
    BY <1>7
  <1> QED
    BY <1>4, <1>7, <1>8, <1>9, StaysSolvent DEF before, after

\* unshield: the note it pays out, less the fee, was owed and no longer is.
LEMMA UnshieldSolvent ==
  ASSUME TypeOK, SpendInv, Solvent, NEW root, NEW slot \in Slots, NEW sk \in SpendKeys,
         NEW rho \in Rhos, NEW withdrawAmount \in U64, NEW recipient \in Users,
         NEW lap \in Laps, NEW fee \in UnshieldFees,
         Unshield(root, slot, sk, rho, withdrawAmount, recipient, fee, lap)
  PROVE  Solvent'
  <1> DEFINE note == NoteCommitment(COLLATERAL, withdrawAmount, OwnerPk(sk), rho)
             nullifier == EncodedAs(NullifierOf(sk, rho, slot), lap)
             payout == withdrawAmount - fee
             owed == Owed(leaves, NullifiedScalars)
  <1>1. /\ note \in Note /\ note.ownerPk = OwnerPk(sk) /\ note.rho = rho
        /\ note.asset = COLLATERAL /\ note.amount = withdrawAmount
    BY DEF NoteCommitment, Note, Asset, OwnerPks
  <1>2. /\ root \in knownRoots /\ root[slot] = note
        /\ nullifier \notin nullifiers
        /\ MarkSpent(nullifier, note, slot)
        /\ nullifier \in NullifierBytes /\ nullifier.scalar = NullifierOf(sk, rho, slot)
        /\ UNCHANGED <<leaves, swappedIn, swapFees>>
    BY EncodedType DEF Unshield, UnshieldConstraints, MerkleInclusion, UnshieldNullifier
  <1>3. /\ withdrawAmount \in Int /\ fee \in Int
        /\ 0 <= fee /\ fee <= withdrawAmount
    BY PoolAssumption, MaxU64Assumption DEF Unshield, U64
  <1>4. \/ payout > 0 /\ Transfer(Pool, recipient, payout)
        \/ ~(payout > 0) /\ UNCHANGED token
    BY DEF Unshield
  <1>5. fees' = IF fee > 0 THEN fees + fee ELSE fees
    BY DEF Unshield, AccrueFee
  <1>6. Pool \in Accounts /\ Pool # recipient
    BY PoolAssumption DEF Accounts
  <1>7. token'[Pool] = token[Pool] - payout
    <2>1. payout \in Int
      BY <1>3
    <2>2. CASE payout > 0 /\ Transfer(Pool, recipient, payout)
      <3> HIDE DEF payout
      <3> QED
        BY <1>6, <2>1, <2>2, SolvencyTypes DEF Transfer
    <2>3. CASE ~(payout > 0) /\ UNCHANGED token
      <3>1. payout = 0
        BY <1>3, <2>3
      <3> HIDE DEF payout
      <3> QED
        BY <2>3, <3>1, SolvencyTypes
    <2> QED
      BY <1>4, <2>2, <2>3
  <1>8. fees' = fees + fee
    BY <1>3, <1>5, SolvencyTypes
  <1> HIDE DEF note, nullifier
  <1>9. Inserted(leaves, note, slot)
    BY <1>1, <1>2, EmptyAssumption DEF SpendInv
  <1>10. PICK repaid \in Nat :
           /\ Repaid(spends') = Repaid(spends) + repaid
           /\ Worth(leaves, Owed(leaves, NullifiedScalars')) + withdrawAmount
                <= Worth(leaves, owed) + repaid
    BY <1>1, <1>2, <1>9, SpendPays
  <1> DEFINE before == Worth(leaves, owed)
             after == Worth(leaves', Owed(leaves', NullifiedScalars'))
  <1>11. before \in Nat /\ after \in Nat /\ after + withdrawAmount <= before + repaid
    <2>1. Worth(leaves, Owed(leaves, NullifiedScalars')) \in Nat
      BY SolvencyTypes, OwedType
    <2> QED
      BY <1>2, <1>10, <2>1, SolvencyTypes
  <1>12. /\ swappedIn'[YES] = swappedIn[YES] + 0 /\ swappedIn'[NO] = swappedIn[NO] + 0
         /\ Uncovered' = Uncovered + repaid /\ repaid \in Int
    <2>1. TypeOK'
      BY UnshieldType, PoolAssumption
    <2> QED
      BY <1>2, <1>10, <2>1, SolvencyTypes, UncoveredNext
  <1>13. /\ payout \in Int /\ -payout \in Int /\ token'[Pool] = token[Pool] + (-payout)
         /\ payout = withdrawAmount - fee
    BY <1>3, <1>7, SolvencyTypes
  <1> HIDE DEF before, after, payout
  <1>14. (after - before) + fee + 0 + 0 <= (-payout) + repaid
    BY <1>3, <1>11, <1>13
  <1> QED
    BY <1>3, <1>8, <1>11, <1>12, <1>13, <1>14, StaysSolvent DEF before, after

\* private_swap: the note it spends is worth the change and what it trades in.
LEMMA PrivateSwapSolvent ==
  ASSUME TypeOK, SpendInv, Solvent, NEW w, NEW assetOut \in Selectors,
         NEW fee \in SwapFees, NEW lap \in Laps, w.ownerSk \in SpendKeys, w.rhoIn \in Rhos,
         w.rhoOut \in Rhos, w.rhoChange \in Rhos, PrivateSwap(w, assetOut, fee, lap)
  PROVE  Solvent'
  <1> DEFINE note == NoteCommitment(COLLATERAL, w.trade.inAmount,
                                    OwnerPk(w.ownerSk), w.rhoIn)
             nullifier == EncodedAs(NullifierOf(w.ownerSk, w.rhoIn, w.slot), lap)
             out == SwapOutCommitment(assetOut + 1, w)
             change == SwapChangeCommitment(w)
             owed == Owed(leaves, NullifiedScalars)
  <1>1. SwapConstraints(tree, assetOut + 1, w) /\ tree \in Tree(Note)
    BY DEF PrivateSwap, TypeOK
  <1>2. w.slot \in Slots /\ note \in Note /\ out \in Note /\ change \in Note
    BY <1>1, SwapNotes
  <1>3. PICK inAmount \in Nat, amountIn \in Nat :
          w.trade.inAmount = inAmount /\ w.trade.amountIn = amountIn
    BY <1>1, MaxU64Assumption DEF SwapConstraints, ExactTrade, TradeValues, U64
  <1>4. /\ note.ownerPk = OwnerPk(w.ownerSk) /\ note.rho = w.rhoIn
        /\ note.asset = COLLATERAL /\ note.amount = inAmount
        /\ change.asset = COLLATERAL /\ change.amount = inAmount - amountIn
        /\ out.asset # COLLATERAL
    BY <1>1, <1>3 DEF NoteCommitment, SwapOutCommitment, SwapChangeCommitment,
                      SwapConstraints, COLLATERAL, YES, NO
  <1>5. /\ tree[w.slot] = note
        /\ nullifier \notin nullifiers
        /\ MarkSpent(nullifier, note, w.slot)
        /\ nullifier \in NullifierBytes
        /\ nullifier.scalar = NullifierOf(w.ownerSk, w.rhoIn, w.slot)
        /\ leaves' = leaves \o <<out, change>>
        /\ UNCHANGED token /\ swapFees' = swapFees + fee /\ AccrueFee(fee) /\ fee >= 0
        /\ swappedIn' = [swappedIn EXCEPT ![InLeg(assetOut)] = @ + amountIn]
    BY <1>1, <1>2, <1>3, EncodedType
    DEF PrivateSwap, SwapConstraints, MerkleInclusion, SwapNullifier, InsertTwo
  <1> HIDE DEF note, nullifier, out, change
  <1>6. Inserted(leaves, note, w.slot)
    BY <1>2, <1>5, EmptyAssumption DEF SpendInv
  <1>7. PICK repaid \in Nat :
          /\ Repaid(spends') = Repaid(spends) + repaid
          /\ Worth(leaves, Owed(leaves, NullifiedScalars')) + note.amount
               <= Worth(leaves, owed) + repaid
    BY <1>2, <1>4, <1>5, <1>6, SpendPays
  <1> DEFINE mid == Append(leaves, out)
             rest == Owed(leaves, NullifiedScalars')
             T == rest \cup {Len(mid) + 1}
  <1>8. /\ leaves \in Seq(Note) /\ mid \in Seq(Note) /\ leaves' \in Seq(Note)
        /\ leaves' = Append(mid, change) /\ Worth(leaves, owed) \in Nat
    <2>1. leaves \in Seq(Note) /\ Worth(leaves, owed) \in Nat
      BY SolvencyTypes
    <2> QED
      BY <1>2, <1>5, <2>1
  <1>9. Owed(mid, NullifiedScalars') = rest /\ Owed(leaves', NullifiedScalars') \subseteq T
    <2>1. Owed(mid, NullifiedScalars') = rest
      BY <1>2, <1>4, <1>8, OwedAppend
    <2> HIDE DEF mid, rest
    <2> QED
      BY <1>2, <1>8, <2>1, OwedAppend
  <1>10. /\ rest \in SUBSET DOMAIN leaves /\ rest \in SUBSET DOMAIN mid
         /\ Owed(leaves', NullifiedScalars') \in SUBSET T /\ T \in SUBSET DOMAIN leaves'
    <2>1. rest \in SUBSET DOMAIN leaves /\ rest \in SUBSET DOMAIN mid
      BY <1>8, <1>9, OwedType
    <2> HIDE DEF mid, rest
    <2>2. DOMAIN leaves' = DOMAIN mid \cup {Len(mid) + 1}
      BY <1>2, <1>8
    <2> QED
      BY <1>9, <2>1, <2>2
  <1>11. Worth(leaves', Owed(leaves', NullifiedScalars')) <= Worth(leaves', T)
    BY <1>8, <1>10, WorthLess
  <1>12. /\ Worth(leaves', T) = Worth(mid, rest) + change.amount
         /\ Worth(mid, rest) = Worth(leaves, rest)
    <2>1. Worth(mid, rest) = Worth(leaves, rest)
      BY <1>2, <1>8, <1>10, WorthAppend, ZenonT(60)
    <2> HIDE DEF mid, rest
    <2> QED
      BY <1>2, <1>8, <1>10, <2>1, WorthAppend
  <1>13. Worth(leaves, rest) + note.amount <= Worth(leaves, owed) + repaid
         /\ Worth(leaves, rest) \in Nat
    <2>1. rest \in SUBSET DOMAIN leaves
      BY <1>10
    <2>2. Worth(leaves, rest) \in Nat
      <3> HIDE DEF rest
      <3> QED
        BY <1>8, <2>1, WorthType
    <2> QED
      BY <1>7, <2>2
  <1> DEFINE before == Worth(leaves, owed)
             after == Worth(leaves', Owed(leaves', NullifiedScalars'))
  <1>14. after \in Nat
    BY <1>8, OwedType
  <1> HIDE DEF mid, rest, T
  <1>15. before \in Nat /\ after + amountIn <= before + repaid
    <2>1. PICK x \in Nat : x = Worth(leaves, rest)
      BY <1>13
    <2>2. Worth(leaves', T) = x + (inAmount - amountIn)
      BY <1>4, <1>12, <2>1
    <2>3. x + inAmount <= before + repaid /\ before \in Nat
      BY <1>4, <1>8, <1>13, <2>1
    <2>4. after <= x + (inAmount - amountIn)
      BY <1>11, <2>2
    <2> HIDE DEF before, after
    <2> QED
      BY <1>14, <2>3, <2>4
  <1>16. /\ fee \in Int /\ fees' = fees + fee
         /\ fee + repaid \in Int /\ Uncovered' = Uncovered + (fee + repaid)
         /\ token'[Pool] = token[Pool] + 0
    <2>1. fee \in Int
      BY PoolAssumption
    <2>2. TypeOK'
      BY <2>1, PrivateSwapType
    <2>3. fees' = fees + fee /\ token'[Pool] = token[Pool] + 0
      <3>1. token[Pool] \in Nat /\ fees \in Nat
        BY SolvencyTypes
      <3>2. fees' = IF fee > 0 THEN fees + fee ELSE fees
        BY <1>5 DEF AccrueFee
      <3>3. fee >= 0 /\ token' = token
        BY <1>5
      <3> QED
        BY <2>1, <3>1, <3>2, <3>3
    <2>4. Uncovered' = (swapFees + fee) + (Repaid(spends) + repaid)
      BY <1>5, <1>7, <2>2, UncoveredNext
    <2>5. /\ Uncovered = swapFees + Repaid(spends)
          /\ swapFees \in Int /\ Repaid(spends) \in Int /\ repaid \in Int
      BY <1>7, SolvencyTypes
    <2> QED
      BY <2>1, <2>3, <2>4, <2>5
  <1> DEFINE yes == IF InLeg(assetOut) = YES THEN amountIn ELSE 0
             no == IF InLeg(assetOut) = NO THEN amountIn ELSE 0
  <1>17. /\ yes \in Int /\ no \in Int /\ yes + no = amountIn
         /\ swappedIn'[YES] = swappedIn[YES] + yes
         /\ swappedIn'[NO] = swappedIn[NO] + no
    <2>1. /\ swappedIn \in [Legs -> Nat] /\ YES \in Legs /\ NO \in Legs /\ YES # NO
          /\ (InLeg(assetOut) = YES \/ InLeg(assetOut) = NO)
      BY DEF TypeOK, Legs, YES, NO, InLeg
    <2>2. CASE InLeg(assetOut) = YES
      BY <1>5, <2>1, <2>2
    <2>3. CASE InLeg(assetOut) = NO
      BY <1>5, <2>1, <2>3
    <2> QED
      BY <2>1, <2>2, <2>3
  <1> HIDE DEF before, after, yes, no
  <1>18. (after - before) + fee + yes + no <= 0 + (fee + repaid)
    BY <1>14, <1>15, <1>16, <1>17
  <1>19. /\ before = Worth(leaves, Owed(leaves, NullifiedScalars))
         /\ after = Worth(leaves', Owed(leaves', NullifiedScalars'))
    BY DEF before, after
  <1> QED
    BY <1>14, <1>15, <1>16, <1>17, <1>18, <1>19, StaysSolvent

\* A step that touches neither the account, the leaves nor the accruals.
LEMMA SolventUntouched ==
  ASSUME Solvent, UNCHANGED <<fees, nullifiers, token, leaves, spends, swappedIn, swapFees>>
  PROVE  Solvent'
  <1>1. UNCHANGED <<NullifiedScalars, Uncovered>>
    BY DEF NullifiedScalars, Uncovered, Repeats
  <1>2. LeafTotal(Unspent(COLLATERAL))' = LeafTotal(Unspent(COLLATERAL))
    BY <1>1, OwedSums
  <1> QED
    BY <1>1, <1>2 DEF Solvent

\* Every step keeps the pool solvent.
LEMMA SolventStep ==
    TypeOK /\ SpendInv /\ FreshStorage /\ Solvent /\ [Next]_poolVars => Solvent'
  <1> SUFFICES ASSUME TypeOK, SpendInv, FreshStorage, Solvent, [Next]_poolVars PROVE Solvent'
    OBVIOUS
  <1>1. CASE Initialize
    BY <1>1, SolventUntouched DEF Initialize, FreshStorage
  <1>2. CASE \E seed \in Seeds : SeedReserves(seed[1], seed[2])
    BY <1>2, SolventUntouched DEF SeedReserves
  <1>3. CASE \E ref \in Refs, isDenied \in BOOLEAN : SetDenied(ref, isDenied)
    BY <1>3, SolventUntouched DEF SetDenied
  <1>4. CASE \E to \in Users : WithdrawFees(to)
    BY <1>4, WithdrawFeesSolvent
  <1>5. CASE ShieldCall
    BY <1>5, ShieldSolvent, PoolAssumption DEF ShieldCall
  <1>6. CASE UnshieldCall
    BY <1>6, UnshieldCallWitness, UnshieldSolvent
  <1>7. CASE PrivateSwapCall
    BY <1>7, SwapCallWitness, PrivateSwapSolvent
  <1>8. CASE UNCHANGED poolVars
    BY <1>8, SolventUntouched DEF poolVars
  <1> QED
    BY <1>1, <1>2, <1>3, <1>4, <1>5, <1>6, <1>7, <1>8 DEF Next

(***************************************************************************)
(* Solvency, for all amounts, accounts, capacities and fees: whatever is   *)
(* shielded, swapped, unshielded and withdrawn in whatever order, the      *)
(* pool's account covers the unspent collateral notes, the accrued fees and*)
(* the collateral in the reserves, but for the fees that swaps accrued and *)
(* the notes that were spent again under another encoding.                 *)
(***************************************************************************)
THEOREM AlwaysSolvent == Spec => []Solvent
  <1>1. Init => Solvent
    <2> SUFFICES ASSUME Init PROVE Solvent
      OBVIOUS
    <2>1. /\ token[Pool] = 0 /\ swapFees = 0 /\ fees = 0
          /\ swappedIn[YES] = 0 /\ swappedIn[NO] = 0 /\ leaves = <<>>
      BY DEF Init, Accounts, Legs
    <2>0. Uncovered = 0
      <3>1. TypeOK /\ spends = <<>>
        BY InitType DEF Init
      <3>2. NotesOf(spends) = <<>> /\ <<>> \in Seq(Note) /\ RepeatsIn(spends) = {}
        BY <3>1 DEF NotesOf, RepeatsIn
      <3>3. AmountsIn(<<>>, {}) \in [Nat -> Int]
        BY DEF AmountsIn
      <3>4. Repaid(spends) = 0
        BY <3>2, <3>3, TotalLaws DEF Repaid, Worth
      <3> QED
        BY <2>1, <3>1, <3>4, SolvencyTypes
    <2>2. Worth(leaves, Owed(leaves, NullifiedScalars)) = 0
      <3>1. leaves \in Seq(Note) /\ Len(leaves) = 0
        BY <2>1
      <3>2. AmountsIn(leaves, Owed(leaves, NullifiedScalars)) \in [Nat -> Int]
        BY <3>1, OwedType, WorthType
      <3> QED
        BY <3>1, <3>2, TotalLaws DEF Worth
    <2> QED
      BY <2>0, <2>1, <2>2, OwedSums DEF Solvent
  <1> QED
    BY <1>1, SolventStep, FreshAlways, PTL DEF Spec
-----------------------------------------------------------------------------
(* Notes can be withdrawn.                                                 *)

(***************************************************************************)
(* Every unspent collateral note can be withdrawn: a known root holds it,  *)
(* whatever was inserted after it, and the account covers it but for the   *)
(* fees of swaps and the notes that were paid twice.                       *)
(***************************************************************************)
THEOREM NotesAlwaysWithdrawable == Spec => []NotesWithdrawable
  <1>1. TypeOK /\ SpendInv /\ RootsAreHistory /\ Solvent => NotesWithdrawable
    <2> SUFFICES ASSUME TypeOK, SpendInv, RootsAreHistory, Solvent,
                        NEW i \in Unspent(COLLATERAL)
                 PROVE  /\ \E root \in knownRoots : root[Slot(i - 1)] = leaves[i]
                        /\ leaves[i].amount <= token[Pool] + Uncovered
      BY DEF NotesWithdrawable
    <2>1. /\ leaves \in Seq(Note) /\ i \in DOMAIN leaves /\ i \in 1 .. Len(leaves)
          /\ i \in Nat /\ i - 1 \in Nat /\ i # 0
      BY DEF TypeOK, Unspent
    <2>2. initialized
      BY <2>1 DEF SpendInv
    <2>3. TreeAfter(i) \in knownRoots
      BY <2>1, <2>2 DEF RootsAreHistory
    <2>4. TreeAfter(i)[Slot(i - 1)] = leaves[i]
      <3>1. Slot(i - 1) \in Slots /\ Slot(i - 1) \in Int
        BY <2>1, SlotType, CapacityAssumption DEF Slots
      <3> DEFINE start == i - 1 - Slot(i - 1)
      <3>2. start + Slot(i - 1) = i - 1
        BY <2>1, <3>1
      <3>3. TreeAfter(i)[Slot(i - 1)]
              = IF start + Slot(i - 1) < i THEN leaves[start + Slot(i - 1) + 1] ELSE Empty
        BY <2>1, <3>1 DEF TreeAfter
      <3> HIDE DEF start
      <3> QED
        BY <2>1, <3>2, <3>3
    <2>5. leaves[i].amount <= token[Pool] + Uncovered
      <3> DEFINE owed == Owed(leaves, NullifiedScalars)
      <3>1. owed \in SUBSET DOMAIN leaves /\ i \in owed
        BY <2>1, OwedType, OwedSums
      <3>2. leaves[i].amount <= Worth(leaves, owed)
        <4> HIDE DEF owed
        <4>1. AmountsIn(leaves, owed) \in [Nat -> Nat]
              /\ AmountsIn(leaves, owed)[i] = leaves[i].amount
          BY <2>1, <3>1, WorthType
        <4>2. Len(leaves) \in Nat
          BY <2>1
        <4> QED
          BY <2>1, <4>1, <4>2, TermBelowTotal DEF Worth
      <3>3. leaves[i].amount \in Nat
        BY <2>1, <3>1, WorthType
      <3>4. PICK sum \in Nat : sum = Worth(leaves, owed)
        BY SolvencyTypes
      <3>5. token[Pool] + Uncovered >= sum + fees + swappedIn[YES] + swappedIn[NO]
        BY <3>4, OwedSums DEF Solvent
      <3>6. /\ token[Pool] \in Nat /\ Uncovered \in Nat /\ fees \in Nat
            /\ swappedIn[YES] \in Nat /\ swappedIn[NO] \in Nat
        BY SolvencyTypes
      <3>7. leaves[i].amount <= sum
        BY <3>2, <3>4
      <3> QED
        BY <3>3, <3>5, <3>6, <3>7
    <2> QED
      BY <2>3, <2>4, <2>5
  <1> QED
    BY <1>1, AlwaysSolvent, SpendInvAlways, RootsAlwaysHistory, PTL

-----------------------------------------------------------------------------
(* The legs of the reserve pair.                                           *)

\* One leaf more counts for its own asset.
LEMMA MintedOfAppend ==
  ASSUME NEW history \in Seq(Note), NEW leaf \in Note, NEW asset
  PROVE  /\ MintedOf(history, asset) \in SUBSET DOMAIN history
         /\ leaf.asset = asset =>
              Worth(Append(history, leaf), MintedOf(Append(history, leaf), asset))
                = Worth(history, MintedOf(history, asset)) + leaf.amount
         /\ leaf.asset # asset =>
              Worth(Append(history, leaf), MintedOf(Append(history, leaf), asset))
                = Worth(history, MintedOf(history, asset))
  <1> DEFINE new == Append(history, leaf)
             last == Len(history) + 1
             S == MintedOf(history, asset)
  <1>1. /\ DOMAIN new = DOMAIN history \cup {last}
        /\ \A i \in DOMAIN history : new[i] = history[i]
        /\ new[last] = leaf
    OBVIOUS
  <1>2. S \in SUBSET DOMAIN history
    BY DEF MintedOf
  <1>3. Worth(new, S) = Worth(history, S)
        /\ Worth(new, S \cup {last}) = Worth(history, S) + leaf.amount
    BY <1>2, WorthAppend
  <1> HIDE DEF new, last
  <1>4. leaf.asset = asset => MintedOf(new, asset) = S \cup {last}
    BY <1>1 DEF MintedOf
  <1>5. leaf.asset # asset => MintedOf(new, asset) = S
    BY <1>1 DEF MintedOf
  <1> QED
    BY <1>2, <1>3, <1>4, <1>5 DEF new

\* The sums of LegsAccounted, as functions of the history.
LEMMA LegSums ==
  /\ LegsAccounted <=>
       \A leg \in Legs : reserves[leg] + Worth(leaves, MintedOf(leaves, leg))
                            = seeded[leg] + swappedIn[leg]
  /\ LegsAccounted' <=>
       \A leg \in Legs : reserves'[leg] + Worth(leaves', MintedOf(leaves', leg))
                            = seeded'[leg] + swappedIn'[leg]
  BY DEF LegsAccounted, LeafTotal, Worth, AmountsIn, MintedOf, Legs, YES, NO

\* The numbers of LegsAccounted.
LEMMA LegTypes ==
  ASSUME TypeOK, NEW leg \in Legs
  PROVE  /\ reserves[leg] \in Nat /\ seeded[leg] \in Int /\ swappedIn[leg] \in Nat
         /\ Worth(leaves, MintedOf(leaves, leg)) \in Nat
  <1>1. leaves \in Seq(Note) /\ MintedOf(leaves, leg) \in SUBSET DOMAIN leaves
    BY DEF TypeOK, MintedOf
  <1> QED
    BY <1>1, WorthType DEF TypeOK

\* seed_reserves moves the seed with the reserve.
LEMMA SeedReservesLegs ==
  ASSUME TypeOK, LegsAccounted, NEW yes \in Int, NEW no \in Int, SeedReserves(yes, no)
  PROVE  LegsAccounted'
  <1> SUFFICES ASSUME NEW leg \in Legs
               PROVE  reserves'[leg] + Worth(leaves', MintedOf(leaves', leg))
                        = seeded'[leg] + swappedIn'[leg]
    BY LegSums
  <1>1. /\ seeded'[leg] = seeded[leg] + reserves'[leg] - reserves[leg]
        /\ swappedIn'[leg] = swappedIn[leg] /\ leaves' = leaves
        /\ reserves'[leg] \in Int
    BY DEF SeedReserves
  <1>2. reserves[leg] + Worth(leaves, MintedOf(leaves, leg)) = seeded[leg] + swappedIn[leg]
    BY LegSums
  <1>3. PICK sum \in Nat : sum = Worth(leaves, MintedOf(leaves, leg))
    BY LegTypes
  <1>4. reserves'[leg] + sum = seeded'[leg] + swappedIn'[leg]
    BY <1>1, <1>2, <1>3, LegTypes
  <1> QED
    BY <1>1, <1>3, <1>4

\* shield mints no position.
LEMMA ShieldLegs ==
  ASSUME TypeOK, LegsAccounted, NEW from \in Users, NEW amount \in Int,
         NEW ownerPk \in OwnerPks, NEW rho \in Rhos, NEW ref \in Refs,
         Shield(from, amount, ownerPk, rho, ref)
  PROVE  LegsAccounted'
  <1> DEFINE note == ShieldCommitment(amount, ownerPk, rho)
  <1>1. note \in Note /\ note.asset \notin Legs
    BY DEF Shield, ShieldConstraints, ShieldCommitment, NoteCommitment, Note, Asset,
           Legs, COLLATERAL, YES, NO
  <1>2. /\ leaves' = Append(leaves, note) /\ leaves \in Seq(Note)
        /\ UNCHANGED <<reserves, seeded, swappedIn>>
    BY DEF Shield, InsertOne, TypeOK
  <1> HIDE DEF note
  <1>3. \A leg \in Legs :
          Worth(leaves', MintedOf(leaves', leg)) = Worth(leaves, MintedOf(leaves, leg))
    BY <1>1, <1>2, MintedOfAppend
  <1> QED
    BY <1>2, <1>3, LegSums

\* private_swap takes the position it mints out of one reserve and pays the other.
LEMMA PrivateSwapLegs ==
  ASSUME TypeOK, LegsAccounted, NEW w, NEW assetOut \in Selectors,
         NEW fee \in SwapFees, NEW lap \in Laps, w.ownerSk \in SpendKeys, w.rhoIn \in Rhos,
         w.rhoOut \in Rhos, w.rhoChange \in Rhos, PrivateSwap(w, assetOut, fee, lap)
  PROVE  LegsAccounted'
  <1> DEFINE out == SwapOutCommitment(assetOut + 1, w)
             change == SwapChangeCommitment(w)
             in == InLeg(assetOut)
  <1>1. SwapConstraints(tree, assetOut + 1, w) /\ tree \in Tree(Note)
    BY DEF PrivateSwap, TypeOK
  <1>2. out \in Note /\ change \in Note
    BY <1>1, SwapNotes
  <1>3. PICK amountIn \in Nat, amountOut \in Nat :
          /\ w.trade.amountIn = amountIn /\ w.trade.amountOut = amountOut
          /\ w.trade.reserveInAfter = w.trade.reserveInBefore + amountIn
          /\ w.trade.reserveOutAfter = w.trade.reserveOutBefore - amountOut
    BY <1>1, MaxU64Assumption DEF SwapConstraints, ExactTrade, TradeValues, U64
  <1>4. /\ out.asset = assetOut + 1 /\ out.amount = amountOut
        /\ change.asset \notin Legs
    BY <1>3 DEF NoteCommitment, SwapOutCommitment, SwapChangeCommitment,
                COLLATERAL, YES, NO, Legs
  <1>5. /\ leaves' = leaves \o <<out, change>>
        /\ swappedIn' = [swappedIn EXCEPT ![in] = @ + amountIn]
        /\ reserves' = [leg \in Legs |-> IF leg = in THEN reserves[in] + amountIn
                                         ELSE reserves[OutLeg(assetOut)] - amountOut]
        /\ UNCHANGED seeded
        /\ assetOut \in {ASSET_YES, ASSET_NO}
    BY <1>3 DEF PrivateSwap, InsertTwo
  <1>6. OutLeg(assetOut) = assetOut + 1 /\ Legs = {in, OutLeg(assetOut)}
        /\ in # OutLeg(assetOut) /\ in # assetOut + 1
    BY <1>5 DEF InLeg, OutLeg, ASSET_YES, ASSET_NO, YES, NO, Legs
  <1> HIDE DEF out, change, in
  <1> DEFINE mid == Append(leaves, out)
  <1>7. leaves \in Seq(Note) /\ mid \in Seq(Note) /\ leaves' = Append(mid, change)
    BY <1>2, <1>5 DEF TypeOK
  <1> HIDE DEF mid
  <1>8. \A leg \in Legs :
          Worth(leaves', MintedOf(leaves', leg)) = Worth(mid, MintedOf(mid, leg))
    BY <1>2, <1>4, <1>7, MintedOfAppend
  <1>9. Worth(mid, MintedOf(mid, in)) = Worth(leaves, MintedOf(leaves, in))
    BY <1>2, <1>4, <1>6, <1>7, MintedOfAppend DEF mid
  <1>10. Worth(mid, MintedOf(mid, OutLeg(assetOut)))
           = Worth(leaves, MintedOf(leaves, OutLeg(assetOut))) + amountOut
    BY <1>2, <1>4, <1>6, <1>7, MintedOfAppend DEF mid
  <1>11. reserves'[in] + Worth(leaves', MintedOf(leaves', in))
           = seeded'[in] + swappedIn'[in]
    <2>1. in \in Legs /\ swappedIn \in [Legs -> Nat]
      BY <1>6 DEF TypeOK
    <2>2. PICK sum \in Nat : sum = Worth(leaves, MintedOf(leaves, in))
      BY <2>1, LegTypes
    <2>3. /\ reserves'[in] = reserves[in] + amountIn /\ seeded'[in] = seeded[in]
          /\ swappedIn'[in] = swappedIn[in] + amountIn
      BY <1>5, <2>1
    <2>4. reserves[in] + sum = seeded[in] + swappedIn[in]
      BY <2>1, <2>2, LegSums
    <2>5. reserves'[in] + sum = seeded'[in] + swappedIn'[in]
      BY <2>1, <2>3, <2>4, LegTypes
    <2> QED
      BY <1>8, <1>9, <2>1, <2>2, <2>5
  <1> DEFINE outLeg == OutLeg(assetOut)
  <1>12. reserves'[outLeg] + Worth(leaves', MintedOf(leaves', outLeg))
           = seeded'[outLeg] + swappedIn'[outLeg]
    <2>1. outLeg \in Legs /\ outLeg # in /\ swappedIn \in [Legs -> Nat]
      BY <1>6 DEF TypeOK
    <2>2. PICK sum \in Nat : sum = Worth(leaves, MintedOf(leaves, outLeg))
      BY <2>1, LegTypes
    <2>3. /\ reserves'[outLeg] = reserves[outLeg] - amountOut
          /\ seeded'[outLeg] = seeded[outLeg] /\ swappedIn'[outLeg] = swappedIn[outLeg]
      BY <1>5, <2>1
    <2>4. reserves[outLeg] + sum = seeded[outLeg] + swappedIn[outLeg]
      BY <2>1, <2>2, LegSums
    <2>5. Worth(leaves', MintedOf(leaves', outLeg)) = sum + amountOut
      BY <1>8, <1>10, <2>1, <2>2
    <2> HIDE DEF outLeg
    <2>6. reserves'[outLeg] + (sum + amountOut) = seeded'[outLeg] + swappedIn'[outLeg]
      BY <2>1, <2>3, <2>4, LegTypes
    <2> QED
      BY <2>5, <2>6
  <1> QED
    BY <1>6, <1>11, <1>12, LegSums

\* A step that touches neither the reserves, the leaves nor what they came from.
LEMMA LegsUntouched ==
  ASSUME LegsAccounted, UNCHANGED <<reserves, leaves, seeded, swappedIn>>
  PROVE  LegsAccounted'
  BY LegSums

(***************************************************************************)
(* Each leg is accounted for: in every run a reserve and the positions     *)
(* minted from it hold what the admin put in and what was traded for it.   *)
(***************************************************************************)
THEOREM LegsAlwaysAccounted == Spec => []LegsAccounted
  <1>1. Init => LegsAccounted
    <2> SUFFICES ASSUME Init, NEW leg \in Legs
                 PROVE  reserves[leg] + Worth(leaves, MintedOf(leaves, leg))
                          = seeded[leg] + swappedIn[leg]
      BY LegSums
    <2>1. /\ reserves[leg] = 0 /\ seeded[leg] = 0 /\ swappedIn[leg] = 0
          /\ leaves \in Seq(Note) /\ Len(leaves) = 0
      BY DEF Init
    <2>2. Worth(leaves, MintedOf(leaves, leg)) = 0
      <3>1. MintedOf(leaves, leg) \in SUBSET DOMAIN leaves
        BY DEF MintedOf
      <3>2. AmountsIn(leaves, MintedOf(leaves, leg)) \in [Nat -> Int]
        BY <2>1, <3>1, WorthType
      <3> QED
        BY <2>1, <3>2, TotalLaws DEF Worth
    <2> QED
      BY <2>1, <2>2
  <1>2. TypeOK /\ FreshStorage /\ LegsAccounted /\ [Next]_poolVars => LegsAccounted'
    <2> SUFFICES ASSUME TypeOK, FreshStorage, LegsAccounted, [Next]_poolVars
                 PROVE  LegsAccounted'
      OBVIOUS
    <2>1. CASE Initialize
      BY <2>1, LegsUntouched DEF Initialize, FreshStorage
    <2>2. CASE \E seed \in Seeds : SeedReserves(seed[1], seed[2])
      BY <2>2, SeedReservesLegs, PoolAssumption
    <2>3. CASE \E ref \in Refs, isDenied \in BOOLEAN : SetDenied(ref, isDenied)
      BY <2>3, LegsUntouched DEF SetDenied
    <2>4. CASE \E to \in Users : WithdrawFees(to)
      BY <2>4, LegsUntouched DEF WithdrawFees
    <2>5. CASE ShieldCall
      BY <2>5, ShieldLegs, PoolAssumption DEF ShieldCall
    <2>6. CASE UnshieldCall
      BY <2>6, LegsUntouched DEF UnshieldCall, Unshield
    <2>7. CASE PrivateSwapCall
      BY <2>7, SwapCallWitness, PrivateSwapLegs
    <2>8. CASE UNCHANGED poolVars
      BY <2>8, LegsUntouched DEF poolVars
    <2> QED
      BY <2>1, <2>2, <2>3, <2>4, <2>5, <2>6, <2>7, <2>8 DEF Next
  <1> QED
    BY <1>1, <1>2, FreshAlways, PTL DEF Spec
=============================================================================
